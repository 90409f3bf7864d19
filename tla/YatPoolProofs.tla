----------------------------- MODULE YatPoolProofs -----------------------------
(***************************************************************************)
(* Proofs about YatPool, for any number of workers, clients and tasks, any *)
(* queue size, tasks that submit tasks, and calls that overlap the         *)
(* shutdown.                                                               *)
(*                                                                         *)
(*   1. Types, and what the steps do to the threads                        *)
(*   2. Ownership of tasks                                                 *)
(*   3. yatpool_wait: the counters, the barrier, its wake-up               *)
(*   4. No wake-up is lost on cond_queue and cond_slot_available           *)
(*   5. yatpool_destroy                                                    *)
(*   6. YatPool implements PoolContract                                    *)
(***************************************************************************)
EXTENDS YatPool, FiniteSetTheorems, SequenceTheorems, TLAPS

-----------------------------------------------------------------------------
(***************************************************************************)
(* 1. Types, and what the steps do to the threads.                         *)
(***************************************************************************)

(* The strengthening that makes TypeOK inductive: a worker holds a task    *)
(* from the moment it takes it to the moment it counts it, and a thread    *)
(* submits a task exactly while it is inside yatpool_put.                  *)
Placement ==
  /\ \A w \in Workers :
       curr[w] # NoTask <=> pc[w] \in {"run", "free", "count"} \cup PutLabels
  /\ \A p \in Threads : arg[p] # NoTask <=> pc[p] \in PutLabels

Typed == TypeOK /\ Placement

Labels == WorkerLabels \cup PutLabels \cup ClientLabels

-----------------------------------------------------------------------------

(* A signal moves one of the threads that sleep on the condition, if any   *)
(* does, and nobody else.                                                  *)
LEMMA SignalEffect ==
  ASSUME NEW f, NEW from, NEW to, NEW g \in Signal(f, from, to)
  PROVE  \/ g = f /\ \A t \in Threads : f[t] # from
         \/ \E t \in Threads : f[t] = from /\ g = [f EXCEPT ![t] = to]
<1>1. CASE {t \in Threads : f[t] = from} = {}
  BY <1>1 DEF Signal
<1>2. CASE {t \in Threads : f[t] = from} # {}
  <2>1. PICK t \in Threads : f[t] = from /\ g = [f EXCEPT ![t] = to]
    BY <1>2 DEF Signal
  <2>. QED BY <2>1
<1>. QED BY <1>1, <1>2

(* A worker that takes a task moves itself and one sleeping put, if any.   *)
LEMMA TakeWakes ==
  ASSUME TypeOK, NEW w \in Workers, WorkerTake(w)
  PROVE  \/ /\ \A t \in Threads : pc[t] # "asleep_slot"
            /\ pc' = [pc EXCEPT ![w] = "run"]
         \/ \E t \in Threads : /\ t # w /\ pc[t] = "asleep_slot"
                              /\ pc' = [pc EXCEPT ![w] = "run", ![t] = "put_woken"]
<1>. DEFINE f == [pc EXCEPT ![w] = "run"]
<1>1. w \in Threads /\ pc[w] = "loop" /\ pc' \in Signal(f, "asleep_slot", "put_woken")
  BY DEF WorkerTake, Threads
<1>2. \A t \in Threads : f[t] = IF t = w THEN "run" ELSE pc[t]
  BY DEF TypeOK
<1>3. CASE pc' = f /\ \A t \in Threads : f[t] # "asleep_slot"
  BY <1>1, <1>2, <1>3
<1>4. CASE \E t \in Threads : f[t] = "asleep_slot" /\ pc' = [f EXCEPT ![t] = "put_woken"]
  <2>1. PICK t \in Threads : f[t] = "asleep_slot" /\ pc' = [f EXCEPT ![t] = "put_woken"]
    BY <1>4
  <2>2. t # w /\ pc[t] = "asleep_slot"
    BY <1>2, <2>1
  <2>. QED BY <2>1, <2>2
<1>. HIDE DEF f
<1>. QED BY <1>1, <1>3, <1>4, SignalEffect

(* An accepted put moves its caller and one sleeping worker, if any.       *)
LEMMA PutWakes ==
  ASSUME TypeOK, NEW p \in Threads, PutAccepted(p)
  PROVE  \/ /\ \A t \in Threads : pc[t] # "asleep_queue"
            /\ pc' = [pc EXCEPT ![p] = AfterPut(p)]
         \/ \E t \in Threads : /\ t # p /\ pc[t] = "asleep_queue"
                              /\ pc' = [pc EXCEPT ![p] = AfterPut(p), ![t] = "loop"]
<1>. DEFINE f == [pc EXCEPT ![p] = AfterPut(p)]
<1>1. /\ pc[p] \in {"put", "put_woken"} /\ AfterPut(p) # "asleep_queue"
      /\ pc' \in Signal(f, "asleep_queue", "loop")
  BY DEF PutAccepted, PastCheck, AfterPut
<1>2. \A t \in Threads : f[t] = IF t = p THEN AfterPut(p) ELSE pc[t]
  BY DEF TypeOK
<1>3. CASE pc' = f /\ \A t \in Threads : f[t] # "asleep_queue"
  BY <1>1, <1>2, <1>3
<1>4. CASE \E t \in Threads : f[t] = "asleep_queue" /\ pc' = [f EXCEPT ![t] = "loop"]
  <2>1. PICK t \in Threads : f[t] = "asleep_queue" /\ pc' = [f EXCEPT ![t] = "loop"]
    BY <1>4
  <2>2. t # p /\ pc[t] = "asleep_queue"
    BY <1>1, <1>2, <2>1
  <2>. QED BY <2>1, <2>2
<1>. HIDE DEF f
<1>. QED BY <1>1, <1>3, <1>4, SignalEffect

(* What one step does, one case per action.                                *)
LEMMA Steps ==
  ASSUME [Next]_vars
  PROVE  \/ UNCHANGED vars
         \/ /\ ~freed
            /\ \/ \E w \in Workers :
                    \/ WorkerSleep(w) \/ WorkerExit(w) \/ WorkerTake(w)
                    \/ TaskPut(w) \/ TaskReturns(w) \/ FreeTask(w)
                    \/ CountTask(w) \/ Notify(w)
               \/ \E c \in Clients :
                    \/ ClientPut(c) \/ ClientWait(c) \/ ClientDestroy(c)
                    \/ WaitSleep(c) \/ WaitReturns(c)
                    \/ DestroyRefused(c) \/ DestroyBegins(c)
                    \/ WorkersJoined(c) \/ DiscardTask(c) \/ CleanUp(c)
               \/ \E p \in Threads :
                    \/ PutRefused(p) \/ PutSleep(p) \/ PutAccepted(p)
                    \/ SpuriousWakeup(p)
BY DEF Next, Terminated, WorkerStep, NewCall, CallStep, PutStep

(* A step of the clean-up moves only the client that makes it, to the next *)
(* of the clean-up's labels, and frees the pool at the last one.           *)
LEMMA CleanUpMoves ==
  ASSUME NEW c \in Clients, CleanUp(c)
  PROVE  /\ pc[c] \in CleanUpLabels \ {"destroyed"}
         /\ \E l \in CleanUpLabels \ {"discard"} :
              /\ pc' = [pc EXCEPT ![c] = l]
              /\ IF l = "destroyed" THEN freed' = TRUE ELSE UNCHANGED freed
         /\ UNCHANGED <<curr, arg, local_done, queue, all_done, counters, status>>
BY DEF CleanUp, QueueEmptied, SlotConditionDestroyed, BatchConditionDestroyed,
       FreePool, Goto, CleanUpLabels

-----------------------------------------------------------------------------

(* The pool starts in such a state.                                        *)
LEMMA TypedInit == Init => Typed
<1>. SUFFICES ASSUME Init
              PROVE  Typed
  OBVIOUS
<1>1. queue \in Seq(Tasks) /\ Len(queue) = 0
  BY EmptySeq DEF Init
<1>2. /\ pc \in [Threads -> Labels]
      /\ \A w \in Workers : pc[w] = "loop"
      /\ \A c \in Clients : pc[c] = "idle"
  BY PoolAssumption
     DEF Init, Threads, Labels, WorkerLabels, PutLabels, ClientLabels
<1>3. TypeOK
  <2>1. /\ \A w \in Workers : pc[w] \in WorkerLabels \cup PutLabels
        /\ \A c \in Clients : pc[c] \in ClientLabels \cup PutLabels
    BY <1>2 DEF WorkerLabels, ClientLabels
  <2>2. Len(queue) <= QueueSize /\ tasks_completed \in Nat /\ tasks_submitted \in Nat
    BY <1>1, PoolAssumption DEF Init
  <2>. QED BY <1>1, <1>2, <2>1, <2>2 DEF Init, TypeOK, Labels, Statuses
<1>4. Placement
  BY PoolAssumption DEF Init, Placement, Threads, PutLabels
<1>. QED BY <1>3, <1>4 DEF Typed

(* Every step leads from such a state to such a state.                     *)
LEMMA TypedStep == Typed /\ [Next]_vars => Typed'
<1>. SUFFICES ASSUME Typed, [Next]_vars
              PROVE  Typed'
  OBVIOUS
<1>. USE PoolAssumption
     DEF Typed, TypeOK, Placement, Threads, Goto, counters,
         WorkerLabels, PutLabels, ClientLabels
<1>1. ASSUME NEW w \in Workers, WorkerSleep(w)
      PROVE  Typed'
  BY <1>1 DEF WorkerSleep
<1>2. ASSUME NEW w \in Workers, WorkerExit(w)
      PROVE  Typed'
  BY <1>2 DEF WorkerExit
<1>3. ASSUME NEW w \in Workers, TaskPut(w)
      PROVE  Typed'
  BY <1>3 DEF TaskPut, BeginPut, Statuses
<1>4. ASSUME NEW w \in Workers, TaskReturns(w)
      PROVE  Typed'
  BY <1>4 DEF TaskReturns, Statuses
<1>5. ASSUME NEW w \in Workers, FreeTask(w)
      PROVE  Typed'
  BY <1>5 DEF FreeTask, Statuses
<1>6. ASSUME NEW w \in Workers, CountTask(w)
      PROVE  Typed'
  BY <1>6 DEF CountTask
<1>7. ASSUME NEW w \in Workers, Notify(w)
      PROVE  Typed'
  BY <1>7 DEF Notify, Broadcast
<1>8. ASSUME NEW c \in Clients, ClientPut(c)
      PROVE  Typed'
  BY <1>8 DEF ClientPut, BeginPut, MayCall, Roots, Statuses
<1>9. ASSUME NEW c \in Clients, ClientWait(c)
      PROVE  Typed'
  BY <1>9 DEF ClientWait, MayCall
<1>10. ASSUME NEW c \in Clients, ClientDestroy(c)
      PROVE  Typed'
  BY <1>10 DEF ClientDestroy, MayCall
<1>11. ASSUME NEW c \in Clients, WaitSleep(c)
      PROVE  Typed'
  BY <1>11 DEF WaitSleep
<1>12. ASSUME NEW c \in Clients, WaitReturns(c)
      PROVE  Typed'
  BY <1>12 DEF WaitReturns
<1>13. ASSUME NEW c \in Clients, DestroyRefused(c)
      PROVE  Typed'
  BY <1>13 DEF DestroyRefused
<1>14. ASSUME NEW c \in Clients, DestroyBegins(c)
      PROVE  Typed'
  BY <1>14 DEF DestroyBegins, Broadcast
<1>15. ASSUME NEW c \in Clients, WorkersJoined(c)
      PROVE  Typed'
  BY <1>15 DEF WorkersJoined
<1>16. ASSUME NEW c \in Clients, CleanUp(c)
      PROVE  Typed'
  <2>1. PICK l \in CleanUpLabels : pc' = [pc EXCEPT ![c] = l]
    BY <1>16, CleanUpMoves
  <2>2. freed' \in BOOLEAN
    BY <1>16, CleanUpMoves
  <2>. QED BY <1>16, <2>1, <2>2, CleanUpMoves DEF CleanUpLabels
<1>17. ASSUME NEW p \in Threads, PutRefused(p)
      PROVE  Typed'
  BY <1>17 DEF PutRefused, AfterPut, Statuses
<1>18. ASSUME NEW p \in Threads, PutSleep(p)
      PROVE  Typed'
  BY <1>18 DEF PutSleep, PastCheck
<1>19. ASSUME NEW p \in Threads, SpuriousWakeup(p)
      PROVE  Typed'
  BY <1>19 DEF SpuriousWakeup, Awake
<1>20. ASSUME NEW c \in Clients, DiscardTask(c)
      PROVE  Typed'
  <2>1. Tail(queue) \in Seq(Tasks) /\ Len(Tail(queue)) = Len(queue) - 1
    BY <1>20, HeadTailProperties DEF DiscardTask
  <2>. QED
    BY <1>20, <2>1, LenProperties DEF DiscardTask, Statuses
<1>21. ASSUME NEW w \in Workers, WorkerTake(w)
      PROVE  Typed'
  <2>1. /\ Head(queue) \in Tasks
        /\ Tail(queue) \in Seq(Tasks) /\ Len(Tail(queue)) = Len(queue) - 1
    BY <1>21, HeadTailProperties DEF WorkerTake
  <2>2. CASE pc' = [pc EXCEPT ![w] = "run"]
    BY <1>21, <2>1, <2>2, LenProperties DEF WorkerTake, Statuses
  <2>3. ASSUME NEW t \in Threads, t # w, pc[t] = "asleep_slot",
               pc' = [pc EXCEPT ![w] = "run", ![t] = "put_woken"]
        PROVE  Typed'
    <3>1. arg[t] # NoTask /\ pc' \in [Threads -> WorkerLabels \cup PutLabels \cup ClientLabels]
      BY <2>3
    <3>2. /\ \A v \in Workers : pc'[v] \in WorkerLabels \cup PutLabels
          /\ \A c \in Clients : pc'[c] \in ClientLabels \cup PutLabels
      BY <2>3
    <3>3. /\ queue' \in Seq(Tasks) /\ Len(queue') <= QueueSize
          /\ curr' \in [Workers -> Tasks \cup {NoTask}]
          /\ status' \in [Tasks -> Statuses]
      BY <1>21, <2>1, LenProperties DEF WorkerTake, Statuses
    <3>4. TypeOK'
      BY <1>21, <3>1, <3>2, <3>3 DEF WorkerTake
    <3>5. Placement'
      BY <1>21, <2>1, <2>3, <3>1 DEF WorkerTake
    <3>. QED BY <3>4, <3>5
  <2>. QED BY <1>21, <2>2, <2>3, TakeWakes
<1>22. ASSUME NEW p \in Threads, PutAccepted(p)
      PROVE  Typed'
  <2>1. pc[p] \in PutLabels /\ arg[p] \in Tasks
    BY <1>22 DEF PutAccepted, PastCheck
  <2>2. /\ Append(queue, arg[p]) \in Seq(Tasks)
        /\ Len(Append(queue, arg[p])) = Len(queue) + 1
    BY <2>1, AppendProperties
  <2>3. Len(queue) + 1 <= QueueSize
    BY <1>22, LenProperties DEF PutAccepted, QueueFull
  <2>4. CASE pc' = [pc EXCEPT ![p] = AfterPut(p)]
    BY <1>22, <2>1, <2>2, <2>3, <2>4 DEF PutAccepted, AfterPut, Statuses
  <2>5. ASSUME NEW t \in Threads, t # p, pc[t] = "asleep_queue",
               pc' = [pc EXCEPT ![p] = AfterPut(p), ![t] = "loop"]
        PROVE  Typed'
    <3>1. t \in Workers /\ t \notin Clients /\ curr[t] = NoTask /\ arg[t] = NoTask
      BY <2>5
    <3>2. TypeOK'
      BY <1>22, <2>1, <2>2, <2>3, <2>5, <3>1 DEF PutAccepted, AfterPut, Statuses
    <3>3. Placement'
      BY <1>22, <2>1, <2>5, <3>1 DEF PutAccepted, AfterPut
    <3>. QED BY <3>2, <3>3
  <2>. QED BY <1>22, <2>4, <2>5, PutWakes
<1>23. CASE UNCHANGED vars
  BY <1>23 DEF vars
<1>. QED
  BY <1>1, <1>2, <1>3, <1>4, <1>5, <1>6, <1>7, <1>8, <1>9, <1>10, <1>11, <1>12,
     <1>13, <1>14, <1>15, <1>16, <1>17, <1>18, <1>19, <1>20, <1>21, <1>22, <1>23,
     Steps

(* So the pool is always in such a state.                                  *)
LEMMA AlwaysTyped == Spec => []Typed
BY TypedInit, TypedStep, PTL DEF Spec

(* For every value of the constants: threads are only where their own code *)
(* can be and the queue never exceeds its capacity.                        *)
THEOREM Typing == Spec => []TypeOK
<1>1. Typed => TypeOK
  BY DEF Typed
<1>. QED BY AlwaysTyped, <1>1, PTL
-----------------------------------------------------------------------------
(***************************************************************************)
(* 2. Ownership: a task is where its status says, and nowhere else.        *)
(***************************************************************************)

\* The step leaves worker w on the same side of its task's end.
SameStage(w) ==
  /\ pc[w] = "free" <=> pc'[w] = "free"
  /\ pc[w] = "count" <=> pc'[w] = "count"

(* A step that moves no task leaves every task its owner, whatever threads *)
(* it wakes.                                                               *)
LEMMA OwnerQuiet ==
  ASSUME OneOwner, UNCHANGED <<arg, queue, curr, status>>,
         \A w \in Workers : curr[w] # NoTask => SameStage(w)
  PROVE  OneOwner'
BY DEF OneOwner, InPut, InQueue, InWorker, SameStage

(* Whoever removes the oldest task from the queue leaves the others there. *)
LEMMA HeadLeaves ==
  ASSUME Typed, OneOwner, queue # <<>>, queue' = Tail(queue),
         NEW s \in Statuses \ {"queued"},
         status' = [status EXCEPT ![Head(queue)] = s]
  PROVE  InQueue' /\ Head(queue) \in Tasks /\ status[Head(queue)] = "queued"
<1>. DEFINE h == Head(queue)
<1>1. /\ queue \in Seq(Tasks) /\ Len(queue) \in Nat \ {0}
      /\ h = queue[1] /\ h \in Tasks /\ 1 \in DOMAIN queue
      /\ DOMAIN queue = 1 .. Len(queue)
  BY LenProperties, EmptySeq DEF Typed, TypeOK
<1>2. /\ DOMAIN queue' = 1 .. Len(queue) - 1
      /\ \A i \in 1 .. Len(queue) - 1 : queue'[i] = queue[i + 1]
  BY <1>1, HeadTailProperties, LenProperties
<1>3. /\ status' = [status EXCEPT ![h] = s] /\ status \in [Tasks -> Statuses]
      /\ status[h] = "queued"
  BY <1>1 DEF Typed, TypeOK, OneOwner, InQueue
<1>. HIDE DEF h
<1>4. \A i \in 1 .. Len(queue) - 1 : queue[i + 1] # h /\ queue[i + 1] \in Tasks
  BY <1>1 DEF OneOwner, InQueue
<1>5. \A i \in DOMAIN queue' : status'[queue'[i]] = "queued"
  BY <1>1, <1>2, <1>3, <1>4 DEF OneOwner, InQueue
<1>6. \A i, j \in DOMAIN queue' : queue'[i] = queue'[j] => i = j
  BY <1>1, <1>2 DEF OneOwner, InQueue
<1>7. ASSUME NEW t \in Tasks, status'[t] = "queued"
      PROVE  \E i \in DOMAIN queue' : queue'[i] = t
  <2>1. PICK i \in 1 .. Len(queue) : queue[i] = t /\ i # 1
    BY <1>1, <1>3, <1>7 DEF OneOwner, InQueue
  <2>2. i - 1 \in DOMAIN queue' /\ queue'[i - 1] = queue[(i - 1) + 1]
    BY <1>1, <1>2, <2>1
  <2>3. queue'[i - 1] = t
    BY <1>1, <2>1, <2>2
  <2>. QED BY <2>2, <2>3
<1>. QED BY <1>1, <1>3, <1>5, <1>6, <1>7 DEF InQueue, h

(* The worker that takes the oldest task becomes its owner.                *)
LEMMA OwnerTake ==
  ASSUME Typed, OneOwner, NEW w \in Workers, WorkerTake(w)
  PROVE  OneOwner'
<1>. DEFINE h == Head(queue)
<1>1. InQueue' /\ h \in Tasks /\ status[h] = "queued"
  BY HeadLeaves DEF WorkerTake, Statuses
<1>2. /\ curr' = [curr EXCEPT ![w] = h] /\ curr \in [Workers -> Tasks \cup {NoTask}]
      /\ status' = [status EXCEPT ![h] = "running"] /\ status \in [Tasks -> Statuses]
      /\ arg' = arg /\ curr[w] = NoTask
  BY DEF WorkerTake, Typed, TypeOK, Placement, PutLabels
<1>. HIDE DEF h
<1>3. pc'[w] = "run" /\ \A v \in Workers \ {w} : SameStage(v)
  BY TakeWakes DEF Typed, TypeOK, Threads, SameStage
<1>4. InPut'
  BY <1>1, <1>2, PoolAssumption DEF OneOwner, InPut
<1>5. InWorker'
  <2>1. \A v \in Workers \ {w} : curr'[v] = curr[v] /\ curr[v] # h
    BY <1>1, <1>2, PoolAssumption DEF OneOwner, InWorker
  <2>2. curr'[w] = h /\ status'[h] = "running" /\ h # NoTask
    BY <1>1, <1>2, PoolAssumption
  <2>3. ASSUME NEW v \in Workers, curr'[v] # NoTask
        PROVE  status'[curr'[v]] = CASE pc'[v] = "free"  -> "executed"
                                     [] pc'[v] = "count" -> "finished"
                                     [] OTHER            -> "running"
    <3>1. CASE v = w
      BY <1>3, <2>2, <3>1
    <3>2. CASE v # w
      <4>1. curr'[v] = curr[v] /\ curr[v] # h /\ curr[v] \in Tasks
        BY <1>2, <2>1, <2>3, <3>2
      <4>2. status'[curr'[v]] = status[curr[v]]
        BY <1>2, <4>1
      <4>. QED
        BY <1>3, <2>3, <3>2, <4>1, <4>2 DEF OneOwner, InWorker, SameStage
    <3>. QED BY <3>1, <3>2
  <2>4. \A u, v \in Workers : curr'[u] # NoTask /\ curr'[u] = curr'[v] => u = v
    BY <2>1, <2>2 DEF OneOwner, InWorker
  <2>5. \A t \in Tasks :
          status'[t] \in {"running", "executed"} => \E v \in Workers : curr'[v] = t
    BY <1>2, <2>1, <2>2, PoolAssumption DEF OneOwner, InWorker
  <2>. QED BY <2>3, <2>4, <2>5 DEF InWorker
<1>. QED BY <1>1, <1>4, <1>5 DEF OneOwner

(* yatpool_put allocates a task of its own.                                *)
LEMMA OwnerBegin ==
  ASSUME Typed, OneOwner, NEW p \in Threads, NEW t \in Tasks, BeginPut(p, t),
         pc[p] \in {"idle", "run"}
  PROVE  OneOwner'
<1>1. /\ status[t] = "fresh" /\ status' = [status EXCEPT ![t] = "pending"]
      /\ arg' = [arg EXCEPT ![p] = t] /\ arg[p] = NoTask
      /\ queue' = queue /\ curr' = curr
      /\ \A w \in Workers : SameStage(w)
  BY DEF BeginPut, Goto, SameStage, Typed, TypeOK, Placement, PutLabels, Threads
<1>2. /\ arg \in [Threads -> Tasks \cup {NoTask}] /\ status \in [Tasks -> Statuses]
      /\ curr \in [Workers -> Tasks \cup {NoTask}]
      /\ \A i \in DOMAIN queue : queue[i] \in Tasks
  BY LenProperties DEF Typed, TypeOK
<1>3. InPut'
  BY <1>1, <1>2, PoolAssumption DEF OneOwner, InPut
<1>4. InQueue'
  BY <1>1, <1>2 DEF OneOwner, InQueue
<1>5. InWorker'
  BY <1>1, <1>2 DEF OneOwner, InWorker, SameStage
<1>. QED BY <1>3, <1>4, <1>5 DEF OneOwner

(* A refused put frees its task.                                           *)
LEMMA OwnerRefuse ==
  ASSUME Typed, OneOwner, NEW p \in Threads, PutRefused(p)
  PROVE  OneOwner'
<1>. DEFINE t == arg[p]
<1>1. /\ t \in Tasks /\ status[t] = "pending"
      /\ status' = [status EXCEPT ![t] = "rejected"]
      /\ arg' = [arg EXCEPT ![p] = NoTask]
      /\ queue' = queue /\ curr' = curr
      /\ \A w \in Workers : SameStage(w)
  BY DEF PutRefused, AfterPut, Goto, SameStage, Typed, TypeOK, Placement,
         PutLabels, Threads, OneOwner, InPut
<1>2. /\ arg \in [Threads -> Tasks \cup {NoTask}] /\ status \in [Tasks -> Statuses]
      /\ curr \in [Workers -> Tasks \cup {NoTask}]
      /\ \A i \in DOMAIN queue : queue[i] \in Tasks
  BY LenProperties DEF Typed, TypeOK
<1>3. InPut'
  BY <1>1, <1>2, PoolAssumption DEF OneOwner, InPut
<1>4. InQueue'
  BY <1>1, <1>2 DEF OneOwner, InQueue
<1>5. InWorker'
  BY <1>1, <1>2 DEF OneOwner, InWorker, SameStage
<1>. QED BY <1>3, <1>4, <1>5 DEF OneOwner

(* An accepted put hands its task to the queue.                            *)
LEMMA OwnerAccept ==
  ASSUME Typed, OneOwner, NEW p \in Threads, PutAccepted(p)
  PROVE  OneOwner'
<1>. DEFINE t == arg[p]
<1>1. /\ arg \in [Threads -> Tasks \cup {NoTask}] /\ status \in [Tasks -> Statuses]
      /\ curr \in [Workers -> Tasks \cup {NoTask}]
      /\ queue \in Seq(Tasks) /\ Len(queue) \in Nat
      /\ DOMAIN queue = 1 .. Len(queue)
  BY LenProperties DEF Typed, TypeOK
<1>2. /\ t \in Tasks /\ status[t] = "pending"
      /\ status' = [status EXCEPT ![t] = "queued"]
      /\ arg' = [arg EXCEPT ![p] = NoTask]
      /\ queue' = Append(queue, t) /\ curr' = curr
  BY <1>1 DEF PutAccepted, PastCheck, Typed, Placement, PutLabels, OneOwner, InPut
<1>3. \A w \in Workers : curr[w] # NoTask => SameStage(w)
  <2>1. /\ pc[p] \in {"put", "put_woken"} /\ AfterPut(p) \in {"run", "idle"}
        /\ pc \in [Threads -> Labels] /\ Workers \subseteq Threads
    BY DEF PutAccepted, PastCheck, AfterPut, Typed, TypeOK, Labels, Threads
  <2>2. CASE pc' = [pc EXCEPT ![p] = AfterPut(p)]
    BY <2>1, <2>2 DEF SameStage
  <2>3. ASSUME NEW u \in Threads, pc[u] = "asleep_queue",
               pc' = [pc EXCEPT ![p] = AfterPut(p), ![u] = "loop"]
        PROVE  \A w \in Workers : SameStage(w)
    BY <2>1, <2>3 DEF SameStage
  <2>. QED BY <2>2, <2>3, PutWakes DEF Typed
<1>. HIDE DEF t
<1>4. /\ DOMAIN queue' = 1 .. Len(queue) + 1
      /\ \A i \in 1 .. Len(queue) : queue'[i] = queue[i]
      /\ queue'[Len(queue) + 1] = t
  BY <1>1, <1>2, AppendProperties, LenProperties
<1>5. InPut'
  BY <1>1, <1>2, PoolAssumption DEF OneOwner, InPut, t
<1>6. InQueue'
  <2>1. \A i \in 1 .. Len(queue) : queue[i] # t /\ queue[i] \in Tasks
    BY <1>1, <1>2 DEF OneOwner, InQueue
  <2>2. \A i \in DOMAIN queue' : status'[queue'[i]] = "queued"
    BY <1>1, <1>2, <1>4, <2>1 DEF OneOwner, InQueue
  <2>3. \A i, j \in DOMAIN queue' : queue'[i] = queue'[j] => i = j
    <3>. SUFFICES ASSUME NEW i \in 1 .. Len(queue) + 1, NEW j \in 1 .. Len(queue) + 1,
                         queue'[i] = queue'[j]
                  PROVE  i = j
      BY <1>4
    <3>1. CASE i = Len(queue) + 1 \/ j = Len(queue) + 1
      <4>1. \A k \in 1 .. Len(queue) : queue'[k] # queue'[Len(queue) + 1]
        BY <1>4, <2>1
      <4>2. \A k \in 1 .. Len(queue) + 1 :
              k # Len(queue) + 1 => k \in 1 .. Len(queue)
        BY <1>1
      <4>. QED BY <3>1, <4>1, <4>2
    <3>2. CASE i \in 1 .. Len(queue) /\ j \in 1 .. Len(queue)
      BY <1>1, <1>4, <3>2 DEF OneOwner, InQueue
    <3>. QED BY <1>1, <3>1, <3>2
  <2>4. \A u \in Tasks : status'[u] = "queued" => \E i \in DOMAIN queue' : queue'[i] = u
    <3>. SUFFICES ASSUME NEW u \in Tasks, status'[u] = "queued"
                  PROVE  \E i \in DOMAIN queue' : queue'[i] = u
      OBVIOUS
    <3>1. CASE u = t
      BY <1>1, <1>4, <3>1
    <3>2. CASE u # t
      <4>1. PICK i \in 1 .. Len(queue) : queue[i] = u
        BY <1>1, <1>2, <3>2 DEF OneOwner, InQueue
      <4>. QED BY <1>1, <1>4, <4>1
    <3>. QED BY <3>1, <3>2
  <2>. QED BY <2>2, <2>3, <2>4 DEF InQueue
<1>7. InWorker'
  BY <1>1, <1>2, <1>3 DEF OneOwner, InWorker, SameStage
<1>. QED BY <1>5, <1>6, <1>7 DEF OneOwner

(* The function of a task returns, and the task is freed.                  *)
LEMMA OwnerRun ==
  ASSUME Typed, OneOwner, NEW w \in Workers, TaskReturns(w) \/ FreeTask(w)
  PROVE  OneOwner'
<1>. DEFINE t == curr[w]
<1>1. /\ arg \in [Threads -> Tasks \cup {NoTask}] /\ status \in [Tasks -> Statuses]
      /\ curr \in [Workers -> Tasks \cup {NoTask}]
      /\ \A i \in DOMAIN queue : queue[i] \in Tasks
      /\ pc \in [Threads -> Labels] /\ Workers \subseteq Threads
  BY LenProperties DEF Typed, TypeOK, Labels, Threads
<1>2. /\ t \in Tasks /\ arg' = arg /\ queue' = queue /\ curr' = curr
      /\ \/ /\ status[t] = "running"
            /\ status' = [status EXCEPT ![t] = "executed"]
            /\ pc' = [pc EXCEPT ![w] = "free"]
         \/ /\ status[t] = "executed"
            /\ status' = [status EXCEPT ![t] = "finished"]
            /\ pc' = [pc EXCEPT ![w] = "count"]
  BY <1>1 DEF TaskReturns, FreeTask, Goto, Typed, Placement, OneOwner, InWorker
<1>. HIDE DEF t
<1>3. InPut'
  BY <1>1, <1>2, PoolAssumption DEF OneOwner, InPut
<1>4. InQueue'
  BY <1>1, <1>2 DEF OneOwner, InQueue
<1>5. InWorker'
  BY <1>1, <1>2, PoolAssumption DEF OneOwner, InWorker, t
<1>. QED BY <1>3, <1>4, <1>5 DEF OneOwner

(* A counted task has no owner left.                                       *)
LEMMA OwnerCount ==
  ASSUME Typed, OneOwner, NEW w \in Workers, CountTask(w)
  PROVE  OneOwner'
<1>1. /\ arg \in [Threads -> Tasks \cup {NoTask}] /\ status \in [Tasks -> Statuses]
      /\ curr \in [Workers -> Tasks \cup {NoTask}]
      /\ arg' = arg /\ queue' = queue /\ status' = status
      /\ curr' = [curr EXCEPT ![w] = NoTask]
      /\ curr[w] # NoTask /\ status[curr[w]] = "finished"
      /\ \A v \in Workers \ {w} : SameStage(v)
  BY DEF CountTask, Goto, Typed, TypeOK, Placement, OneOwner, InWorker, SameStage
<1>2. InPut' /\ InQueue'
  BY <1>1 DEF OneOwner, InPut, InQueue
<1>3. InWorker'
  BY <1>1, PoolAssumption DEF OneOwner, InWorker, SameStage
<1>. QED BY <1>2, <1>3 DEF OneOwner

(* A task that is discarded leaves the queue.                              *)
LEMMA OwnerDiscard ==
  ASSUME Typed, OneOwner, NEW c \in Clients, DiscardTask(c)
  PROVE  OneOwner'
<1>. DEFINE h == Head(queue)
<1>1. InQueue' /\ h \in Tasks /\ status[h] = "queued"
  BY HeadLeaves DEF DiscardTask, Statuses
<1>2. /\ curr' = curr /\ curr \in [Workers -> Tasks \cup {NoTask}]
      /\ status' = [status EXCEPT ![h] = "discarded"] /\ status \in [Tasks -> Statuses]
      /\ arg' = arg /\ pc' = pc
  BY DEF DiscardTask, Typed, TypeOK
<1>. HIDE DEF h
<1>3. InPut'
  BY <1>1, <1>2, PoolAssumption DEF OneOwner, InPut
<1>4. InWorker'
  BY <1>1, <1>2, PoolAssumption DEF OneOwner, InWorker
<1>. QED BY <1>1, <1>3, <1>4 DEF OneOwner

(* Every step keeps the owners apart.                                      *)
LEMMA OwnerStep == Typed /\ OneOwner /\ [Next]_vars => OneOwner'
<1>. SUFFICES ASSUME Typed, OneOwner, [Next]_vars
              PROVE  OneOwner'
  OBVIOUS
<1>1. /\ pc \in [Threads -> Labels] /\ Workers \subseteq Threads
      /\ Clients \subseteq Threads /\ Workers \cap Clients = {}
      /\ \A w \in Workers :
           curr[w] # NoTask <=> pc[w] \in {"run", "free", "count"} \cup PutLabels
  BY PoolAssumption DEF Typed, TypeOK, Placement, Labels, Threads
<1>2. ASSUME NEW w \in Workers,
             WorkerSleep(w) \/ WorkerExit(w) \/ Notify(w)
      PROVE  OneOwner'
  BY <1>1, <1>2, OwnerQuiet
     DEF WorkerSleep, WorkerExit, Notify, Broadcast, Goto, SameStage
<1>3. ASSUME NEW c \in Clients,
             \/ ClientWait(c) \/ ClientDestroy(c) \/ WaitSleep(c)
             \/ WaitReturns(c) \/ DestroyRefused(c) \/ DestroyBegins(c)
             \/ WorkersJoined(c) \/ CleanUp(c)
      PROVE  OneOwner'
  <2>1. UNCHANGED <<arg, queue, curr, status>>
    BY <1>3, CleanUpMoves
       DEF ClientWait, ClientDestroy, WaitSleep, WaitReturns, DestroyRefused,
           DestroyBegins, WorkersJoined
  <2>2. \A w \in Workers : SameStage(w)
    BY <1>1, <1>3, CleanUpMoves
       DEF ClientWait, ClientDestroy, WaitSleep, WaitReturns, DestroyRefused,
           DestroyBegins, WorkersJoined, Broadcast, Goto, SameStage
  <2>. QED BY <2>1, <2>2, OwnerQuiet
<1>4. ASSUME NEW p \in Threads, PutSleep(p) \/ SpuriousWakeup(p)
      PROVE  OneOwner'
  BY <1>1, <1>4, OwnerQuiet DEF PutSleep, PastCheck, SpuriousWakeup, Awake, Goto, SameStage
<1>5. ASSUME NEW w \in Workers, TaskPut(w)
      PROVE  OneOwner'
  <2>1. curr[w] \in Tasks /\ pc[w] = "run"
    BY <1>1, <1>5 DEF TaskPut, Typed, TypeOK
  <2>2. PICK t \in Tasks : BeginPut(w, t)
    BY <1>5, <2>1, PoolAssumption DEF TaskPut
  <2>. QED BY <1>1, <2>1, <2>2, OwnerBegin
<1>6. ASSUME NEW c \in Clients, ClientPut(c)
      PROVE  OneOwner'
  BY <1>1, <1>6, OwnerBegin DEF ClientPut, MayCall, Roots
<1>7. ASSUME UNCHANGED vars
      PROVE  OneOwner'
  BY <1>7, OwnerQuiet DEF vars, SameStage
<1>. QED
  BY <1>2, <1>3, <1>4, <1>5, <1>6, <1>7, Steps, OwnerTake, OwnerRefuse,
     OwnerAccept, OwnerRun, OwnerCount, OwnerDiscard

(* Nobody owns a task at first.                                            *)
LEMMA OwnerInit == Init => OneOwner
BY PoolAssumption DEF Init, OneOwner, InPut, InQueue, InWorker

(* For every value of the constants: no task is run twice, lost, or freed  *)
(* while a put, the queue or another worker still points to it.            *)
THEOREM Ownership == Spec => []OneOwner
BY AlwaysTyped, OwnerInit, OwnerStep, PTL DEF Spec

-----------------------------------------------------------------------------
(***************************************************************************)
(* 3. yatpool_wait: the counters it compares are right, it returns only at *)
(* the end of a batch, and it is not forgotten asleep.                     *)
(***************************************************************************)

(* What the number of uncounted tasks is made of.                          *)
LEMMA UncountedType ==
  Typed => /\ IsFiniteSet(Busy) /\ Cardinality(Busy) \in Nat
           /\ Len(queue) \in Nat /\ Uncounted = Len(queue) + Cardinality(Busy)
<1>. SUFFICES ASSUME Typed
              PROVE  /\ IsFiniteSet(Busy) /\ Cardinality(Busy) \in Nat
                     /\ Len(queue) \in Nat
                     /\ Uncounted = Len(queue) + Cardinality(Busy)
  OBVIOUS
<1>1. IsFiniteSet(Busy)
  BY FS_Subset, PoolAssumption DEF Busy
<1>. QED BY <1>1, FS_CardinalityType, LenProperties DEF Typed, TypeOK, Uncounted

(* A task once discarded is nobody's, so it stays discarded.               *)
LEMMA DiscardedStays ==
  ASSUME Typed, OneOwner, [Next]_vars, NEW t \in Tasks, status[t] = "discarded"
  PROVE  status'[t] = "discarded"
<1>1. /\ status \in [Tasks -> Statuses]
      /\ \A p \in Threads : arg[p] # NoTask => arg[p] # t
      /\ \A w \in Workers : curr[w] # NoTask => curr[w] # t
      /\ \A i \in DOMAIN queue : queue[i] # t
  BY DEF Typed, TypeOK, OneOwner, InPut, InQueue, InWorker
<1>2. queue # <<>> => Head(queue) # t
  BY <1>1, LenProperties, EmptySeq DEF Typed, TypeOK
<1>3. CASE status' = status
  BY <1>3
<1>4. ASSUME NEW w \in Workers, WorkerTake(w) \/ TaskReturns(w) \/ FreeTask(w)
      PROVE  status'[t] = "discarded"
  <2>1. pc[w] \in {"run", "free"} => curr[w] # t
    BY <1>1 DEF Typed, Placement
  <2>. QED BY <1>1, <1>2, <1>4, <2>1 DEF WorkerTake, TaskReturns, FreeTask
<1>5. ASSUME NEW p \in Threads, NEW u \in Tasks, BeginPut(p, u)
      PROVE  status'[t] = "discarded"
  BY <1>1, <1>5 DEF BeginPut
<1>6. ASSUME NEW p \in Threads, PutRefused(p) \/ PutAccepted(p)
      PROVE  status'[t] = "discarded"
  <2>1. arg[p] # t
    BY <1>1, <1>6 DEF Typed, Placement, PutRefused, PutAccepted, PastCheck, PutLabels
  <2>. QED BY <1>1, <1>6, <2>1 DEF PutRefused, PutAccepted
<1>7. ASSUME NEW c \in Clients, DiscardTask(c)
      PROVE  status'[t] = "discarded"
  BY <1>1, <1>2, <1>7 DEF DiscardTask
<1>8. ASSUME NEW w \in Workers, TaskPut(w)
      PROVE  \E p \in Threads, u \in Tasks : BeginPut(p, u)
  <2>1. curr[w] \in Tasks
    BY <1>8 DEF TaskPut, Typed, TypeOK, Placement
  <2>. QED BY <1>8, <2>1, PoolAssumption DEF TaskPut, Threads
<1>9. ASSUME NEW c \in Clients, ClientPut(c)
      PROVE  \E p \in Threads, u \in Tasks : BeginPut(p, u)
  BY <1>9 DEF ClientPut, Roots, Threads
<1>10. ASSUME NEW w \in Workers,
              WorkerSleep(w) \/ WorkerExit(w) \/ CountTask(w) \/ Notify(w)
       PROVE  status' = status
  BY <1>10 DEF WorkerSleep, WorkerExit, CountTask, Notify
<1>11. ASSUME NEW c \in Clients,
              \/ ClientWait(c) \/ ClientDestroy(c) \/ WaitSleep(c)
              \/ WaitReturns(c) \/ DestroyRefused(c) \/ DestroyBegins(c)
              \/ WorkersJoined(c) \/ CleanUp(c)
       PROVE  status' = status
  BY <1>11, CleanUpMoves
     DEF ClientWait, ClientDestroy, WaitSleep, WaitReturns, DestroyRefused,
         DestroyBegins, WorkersJoined
<1>12. ASSUME NEW p \in Threads, PutSleep(p) \/ SpuriousWakeup(p)
       PROVE  status' = status
  BY <1>12 DEF PutSleep, SpuriousWakeup
<1>. QED
  BY <1>3, <1>4, <1>5, <1>6, <1>7, <1>8, <1>9, <1>10, <1>11, <1>12, Steps DEF vars

-----------------------------------------------------------------------------

(* Every step keeps the counters apart by the uncounted tasks.             *)
LEMMA AccountingStep ==
  Typed /\ Typed' /\ OneOwner /\ Accounting /\ [Next]_vars => Accounting'
<1>. SUFFICES ASSUME Typed, Typed', OneOwner, Accounting, [Next]_vars
              PROVE  Accounting'
  OBVIOUS
<1>. DEFINE lost == \E t \in Tasks : status[t] = "discarded"
<1>1. lost => lost'
  BY DiscardedStays
<1>2. /\ IsFiniteSet(Busy) /\ Cardinality(Busy) \in Nat
      /\ Len(queue) \in Nat /\ Uncounted = Len(queue) + Cardinality(Busy)
      /\ tasks_completed \in Nat /\ tasks_submitted \in Nat
  BY UncountedType DEF Typed, TypeOK
<1>3. /\ Uncounted' = Len(queue') + Cardinality(Busy')
      /\ tasks_submitted >= tasks_completed + Uncounted
      /\ tasks_submitted = tasks_completed + Uncounted \/ lost
  BY DEF Uncounted, Accounting
<1>4. SUFFICES /\ tasks_submitted' >= tasks_completed' + Uncounted'
               /\ tasks_submitted' = tasks_completed' + Uncounted' \/ lost'
  BY DEF Accounting
<1>. HIDE DEF lost
<1>5. ASSUME UNCHANGED <<queue, curr, counters>>
      PROVE  /\ tasks_submitted' >= tasks_completed' + Uncounted'
             /\ tasks_submitted' = tasks_completed' + Uncounted' \/ lost'
  BY <1>1, <1>3, <1>5 DEF Uncounted, Busy, counters
<1>6. ASSUME NEW w \in Workers, WorkerTake(w)
      PROVE  /\ tasks_submitted' >= tasks_completed' + Uncounted'
             /\ tasks_submitted' = tasks_completed' + Uncounted' \/ lost'
  <2>1. Head(queue) \in Tasks /\ Len(queue') = Len(queue) - 1
    BY <1>6, HeadTailProperties DEF WorkerTake, Typed, TypeOK
  <2>2. w \notin Busy /\ Busy' = Busy \cup {w}
    BY <1>6, <2>1, PoolAssumption
       DEF WorkerTake, Busy, Typed, TypeOK, Placement, PutLabels
  <2>3. Cardinality(Busy') = Cardinality(Busy) + 1
    BY <1>2, <2>2, FS_AddElement
  <2>. QED BY <1>1, <1>2, <1>3, <1>6, <2>1, <2>3 DEF WorkerTake, counters
<1>7. ASSUME NEW w \in Workers, CountTask(w)
      PROVE  /\ tasks_submitted' >= tasks_completed' + Uncounted'
             /\ tasks_submitted' = tasks_completed' + Uncounted' \/ lost'
  <2>1. w \in Busy /\ Busy' = Busy \ {w}
    BY <1>7 DEF CountTask, Busy, Typed, TypeOK, Placement
  <2>2. Cardinality(Busy') = Cardinality(Busy) - 1
    BY <1>2, <2>1, FS_RemoveElement
  <2>. QED BY <1>1, <1>2, <1>3, <1>7, <2>2 DEF CountTask
<1>8. ASSUME NEW p \in Threads, PutAccepted(p)
      PROVE  /\ tasks_submitted' >= tasks_completed' + Uncounted'
             /\ tasks_submitted' = tasks_completed' + Uncounted' \/ lost'
  <2>1. arg[p] \in Tasks
    BY <1>8 DEF PutAccepted, PastCheck, Typed, TypeOK, Placement, PutLabels
  <2>2. Len(queue') = Len(queue) + 1
    BY <1>8, <2>1, AppendProperties DEF PutAccepted, Typed, TypeOK
  <2>3. Busy' = Busy
    BY <1>8 DEF PutAccepted, Busy
  <2>4. Uncounted' = Uncounted + 1
    BY <1>2, <1>3, <2>2, <2>3
  <2>5. tasks_submitted' = tasks_submitted + 1 /\ tasks_completed' = tasks_completed
    BY <1>8 DEF PutAccepted
  <2>. QED BY <1>1, <1>2, <1>3, <2>4, <2>5
<1>9. ASSUME NEW c \in Clients, WaitReturns(c)
      PROVE  /\ tasks_submitted' >= tasks_completed' + Uncounted'
             /\ tasks_submitted' = tasks_completed' + Uncounted' \/ lost'
  <2>1. Uncounted = 0
    BY <1>2, <1>3, <1>9 DEF WaitReturns, BatchDone
  <2>2. Uncounted' = Uncounted
    BY <1>9 DEF WaitReturns, Uncounted, Busy
  <2>. QED BY <1>9, <2>1, <2>2 DEF WaitReturns
<1>10. ASSUME NEW c \in Clients, DiscardTask(c)
       PROVE  /\ tasks_submitted' >= tasks_completed' + Uncounted'
              /\ tasks_submitted' = tasks_completed' + Uncounted' \/ lost'
  <2>1. Head(queue) \in Tasks /\ Len(queue') = Len(queue) - 1
    BY <1>10, HeadTailProperties DEF DiscardTask, Typed, TypeOK
  <2>2. Busy' = Busy
    BY <1>10 DEF DiscardTask, Busy
  <2>3. lost'
    BY <1>10, <2>1 DEF DiscardTask, lost, Typed, TypeOK
  <2>. QED BY <1>2, <1>3, <1>10, <2>1, <2>2, <2>3 DEF DiscardTask, counters
<1>11. ASSUME NEW w \in Workers,
              \/ WorkerSleep(w) \/ WorkerExit(w) \/ TaskPut(w)
              \/ TaskReturns(w) \/ FreeTask(w) \/ Notify(w)
       PROVE  UNCHANGED <<queue, curr, counters>>
  BY <1>11 DEF WorkerSleep, WorkerExit, TaskPut, BeginPut, TaskReturns, FreeTask, Notify
<1>12. ASSUME NEW c \in Clients,
              \/ ClientPut(c) \/ ClientWait(c) \/ ClientDestroy(c) \/ WaitSleep(c)
              \/ DestroyRefused(c) \/ DestroyBegins(c)
              \/ WorkersJoined(c) \/ CleanUp(c)
       PROVE  UNCHANGED <<queue, curr, counters>>
  BY <1>12, CleanUpMoves
     DEF ClientPut, BeginPut, ClientWait, ClientDestroy, WaitSleep,
         DestroyRefused, DestroyBegins, WorkersJoined
<1>13. ASSUME NEW p \in Threads, PutRefused(p) \/ PutSleep(p) \/ SpuriousWakeup(p)
       PROVE  UNCHANGED <<queue, curr, counters>>
  BY <1>13 DEF PutRefused, PutSleep, SpuriousWakeup
<1>. QED
  BY <1>5, <1>6, <1>7, <1>8, <1>9, <1>10, <1>11, <1>12, <1>13, Steps DEF vars

(* Nothing has been submitted, counted or queued at first.                 *)
LEMMA AccountingInit == Init => Accounting
BY FS_EmptySet DEF Init, Accounting, Uncounted, Busy

(* For every value of the constants: tasks_submitted and tasks_completed   *)
(* differ by the tasks that are queued or held by a worker, through every  *)
(* reset that yatpool_wait makes.                                          *)
THEOREM CountersAgree == Spec => []Accounting
BY AlwaysTyped, Ownership, AccountingInit, AccountingStep, PTL DEF Spec
-----------------------------------------------------------------------------

(* A client leaves yatpool_wait by its last stretch of code only.          *)
LEMMA OnlyWaitReturns ==
  ASSUME Typed, [Next]_vars, NEW c \in Clients, pc[c] = "wait", pc'[c] = "idle"
  PROVE  WaitReturns(c)
<1>1. /\ pc \in [Threads -> Labels] /\ c \in Threads /\ c \notin Workers
      /\ Workers \subseteq Threads /\ Clients \subseteq Threads
  BY PoolAssumption DEF Typed, TypeOK, Labels, Threads
<1>2. ASSUME NEW w \in Workers,
             \/ WorkerSleep(w) \/ WorkerExit(w) \/ TaskPut(w)
             \/ TaskReturns(w) \/ FreeTask(w) \/ CountTask(w) \/ Notify(w)
      PROVE  FALSE
  BY <1>1, <1>2 DEF WorkerSleep, WorkerExit, TaskPut, BeginPut, TaskReturns, FreeTask,
                    CountTask, Notify, Broadcast, Goto
<1>3. ASSUME NEW w \in Workers, WorkerTake(w)
      PROVE  FALSE
  BY <1>1, <1>3, TakeWakes DEF Typed
<1>4. ASSUME NEW d \in Clients,
             \/ ClientPut(d) \/ ClientWait(d) \/ ClientDestroy(d) \/ WaitSleep(d)
             \/ DestroyRefused(d) \/ DestroyBegins(d)
             \/ WorkersJoined(d) \/ DiscardTask(d) \/ CleanUp(d)
      PROVE  FALSE
  BY <1>1, <1>4, CleanUpMoves
     DEF ClientPut, BeginPut, MayCall, ClientWait, ClientDestroy, WaitSleep,
         DestroyRefused, DestroyBegins, WorkersJoined, DiscardTask, CleanUpLabels,
         Broadcast, Goto
<1>5. ASSUME NEW p \in Threads, PutRefused(p) \/ PutSleep(p) \/ SpuriousWakeup(p)
      PROVE  FALSE
  BY <1>1, <1>5 DEF PutRefused, PutSleep, PastCheck, SpuriousWakeup, Awake, AfterPut, Goto
<1>6. ASSUME NEW p \in Threads, PutAccepted(p)
      PROVE  FALSE
  <2>1. pc[p] \in {"put", "put_woken"} /\ p # c
    BY <1>6 DEF PutAccepted, PastCheck
  <2>. QED BY <1>1, <1>6, <2>1, PutWakes DEF Typed
<1>7. ASSUME NEW d \in Clients, WaitReturns(d)
      PROVE  d = c
  BY <1>1, <1>7 DEF WaitReturns, Goto
<1>8. ASSUME UNCHANGED vars
      PROVE  FALSE
  BY <1>8 DEF vars
<1>. QED BY <1>2, <1>3, <1>4, <1>5, <1>6, <1>7, <1>8, Steps

(* For every value of the constants: whenever yatpool_wait returns, no     *)
(* accepted task is queued or running, whoever submitted it.               *)
THEOREM WaitEndsBatch == Spec => WaitIsBarrier
<1>1. Typed /\ OneOwner /\ Accounting /\ [Next]_vars =>
        [\A c \in Clients : pc[c] = "wait" /\ pc'[c] = "idle" =>
           \A t \in Tasks : status[t] \notin {"queued", "running", "executed"}]_vars
  <2>. SUFFICES ASSUME Typed, OneOwner, Accounting, [Next]_vars,
                       NEW c \in Clients, pc[c] = "wait", pc'[c] = "idle"
                PROVE  \A t \in Tasks : status[t] \notin {"queued", "running", "executed"}
    OBVIOUS
  <2>1. tasks_completed >= tasks_submitted
    BY OnlyWaitReturns DEF WaitReturns, BatchDone
  <2>2. /\ IsFiniteSet(Busy) /\ Cardinality(Busy) \in Nat
        /\ Len(queue) \in Nat /\ Uncounted = Len(queue) + Cardinality(Busy)
        /\ tasks_completed \in Nat /\ tasks_submitted \in Nat
    BY UncountedType DEF Typed, TypeOK
  <2>3. Len(queue) = 0 /\ Cardinality(Busy) = 0
    BY <2>1, <2>2 DEF Accounting
  <2>4. DOMAIN queue = {} /\ Busy = {}
    BY <2>2, <2>3, FS_EmptySet, LenProperties DEF Typed, TypeOK
  <2>. QED BY <2>4, PoolAssumption DEF OneOwner, InQueue, InWorker, Busy
<1>. QED
  BY <1>1, AlwaysTyped, Ownership, CountersAgree, PTL DEF Spec, WaitIsBarrier

-----------------------------------------------------------------------------

(* Every step leaves a worker about to broadcast, or the batch unfinished, *)
(* while a yatpool_wait sleeps.                                            *)
LEMMA WaiterStep == Typed /\ NoWaiterForgotten /\ [Next]_vars => NoWaiterForgotten'
<1>. SUFFICES ASSUME Typed, NoWaiterForgotten, [Next]_vars
              PROVE  NoWaiterForgotten'
  OBVIOUS
<1>1. /\ pc \in [Threads -> Labels]
      /\ Workers \subseteq Threads /\ Clients \subseteq Threads
      /\ tasks_completed \in Nat /\ tasks_submitted \in Nat
  BY DEF Typed, TypeOK, Labels, Threads
<1>2. ASSUME /\ \A t \in Threads : pc'[t] = "asleep_batch" => pc[t] = "asleep_batch"
             /\ \A t \in Threads : pc[t] = "notify" => pc'[t] = "notify",
             ~BatchDone => ~BatchDone' \/ At("notify")' # {}
      PROVE  NoWaiterForgotten'
  BY <1>2 DEF NoWaiterForgotten, At
<1>3. ASSUME NEW w \in Workers, Notify(w)
      PROVE  NoWaiterForgotten'
  <2>1. \A t \in Threads : pc'[t] # "asleep_batch"
    BY <1>1, <1>3 DEF Notify, Broadcast
  <2>. QED BY <2>1 DEF NoWaiterForgotten, At
<1>4. ASSUME NEW c \in Clients, WaitSleep(c)
      PROVE  NoWaiterForgotten'
  BY <1>1, <1>4 DEF WaitSleep, BatchDone, counters, NoWaiterForgotten
<1>5. ASSUME NEW w \in Workers, CountTask(w)
      PROVE  NoWaiterForgotten'
  <2>1. LastOfBatch => pc'[w] = "notify"
    BY <1>1, <1>5 DEF CountTask, Goto, Typed, TypeOK
  <2>2. ~LastOfBatch => ~BatchDone'
    BY <1>1, <1>5 DEF CountTask, LastOfBatch, BatchDone
  <2>3. \A t \in Threads : t # w => pc'[t] = pc[t]
    BY <1>1, <1>5 DEF CountTask, Goto
  <2>4. pc[w] = "count" /\ pc'[w] # "asleep_batch"
    BY <1>1, <1>5 DEF CountTask, Goto
  <2>. QED BY <1>1, <1>2, <2>1, <2>2, <2>3, <2>4 DEF At
<1>6. ASSUME NEW c \in Clients, WaitReturns(c)
      PROVE  NoWaiterForgotten'
  <2>1. BatchDone
    BY <1>6 DEF WaitReturns
  <2>. QED BY <1>1, <1>2, <1>6, <2>1 DEF WaitReturns, Goto
<1>7. ASSUME NEW p \in Threads, PutAccepted(p)
      PROVE  NoWaiterForgotten'
  <2>1. pc[p] \in {"put", "put_woken"} /\ AfterPut(p) \in {"run", "idle"}
    BY <1>7 DEF PutAccepted, PastCheck, AfterPut
  <2>2. ~BatchDone => ~BatchDone'
    BY <1>1, <1>7 DEF PutAccepted, BatchDone
  <2>3. /\ \A t \in Threads : pc'[t] = "asleep_batch" => pc[t] = "asleep_batch"
        /\ \A t \in Threads : pc[t] = "notify" => pc'[t] = "notify"
    BY <1>1, <1>7, <2>1, PutWakes DEF Typed
  <2>. QED BY <1>2, <2>2, <2>3
<1>8. ASSUME NEW w \in Workers, WorkerTake(w)
      PROVE  NoWaiterForgotten'
  <2>1. pc[w] = "loop" /\ UNCHANGED counters
    BY <1>8 DEF WorkerTake
  <2>2. /\ \A t \in Threads : pc'[t] = "asleep_batch" => pc[t] = "asleep_batch"
        /\ \A t \in Threads : pc[t] = "notify" => pc'[t] = "notify"
    BY <1>1, <1>8, <2>1, TakeWakes DEF Typed
  <2>. QED BY <1>2, <2>1, <2>2 DEF BatchDone, counters
<1>9. ASSUME NEW w \in Workers,
             \/ WorkerSleep(w) \/ WorkerExit(w) \/ TaskPut(w)
             \/ TaskReturns(w) \/ FreeTask(w)
      PROVE  NoWaiterForgotten'
  BY <1>1, <1>2, <1>9
     DEF WorkerSleep, WorkerExit, TaskPut, BeginPut, TaskReturns, FreeTask, Goto,
         BatchDone, counters
<1>10. ASSUME NEW c \in Clients,
              \/ ClientPut(c) \/ ClientWait(c) \/ ClientDestroy(c)
              \/ DestroyRefused(c) \/ DestroyBegins(c)
              \/ WorkersJoined(c) \/ DiscardTask(c) \/ CleanUp(c)
       PROVE  NoWaiterForgotten'
  BY <1>1, <1>2, <1>10, CleanUpMoves
     DEF ClientPut, BeginPut, MayCall, ClientWait, ClientDestroy, DestroyRefused,
         DestroyBegins, WorkersJoined, DiscardTask, CleanUpLabels, Broadcast, Goto,
         BatchDone, counters
<1>11. ASSUME NEW p \in Threads, PutRefused(p) \/ PutSleep(p) \/ SpuriousWakeup(p)
       PROVE  NoWaiterForgotten'
  BY <1>1, <1>2, <1>11
     DEF PutRefused, PutSleep, PastCheck, SpuriousWakeup, Awake, AfterPut, Goto,
         BatchDone, counters
<1>12. CASE UNCHANGED vars
  BY <1>2, <1>12 DEF vars, BatchDone, counters
<1>. QED
  BY <1>3, <1>4, <1>5, <1>6, <1>7, <1>8, <1>9, <1>10, <1>11, <1>12, Steps

(* For every value of the constants: a sleeping yatpool_wait whose batch   *)
(* is done has a worker that is about to wake it, although the broadcast   *)
(* is made outside the mutex.                                              *)
THEOREM WaitersWake == Spec => []NoWaiterForgotten
<1>1. Init => NoWaiterForgotten
  BY DEF Init, NoWaiterForgotten, At
<1>. QED BY <1>1, AlwaysTyped, WaiterStep, PTL DEF Spec

-----------------------------------------------------------------------------
(***************************************************************************)
(* 4. No wake-up is lost on cond_queue and cond_slot_available: one signal *)
(* per put and one per pop are enough.                                     *)
(***************************************************************************)

(* Sets of threads are finite.                                             *)
LEMMA ThreadSets ==
  ASSUME NEW S \in SUBSET Threads
  PROVE  IsFiniteSet(S) /\ Cardinality(S) \in Nat
<1>1. IsFiniteSet(Threads)
  BY PoolAssumption, FS_Union DEF Threads
<1>. QED BY <1>1, FS_Subset, FS_CardinalityType

(* More threads at a label are counted as more.                            *)
LEMMA MoreThreads ==
  ASSUME NEW S \in SUBSET Threads, NEW T \in SUBSET S
  PROVE  Cardinality(T) <= Cardinality(S)
BY ThreadSets, FS_Subset

-----------------------------------------------------------------------------
(* cond_queue.                                                             *)

(* A step that puts no worker to sleep, takes none off its way to the      *)
(* queue and queues nothing.                                               *)
LEMMA TaskQuiet ==
  ASSUME Typed, Typed', NoTaskWithoutWorker,
         \A t \in Threads : pc'[t] = "asleep_queue" => pc[t] = "asleep_queue",
         \A t \in Threads : pc[t] = "loop" => pc'[t] = "loop",
         queue' = queue, all_done' = all_done
  PROVE  NoTaskWithoutWorker'
<1>1. At("loop") \subseteq At("loop")' /\ At("loop")' \in SUBSET Threads
  BY DEF At
<1>2. Cardinality(At("loop")) <= Cardinality(At("loop")')
  BY <1>1, MoreThreads
<1>3. Cardinality(At("loop")) \in Nat /\ Cardinality(At("loop")') \in Nat
  BY <1>1, ThreadSets
<1>4. At("asleep_queue")' # {} => At("asleep_queue") # {}
  BY DEF At
<1>. QED
  BY <1>2, <1>3, <1>4, LenProperties DEF NoTaskWithoutWorker, Typed, TypeOK

(* A worker that takes a task is one of those on their way, and takes one. *)
LEMMA TaskTaken ==
  ASSUME Typed, NoTaskWithoutWorker, NEW w \in Workers, WorkerTake(w)
  PROVE  NoTaskWithoutWorker'
<1>1. /\ pc \in [Threads -> Labels] /\ w \in Threads
      /\ pc[w] = "loop" /\ queue # <<>> /\ queue' = Tail(queue) /\ all_done' = all_done
  BY DEF WorkerTake, Typed, TypeOK, Labels, Threads
<1>2. /\ \A t \in Threads : pc'[t] = "asleep_queue" => pc[t] = "asleep_queue"
      /\ \A t \in Threads : pc'[t] = "loop" <=> pc[t] = "loop" /\ t # w
  BY <1>1, TakeWakes DEF Typed
<1>3. At("loop")' = At("loop") \ {w} /\ w \in At("loop") /\ IsFiniteSet(At("loop"))
  BY <1>1, <1>2, ThreadSets DEF At
<1>4. /\ Cardinality(At("loop")') = Cardinality(At("loop")) - 1
      /\ Cardinality(At("loop")) \in Nat
  BY <1>3, FS_RemoveElement, FS_CardinalityType
<1>5. Len(queue') = Len(queue) - 1 /\ Len(queue) \in Nat
  BY <1>1, HeadTailProperties, LenProperties DEF Typed, TypeOK
<1>6. At("asleep_queue")' # {} => At("asleep_queue") # {}
  BY <1>2 DEF At
<1>. QED BY <1>1, <1>4, <1>5, <1>6 DEF NoTaskWithoutWorker

(* A put that finds a worker asleep sends one on its way.                  *)
LEMMA TaskAdded ==
  ASSUME Typed, NoTaskWithoutWorker, NEW p \in Threads, PutAccepted(p)
  PROVE  NoTaskWithoutWorker'
<1>1. /\ pc \in [Threads -> Labels] /\ arg[p] \in Tasks
      /\ pc[p] \in {"put", "put_woken"} /\ AfterPut(p) \in {"run", "idle"}
      /\ queue' = Append(queue, arg[p]) /\ all_done' = all_done
  BY DEF PutAccepted, PastCheck, AfterPut, Typed, TypeOK, Placement, PutLabels, Labels
<1>2. Len(queue') = Len(queue) + 1 /\ Len(queue) \in Nat
  BY <1>1, AppendProperties, LenProperties DEF Typed, TypeOK
<1>3. CASE /\ \A t \in Threads : pc[t] # "asleep_queue"
           /\ pc' = [pc EXCEPT ![p] = AfterPut(p)]
  <2>1. \A t \in Threads : pc'[t] # "asleep_queue"
    BY <1>1, <1>3
  <2>. QED BY <2>1 DEF NoTaskWithoutWorker, At
<1>4. ASSUME NEW u \in Threads, u # p, pc[u] = "asleep_queue",
             pc' = [pc EXCEPT ![p] = AfterPut(p), ![u] = "loop"]
      PROVE  NoTaskWithoutWorker'
  <2>1. /\ At("loop")' = At("loop") \cup {u} /\ u \notin At("loop")
        /\ IsFiniteSet(At("loop"))
    BY <1>1, <1>4, ThreadSets DEF At
  <2>2. /\ Cardinality(At("loop")') = Cardinality(At("loop")) + 1
        /\ Cardinality(At("loop")) \in Nat
    BY <2>1, FS_AddElement, FS_CardinalityType
  <2>3. At("asleep_queue") # {}
    BY <1>4 DEF At
  <2>. QED BY <1>1, <1>2, <2>2, <2>3 DEF NoTaskWithoutWorker
<1>. QED BY <1>3, <1>4, PutWakes DEF Typed

(* Every step keeps a worker for each queued task while others sleep.      *)
LEMMA TaskStep ==
  Typed /\ Typed' /\ NoTaskWithoutWorker /\ [Next]_vars => NoTaskWithoutWorker'
<1>. SUFFICES ASSUME Typed, Typed', NoTaskWithoutWorker, [Next]_vars
              PROVE  NoTaskWithoutWorker'
  OBVIOUS
<1>1. /\ pc \in [Threads -> Labels]
      /\ Workers \subseteq Threads /\ Clients \subseteq Threads
  BY DEF Typed, TypeOK, Labels, Threads
<1>2. ASSUME NEW w \in Workers, WorkerSleep(w)
      PROVE  NoTaskWithoutWorker'
  <2>1. Len(queue') = 0 /\ ~all_done'
    BY <1>2 DEF WorkerSleep
  <2>2. Cardinality(At("loop")') \in Nat
    BY ThreadSets DEF At
  <2>. QED BY <2>1, <2>2 DEF NoTaskWithoutWorker
<1>3. ASSUME NEW w \in Workers, WorkerExit(w)
      PROVE  NoTaskWithoutWorker'
  <2>1. \A t \in Threads : pc[t] # "asleep_queue"
    BY <1>3 DEF WorkerExit, MayExit, NoTaskWithoutWorker, At
  <2>2. \A t \in Threads : pc'[t] # "asleep_queue"
    BY <1>1, <1>3, <2>1 DEF WorkerExit, Goto
  <2>. QED BY <2>2 DEF NoTaskWithoutWorker, At
<1>4. ASSUME NEW c \in Clients, DestroyBegins(c)
      PROVE  NoTaskWithoutWorker'
  <2>1. \A t \in Threads : pc'[t] # "asleep_queue"
    BY <1>1, <1>4 DEF DestroyBegins, Broadcast
  <2>. QED BY <2>1 DEF NoTaskWithoutWorker, At
<1>5. ASSUME NEW c \in Clients, DiscardTask(c)
      PROVE  NoTaskWithoutWorker'
  <2>1. Len(queue') = Len(queue) - 1 /\ Len(queue) \in Nat
    BY <1>5, HeadTailProperties, LenProperties DEF DiscardTask, Typed, TypeOK
  <2>2. UNCHANGED <<pc, all_done>>
    BY <1>5 DEF DiscardTask
  <2>3. Cardinality(At("loop")) \in Nat
    BY ThreadSets DEF At
  <2>. QED BY <2>1, <2>2, <2>3 DEF NoTaskWithoutWorker, At
<1>6. ASSUME NEW w \in Workers,
             \/ TaskPut(w) \/ TaskReturns(w) \/ FreeTask(w)
             \/ CountTask(w) \/ Notify(w)
      PROVE  NoTaskWithoutWorker'
  BY <1>1, <1>6, TaskQuiet
     DEF TaskPut, BeginPut, TaskReturns, FreeTask, CountTask, Notify, Broadcast, Goto
<1>7. ASSUME NEW c \in Clients,
             \/ ClientPut(c) \/ ClientWait(c) \/ ClientDestroy(c)
             \/ WaitSleep(c) \/ WaitReturns(c) \/ DestroyRefused(c)
             \/ WorkersJoined(c) \/ CleanUp(c)
      PROVE  NoTaskWithoutWorker'
  BY <1>1, <1>7, TaskQuiet, CleanUpMoves
     DEF ClientPut, BeginPut, MayCall, ClientWait, ClientDestroy, WaitSleep,
         WaitReturns, DestroyRefused, WorkersJoined, CleanUpLabels, Goto
<1>8. ASSUME NEW p \in Threads, PutRefused(p) \/ PutSleep(p) \/ SpuriousWakeup(p)
      PROVE  NoTaskWithoutWorker'
  BY <1>1, <1>8, TaskQuiet
     DEF PutRefused, PutSleep, PastCheck, SpuriousWakeup, Awake, AfterPut, Goto
<1>9. CASE UNCHANGED vars
  BY <1>9, TaskQuiet DEF vars
<1>. QED
  BY <1>2, <1>3, <1>4, <1>5, <1>6, <1>7, <1>8, <1>9, Steps, TaskTaken, TaskAdded

(* For every value of the constants: while a worker sleeps, each queued    *)
(* task has a worker on its way to the queue, and no worker sleeps once    *)
(* the pool is shutting down.                                              *)
THEOREM WorkersWake == Spec => []NoTaskWithoutWorker
<1>1. Init => NoTaskWithoutWorker
  BY DEF Init, NoTaskWithoutWorker, At
<1>. QED BY <1>1, AlwaysTyped, TaskStep, PTL DEF Spec
-----------------------------------------------------------------------------
(* cond_slot_available.                                                    *)

USE DEF CleanUpLabels

\* A client is past the join of yatpool_destroy.
CleaningUp == \E c \in Clients : pc[c] \in CleanUpLabels

(* A step that puts no caller to sleep, takes no woken one off its way and *)
(* frees no slot, unless it ends the shutdown.                             *)
LEMMA SlotQuiet ==
  ASSUME Typed, Typed', NoSlotWithoutPut,
         \A t \in Threads : pc'[t] = "asleep_slot" => pc[t] = "asleep_slot",
         \A t \in Threads : pc[t] = "put_woken" => pc'[t] = "put_woken",
         CleaningUp => CleaningUp', queue' = queue
  PROVE  NoSlotWithoutPut'
<1>1. At("put_woken") \subseteq At("put_woken")' /\ At("put_woken")' \in SUBSET Threads
  BY DEF At
<1>2. Cardinality(At("put_woken")) <= Cardinality(At("put_woken")')
  BY <1>1, MoreThreads
<1>3. Cardinality(At("put_woken")) \in Nat /\ Cardinality(At("put_woken")') \in Nat
  BY <1>1, ThreadSets
<1>4. At("asleep_slot")' # {} => At("asleep_slot") # {}
  BY DEF At
<1>. QED
  BY <1>2, <1>3, <1>4, LenProperties, PoolAssumption
     DEF NoSlotWithoutPut, CleaningUp, Typed, TypeOK

(* A worker that frees a slot while a put sleeps wakes one.                *)
LEMMA SlotFreed ==
  ASSUME Typed, NoSlotWithoutPut, NEW w \in Workers, WorkerTake(w)
  PROVE  NoSlotWithoutPut'
<1>1. /\ pc \in [Threads -> Labels] /\ w \in Threads
      /\ pc[w] = "loop" /\ queue # <<>> /\ queue' = Tail(queue)
  BY DEF WorkerTake, Typed, TypeOK, Labels, Threads
<1>2. Len(queue') = Len(queue) - 1 /\ Len(queue) \in Nat
  BY <1>1, HeadTailProperties, LenProperties DEF Typed, TypeOK
<1>3. CASE /\ \A t \in Threads : pc[t] # "asleep_slot"
           /\ pc' = [pc EXCEPT ![w] = "run"]
  <2>1. \A t \in Threads : pc'[t] # "asleep_slot"
    BY <1>1, <1>3
  <2>. QED BY <2>1 DEF NoSlotWithoutPut, At
<1>4. ASSUME NEW u \in Threads, u # w, pc[u] = "asleep_slot",
             pc' = [pc EXCEPT ![w] = "run", ![u] = "put_woken"]
      PROVE  NoSlotWithoutPut'
  <2>1. /\ At("put_woken")' = At("put_woken") \cup {u} /\ u \notin At("put_woken")
        /\ IsFiniteSet(At("put_woken"))
    BY <1>1, <1>4, ThreadSets DEF At
  <2>2. /\ Cardinality(At("put_woken")') = Cardinality(At("put_woken")) + 1
        /\ Cardinality(At("put_woken")) \in Nat
    BY <2>1, FS_AddElement, FS_CardinalityType
  <2>3. At("asleep_slot") # {} /\ (CleaningUp => CleaningUp')
    BY <1>1, <1>4 DEF At, CleaningUp, Threads
  <2>. QED
    BY <1>1, <1>2, <2>2, <2>3, PoolAssumption DEF NoSlotWithoutPut, CleaningUp
<1>. QED BY <1>3, <1>4, TakeWakes DEF Typed

(* A put that fills a slot is at most one of those on their way.           *)
LEMMA SlotFilled ==
  ASSUME Typed, NoSlotWithoutPut, NEW p \in Threads, PutAccepted(p)
  PROVE  NoSlotWithoutPut'
<1>1. /\ pc \in [Threads -> Labels] /\ arg[p] \in Tasks
      /\ pc[p] \in {"put", "put_woken"} /\ AfterPut(p) \in {"run", "idle"}
      /\ queue' = Append(queue, arg[p])
  BY DEF PutAccepted, PastCheck, AfterPut, Typed, TypeOK, Placement, PutLabels, Labels
<1>2. Len(queue') = Len(queue) + 1 /\ Len(queue) \in Nat
  BY <1>1, AppendProperties, LenProperties DEF Typed, TypeOK
<1>3. \A t \in Threads :
        /\ pc'[t] = "asleep_slot" => pc[t] = "asleep_slot"
        /\ pc[t] = "put_woken" /\ t # p => pc'[t] = "put_woken"
        /\ pc[t] \in CleanUpLabels => pc'[t] = pc[t]
  BY <1>1, PutWakes DEF Typed
<1>4. At("put_woken") \ {p} \subseteq At("put_woken")'
  BY <1>3 DEF At
<1>5. /\ Cardinality(At("put_woken") \ {p}) <= Cardinality(At("put_woken")')
      /\ Cardinality(At("put_woken")') \in Nat
  BY <1>4, MoreThreads, ThreadSets DEF At
<1>6. /\ Cardinality(At("put_woken") \ {p}) >= Cardinality(At("put_woken")) - 1
      /\ Cardinality(At("put_woken")) \in Nat
      /\ Cardinality(At("put_woken") \ {p}) \in Nat
  <2>1. IsFiniteSet(At("put_woken")) /\ Cardinality(At("put_woken")) \in Nat
    BY ThreadSets DEF At
  <2>2. Cardinality(At("put_woken") \ {p}) \in Nat
    BY ThreadSets DEF At
  <2>. QED BY <2>1, <2>2, FS_RemoveElement
<1>7. /\ At("asleep_slot")' # {} => At("asleep_slot") # {}
      /\ CleaningUp => CleaningUp'
  BY <1>3 DEF At, CleaningUp, Threads
<1>. QED
  BY <1>2, <1>5, <1>6, <1>7, PoolAssumption DEF NoSlotWithoutPut, CleaningUp

(* Every step keeps a woken put for each free slot while others sleep.     *)
LEMMA SlotStep ==
  Typed /\ Typed' /\ NoSlotWithoutPut /\ [Next]_vars => NoSlotWithoutPut'
<1>. SUFFICES ASSUME Typed, Typed', NoSlotWithoutPut, [Next]_vars
              PROVE  NoSlotWithoutPut'
  OBVIOUS
<1>1. /\ pc \in [Threads -> Labels]
      /\ Workers \subseteq Threads /\ Clients \subseteq Threads
  BY DEF Typed, TypeOK, Labels, Threads
<1>2. ASSUME NEW p \in Threads, PutSleep(p)
      PROVE  NoSlotWithoutPut'
  <2>1. QueueSize - Len(queue') = 0
    BY <1>2, PoolAssumption DEF PutSleep, QueueFull
  <2>2. Cardinality(At("put_woken")') \in Nat
    BY ThreadSets DEF At
  <2>. QED BY <2>1, <2>2 DEF NoSlotWithoutPut
<1>3. ASSUME NEW c \in Clients, DiscardTask(c) \/ CleanUp(c)
      PROVE  NoSlotWithoutPut'
  <2>1. pc'[c] \in CleanUpLabels
    BY <1>1, <1>3, CleanUpMoves DEF DiscardTask, CleanUpLabels
  <2>. QED BY <2>1 DEF NoSlotWithoutPut
<1>4. ASSUME NEW w \in Workers,
             \/ WorkerSleep(w) \/ WorkerExit(w) \/ TaskPut(w) \/ TaskReturns(w)
             \/ FreeTask(w) \/ CountTask(w) \/ Notify(w)
      PROVE  NoSlotWithoutPut'
  <2>1. \A t \in Threads :
          /\ pc'[t] = "asleep_slot" => pc[t] = "asleep_slot"
          /\ pc[t] = "put_woken" => pc'[t] = "put_woken"
          /\ pc[t] \in CleanUpLabels => pc'[t] = pc[t]
    BY <1>1, <1>4
       DEF WorkerSleep, WorkerExit, TaskPut, BeginPut, TaskReturns, FreeTask,
           CountTask, Notify, Broadcast, Goto
  <2>2. queue' = queue
    BY <1>4 DEF WorkerSleep, WorkerExit, TaskPut, BeginPut, TaskReturns, FreeTask,
                CountTask, Notify
  <2>3. CleaningUp => CleaningUp'
    BY <2>1 DEF CleaningUp, Threads
  <2>. QED BY <2>1, <2>2, <2>3, SlotQuiet
<1>5. ASSUME NEW c \in Clients,
             \/ ClientPut(c) \/ ClientWait(c) \/ ClientDestroy(c)
             \/ WaitSleep(c) \/ WaitReturns(c) \/ DestroyRefused(c)
             \/ DestroyBegins(c) \/ WorkersJoined(c)
      PROVE  NoSlotWithoutPut'
  <2>1. \A t \in Threads :
          /\ pc'[t] = "asleep_slot" => pc[t] = "asleep_slot"
          /\ pc[t] = "put_woken" => pc'[t] = "put_woken"
          /\ pc[t] \in CleanUpLabels => pc'[t] = pc[t]
    BY <1>1, <1>5
       DEF ClientPut, BeginPut, MayCall, ClientWait, ClientDestroy, WaitSleep,
           WaitReturns, DestroyRefused, DestroyBegins, WorkersJoined, Broadcast, Goto
  <2>2. queue' = queue
    BY <1>5 DEF ClientPut, BeginPut, ClientWait, ClientDestroy, WaitSleep,
                WaitReturns, DestroyRefused, DestroyBegins, WorkersJoined
  <2>3. CleaningUp => CleaningUp'
    BY <2>1 DEF CleaningUp, Threads
  <2>. QED BY <2>1, <2>2, <2>3, SlotQuiet
<1>6. ASSUME NEW p \in Threads, PutRefused(p) \/ SpuriousWakeup(p)
      PROVE  NoSlotWithoutPut'
  <2>1. \A t \in Threads :
          /\ pc'[t] = "asleep_slot" => pc[t] = "asleep_slot"
          /\ pc[t] = "put_woken" => pc'[t] = "put_woken"
          /\ pc[t] \in CleanUpLabels => pc'[t] = pc[t]
    BY <1>1, <1>6 DEF PutRefused, SpuriousWakeup, Awake, AfterPut, Goto
  <2>2. queue' = queue
    BY <1>6 DEF PutRefused, SpuriousWakeup
  <2>3. CleaningUp => CleaningUp'
    BY <2>1 DEF CleaningUp, Threads
  <2>. QED BY <2>1, <2>2, <2>3, SlotQuiet
<1>7. CASE UNCHANGED vars
  BY <1>7, SlotQuiet DEF vars, CleaningUp, At
<1>. QED
  BY <1>2, <1>3, <1>4, <1>5, <1>6, <1>7, Steps, SlotFreed, SlotFilled

(* For every value of the constants: while a put sleeps on the full queue, *)
(* each free slot has a woken put on its way to it, until the workers have *)
(* gone.                                                                   *)
THEOREM PutsWake == Spec => []NoSlotWithoutPut
<1>1. Init => NoSlotWithoutPut
  BY DEF Init, NoSlotWithoutPut, At
<1>. QED BY <1>1, AlwaysTyped, SlotStep, PTL DEF Spec

-----------------------------------------------------------------------------
(***************************************************************************)
(* 5. yatpool_destroy: what it frees nobody uses, and, when no client calls*)
(* the pool meanwhile, every accepted task has run by then.                *)
(***************************************************************************)

\* The labels a thread never leaves, or leaves only for the next of them.
Late == {"exited", "join"} \cup CleanUpLabels

(* The order of the shutdown: all_done is set, then the workers leave,     *)
(* then the joins end, then the pool is freed.                             *)
ShutdownOrder ==
  /\ \A w \in Workers : pc[w] = "exited" => all_done
  /\ \A c \in Clients : pc[c] \in {"join"} \cup CleanUpLabels => all_done
  /\ \A c \in Clients : pc[c] \in CleanUpLabels => WorkersGone
  /\ freed <=> \E c \in Clients : pc[c] = "destroyed"

(* A step that is not part of the shutdown.                                *)
LEMMA OrderQuiet ==
  ASSUME ShutdownOrder, Typed, UNCHANGED <<all_done, freed>>,
         \A t \in Threads : pc[t] \in Late \/ pc'[t] \in Late => pc'[t] = pc[t]
  PROVE  ShutdownOrder'
BY DEF ShutdownOrder, WorkersGone, Late, Threads

(* Every step follows the order of the shutdown.                           *)
LEMMA OrderStep == Typed /\ ShutdownOrder /\ [Next]_vars => ShutdownOrder'
<1>. SUFFICES ASSUME Typed, ShutdownOrder, [Next]_vars
              PROVE  ShutdownOrder'
  OBVIOUS
<1>1. /\ pc \in [Threads -> Labels] /\ Workers \cap Clients = {}
      /\ Workers \subseteq Threads /\ Clients \subseteq Threads
      /\ \A w \in Workers : pc[w] \notin {"join"} \cup CleanUpLabels
  BY PoolAssumption
     DEF Typed, TypeOK, Labels, Threads, WorkerLabels, PutLabels
<1>2. ASSUME NEW w \in Workers, WorkerExit(w)
      PROVE  ShutdownOrder'
  BY <1>1, <1>2 DEF WorkerExit, MayExit, Goto, ShutdownOrder, WorkersGone
<1>3. ASSUME NEW c \in Clients, DestroyBegins(c)
      PROVE  ShutdownOrder'
  BY <1>1, <1>3 DEF DestroyBegins, Broadcast, ShutdownOrder, WorkersGone
<1>4. ASSUME NEW c \in Clients, WorkersJoined(c) \/ CleanUp(c)
      PROVE  ShutdownOrder'
  <2>1. CASE WorkersJoined(c)
    BY <1>1, <2>1 DEF WorkersJoined, Goto, ShutdownOrder, WorkersGone
  <2>2. CASE CleanUp(c)
    <3>1. PICK l \in CleanUpLabels \ {"discard"} :
            /\ pc' = [pc EXCEPT ![c] = l]
            /\ IF l = "destroyed" THEN freed' = TRUE ELSE UNCHANGED freed
      BY <2>2, CleanUpMoves
    <3>2. pc[c] \in CleanUpLabels \ {"destroyed"} /\ all_done' = all_done
      BY <2>2, CleanUpMoves
    <3>3. \A w \in Workers : pc'[w] = pc[w]
      BY <1>1, <3>1
    <3>. QED BY <1>1, <3>1, <3>2, <3>3 DEF ShutdownOrder, WorkersGone
  <2>. QED BY <1>4, <2>1, <2>2
<1>5. ASSUME NEW w \in Workers,
             \/ WorkerSleep(w) \/ TaskPut(w) \/ TaskReturns(w)
             \/ FreeTask(w) \/ CountTask(w) \/ Notify(w)
      PROVE  ShutdownOrder'
  BY <1>1, <1>5, OrderQuiet
     DEF WorkerSleep, TaskPut, BeginPut, TaskReturns, FreeTask, CountTask,
         Notify, Broadcast, Goto, Late
<1>6. ASSUME NEW w \in Workers, WorkerTake(w)
      PROVE  ShutdownOrder'
  <2>1. pc[w] = "loop" /\ UNCHANGED <<all_done, freed>>
    BY <1>6 DEF WorkerTake
  <2>2. \A t \in Threads : pc[t] \in Late \/ pc'[t] \in Late => pc'[t] = pc[t]
    BY <1>1, <1>6, <2>1, TakeWakes DEF Typed, Late
  <2>. QED BY <2>1, <2>2, OrderQuiet
<1>7. ASSUME NEW c \in Clients,
             \/ ClientPut(c) \/ ClientWait(c) \/ ClientDestroy(c) \/ WaitSleep(c)
             \/ WaitReturns(c) \/ DestroyRefused(c) \/ DiscardTask(c)
      PROVE  ShutdownOrder'
  BY <1>1, <1>7, OrderQuiet
     DEF ClientPut, BeginPut, MayCall, ClientWait, ClientDestroy, WaitSleep,
         WaitReturns, DestroyRefused, DiscardTask, Goto, Late
<1>8. ASSUME NEW p \in Threads, PutRefused(p) \/ PutSleep(p) \/ SpuriousWakeup(p)
      PROVE  ShutdownOrder'
  BY <1>1, <1>8, OrderQuiet
     DEF PutRefused, PutSleep, PastCheck, SpuriousWakeup, Awake, AfterPut, Goto, Late
<1>9. ASSUME NEW p \in Threads, PutAccepted(p)
      PROVE  ShutdownOrder'
  <2>1. /\ pc[p] \in {"put", "put_woken"} /\ AfterPut(p) \in {"run", "idle"}
        /\ UNCHANGED <<all_done, freed>>
    BY <1>9 DEF PutAccepted, PastCheck, AfterPut
  <2>2. \A t \in Threads : pc[t] \in Late \/ pc'[t] \in Late => pc'[t] = pc[t]
    BY <1>1, <1>9, <2>1, PutWakes DEF Typed, Late
  <2>. QED BY <2>1, <2>2, OrderQuiet
<1>10. CASE UNCHANGED vars
  BY <1>10, OrderQuiet DEF vars
<1>. QED
  BY <1>2, <1>3, <1>4, <1>5, <1>6, <1>7, <1>8, <1>9, <1>10, Steps

(* The pool is always somewhere in that order.                             *)
LEMMA AlwaysInOrder == Spec => []ShutdownOrder
<1>1. Init => ShutdownOrder
  BY PoolAssumption DEF Init, ShutdownOrder, Threads
<1>. QED BY <1>1, AlwaysTyped, OrderStep, PTL DEF Spec
-----------------------------------------------------------------------------

\* Inside yatpool_destroy, or back from it.
Destroying == {"destroy", "join"} \cup CleanUpLabels

(* When no call overlaps the shutdown: the client that shuts the pool down *)
(* is alone, and the workers leave an empty queue behind.                  *)
ShutdownAlone ==
  /\ \A c, d \in Clients : pc[c] \in Destroying /\ d # c => pc[d] = "idle"
  /\ all_done => \E c \in Clients : pc[c] \in {"join"} \cup CleanUpLabels
  /\ WorkersGone => queue = <<>>
  /\ \A t \in Tasks : status[t] # "discarded"

\* The step changes nothing for clients inside yatpool_destroy or outside the
\* pool.
ClientsKept ==
  \A c \in Clients :
    /\ pc[c] \in Destroying \cup {"idle"} => pc'[c] = pc[c]
    /\ pc'[c] \in Destroying => pc[c] \in Destroying

\* Nobody is inside yatpool_destroy, so the workers have not left.
NobodyDestroys ==
  /\ \A c \in Clients : pc[c] \notin Destroying
  /\ ~all_done /\ ~WorkersGone

(* Every step of the pool and its callers keeps the shutdown undisturbed.  *)
LEMMA AloneStep ==
  ASSUME ~Overlap
  PROVE  Typed /\ OneOwner /\ ShutdownOrder /\ ShutdownAlone /\ [Next]_vars
           => ShutdownAlone'
<1>. SUFFICES ASSUME Typed, OneOwner, ShutdownOrder, ShutdownAlone, [Next]_vars
              PROVE  ShutdownAlone'
  OBVIOUS
<1>1. /\ pc \in [Threads -> Labels] /\ Workers \cap Clients = {}
      /\ Workers \subseteq Threads /\ Clients \subseteq Threads
      /\ Threads = Workers \cup Clients
      /\ status \in [Tasks -> Statuses]
      /\ curr \in [Workers -> Tasks \cup {NoTask}]
      /\ arg \in [Threads -> Tasks \cup {NoTask}]
  BY PoolAssumption DEF Typed, TypeOK, Labels, Threads
<1>2. (\A c \in Clients : pc[c] \notin Destroying) => NobodyDestroys
  BY PoolAssumption
     DEF NobodyDestroys, Destroying, ShutdownOrder, ShutdownAlone, WorkersGone
<1>3. ASSUME NEW c \in Clients, pc[c] \notin Destroying \cup {"idle"}
      PROVE  NobodyDestroys
  BY <1>2, <1>3 DEF ShutdownAlone, Destroying
<1>4. ASSUME ~freed, NEW c \in Clients, MayCall(c)
      PROVE  NobodyDestroys
  BY <1>2, <1>4 DEF MayCall, ShuttingDown, Destroying, ShutdownOrder
<1>5. ASSUME NEW w \in Workers,
             \/ WorkerSleep(w) \/ WorkerExit(w) \/ TaskPut(w) \/ TaskReturns(w)
             \/ FreeTask(w) \/ CountTask(w) \/ Notify(w)
      PROVE  ShutdownAlone'
  <2>1. ClientsKept /\ all_done' = all_done /\ queue' = queue
    BY <1>1, <1>5
       DEF ClientsKept, WorkerSleep, WorkerExit, TaskPut, BeginPut, TaskReturns,
           FreeTask, CountTask, Notify, Broadcast, Goto, Destroying
  <2>2. WorkersGone' => queue' = <<>>
    BY <1>1, <1>5
       DEF WorkersGone, WorkerSleep, WorkerExit, MayExit, TaskPut, BeginPut,
           TaskReturns, FreeTask, CountTask, Notify, Broadcast, Goto
  <2>3. \A t \in Tasks : status'[t] # "discarded"
    BY <1>1, <1>5, PoolAssumption
       DEF ShutdownAlone, WorkerSleep, WorkerExit, TaskPut, BeginPut, TaskReturns,
           FreeTask, CountTask, Notify, Statuses
  <2>. QED BY <2>1, <2>2, <2>3 DEF ShutdownAlone, ClientsKept, Destroying
<1>6. ASSUME NEW w \in Workers, WorkerTake(w)
      PROVE  ShutdownAlone'
  <2>1. pc[w] = "loop" /\ all_done' = all_done
    BY <1>6 DEF WorkerTake
  <2>2. ClientsKept /\ pc'[w] = "run"
    BY <1>1, <1>6, <2>1, TakeWakes DEF Typed, ClientsKept, Destroying
  <2>3. \A t \in Tasks : status'[t] # "discarded"
    BY <1>1, <1>6 DEF ShutdownAlone, WorkerTake
  <2>. QED BY <2>1, <2>2, <2>3 DEF ShutdownAlone, ClientsKept, Destroying, WorkersGone
<1>7. ASSUME ~freed, NEW c \in Clients, ClientPut(c) \/ ClientWait(c)
      PROVE  ShutdownAlone'
  <2>1. NobodyDestroys
    BY <1>4, <1>7 DEF ClientPut, ClientWait
  <2>. QED
    BY <1>1, <1>7, <2>1
       DEF ClientPut, BeginPut, ClientWait, Goto, Roots, NobodyDestroys,
           ShutdownAlone, Destroying, WorkersGone
<1>8. ASSUME ~freed, NEW c \in Clients, ClientDestroy(c)
      PROVE  ShutdownAlone'
  <2>1. NobodyDestroys /\ \A d \in Clients : pc[d] = "idle"
    BY <1>4, <1>8 DEF ClientDestroy
  <2>. QED
    BY <1>1, <1>8, <2>1
       DEF ClientDestroy, Goto, NobodyDestroys, ShutdownAlone, Destroying, WorkersGone
<1>9. ASSUME NEW c \in Clients, WaitSleep(c) \/ WaitReturns(c)
      PROVE  ShutdownAlone'
  <2>1. NobodyDestroys
    BY <1>3, <1>9 DEF WaitSleep, WaitReturns, Destroying
  <2>. QED
    BY <1>1, <1>9, <2>1
       DEF WaitSleep, WaitReturns, Goto, NobodyDestroys, ShutdownAlone, Destroying,
           WorkersGone
<1>10. ASSUME NEW c \in Clients, DestroyRefused(c)
       PROVE  FALSE
  BY <1>10 DEF DestroyRefused, ShutdownAlone, Destroying
<1>11. ASSUME NEW c \in Clients,
              DestroyBegins(c) \/ WorkersJoined(c) \/ CleanUp(c)
       PROVE  ShutdownAlone'
  <2>1. /\ pc[c] \in Destroying /\ pc'[c] \in {"join"} \cup CleanUpLabels
        /\ queue' = queue /\ status' = status
    BY <1>1, <1>11, CleanUpMoves
       DEF DestroyBegins, WorkersJoined, Broadcast, Goto, Destroying
  <2>2. \A d \in Clients : d # c => pc[d] = "idle" /\ pc'[d] = "idle"
    <3>1. \A d \in Clients : d # c => pc[d] = "idle"
      BY <2>1 DEF ShutdownAlone
    <3>2. \A d \in Clients : d # c /\ pc[d] = "idle" => pc'[d] = pc[d]
      BY <1>1, <1>11, CleanUpMoves DEF DestroyBegins, WorkersJoined, Broadcast, Goto
    <3>. QED BY <3>1, <3>2
  <2>3. WorkersGone' => WorkersGone
    BY <1>1, <1>11, CleanUpMoves
       DEF DestroyBegins, WorkersJoined, Broadcast, Goto, WorkersGone
  <2>. QED BY <2>1, <2>2, <2>3 DEF ShutdownAlone, Destroying
<1>12. ASSUME NEW c \in Clients, DiscardTask(c)
       PROVE  FALSE
  BY <1>12 DEF DiscardTask, ShutdownOrder, ShutdownAlone
<1>13. ASSUME NEW p \in Threads, PutRefused(p) \/ PutSleep(p) \/ SpuriousWakeup(p)
       PROVE  ShutdownAlone'
  <2>1. pc[p] \in PutLabels \cup {"asleep_queue", "asleep_batch"}
    BY <1>13 DEF PutRefused, PutSleep, PastCheck, SpuriousWakeup, PutLabels
  <2>2. ClientsKept /\ all_done' = all_done /\ queue' = queue
    BY <1>1, <1>13, <2>1
       DEF ClientsKept, PutRefused, PutSleep, SpuriousWakeup, Awake, AfterPut, Goto,
           Destroying, PutLabels
  <2>3. WorkersGone' => WorkersGone
    BY <1>1, <1>13, <2>1
       DEF WorkersGone, PutRefused, PutSleep, SpuriousWakeup, Awake, AfterPut, Goto,
           PutLabels
  <2>4. \A t \in Tasks : status'[t] # "discarded"
    BY <1>1, <1>13 DEF ShutdownAlone, PutRefused, PutSleep, SpuriousWakeup
  <2>. QED BY <2>2, <2>3, <2>4 DEF ShutdownAlone, ClientsKept, Destroying
<1>14. ASSUME NEW p \in Threads, PutAccepted(p)
       PROVE  ShutdownAlone'
  <2>1. /\ pc[p] \in {"put", "put_woken"} /\ AfterPut(p) \in {"run", "idle"}
        /\ all_done' = all_done
    BY <1>14 DEF PutAccepted, PastCheck, AfterPut
  <2>2. ClientsKept
    BY <1>1, <1>14, <2>1, PutWakes DEF Typed, ClientsKept, Destroying
  <2>3. ~WorkersGone'
    <3>1. CASE p \in Workers
      BY <1>1, <1>14, <2>1, <3>1, PutWakes DEF Typed, WorkersGone
    <3>2. CASE p \in Clients
      <4>1. NobodyDestroys
        BY <1>3, <2>1, <3>2 DEF Destroying
      <4>2. WorkersGone' => WorkersGone
        BY <1>1, <1>14, <2>1, <3>2, PutWakes DEF Typed, WorkersGone
      <4>. QED BY <4>1, <4>2 DEF NobodyDestroys
    <3>. QED BY <1>1, <3>1, <3>2
  <2>4. \A t \in Tasks : status'[t] # "discarded"
    BY <1>1, <1>14 DEF ShutdownAlone, PutAccepted
  <2>. QED BY <2>1, <2>2, <2>3, <2>4 DEF ShutdownAlone, ClientsKept, Destroying
<1>15. CASE UNCHANGED vars
  BY <1>15 DEF vars, ShutdownAlone, WorkersGone
<1>. QED
  BY <1>5, <1>6, <1>7, <1>8, <1>9, <1>10, <1>11, <1>12, <1>13, <1>14, <1>15, Steps

(* Without overlapping calls the shutdown is never disturbed.              *)
LEMMA AlwaysAlone ==
  ASSUME ~Overlap
  PROVE  Spec => []ShutdownAlone
<1>1. Init => ShutdownAlone
  BY PoolAssumption DEF Init, ShutdownAlone, Threads, Destroying
<1>. QED
  BY <1>1, AlwaysTyped, Ownership, AlwaysInOrder, AloneStep, PTL DEF Spec

-----------------------------------------------------------------------------

(* For every value of the constants: when the pool is freed every worker   *)
(* has left, past its last broadcast, and without overlapping calls no     *)
(* client is inside a call.                                                *)
THEOREM NobodyLeftInside == Spec => []FreedWhenQuiet
<1>1. CASE Overlap
  <2>1. ShutdownOrder => FreedWhenQuiet
    BY <1>1 DEF ShutdownOrder, WorkersGone, FreedWhenQuiet
  <2>. QED BY <2>1, AlwaysInOrder, PTL
<1>2. CASE ~Overlap
  <2>1. ShutdownOrder /\ ShutdownAlone => FreedWhenQuiet
    BY DEF ShutdownOrder, ShutdownAlone, WorkersGone, FreedWhenQuiet, Destroying
  <2>2. Spec => []ShutdownAlone
    BY <1>2, AlwaysAlone
  <2>. QED BY <2>1, <2>2, AlwaysInOrder, PTL
<1>. QED BY <1>1, <1>2

(* For every value of the constants: without overlapping calls, every task *)
(* whose put was accepted has run to completion when the pool is freed.    *)
THEOREM NothingDiscarded == Spec => []DestroyRunsEverything
<1>1. CASE Overlap
  <2>1. TRUE => DestroyRunsEverything
    BY <1>1 DEF DestroyRunsEverything
  <2>. QED BY <2>1, PTL
<1>2. CASE ~Overlap
  <2>1. Typed /\ OneOwner /\ ShutdownOrder /\ ShutdownAlone => DestroyRunsEverything
    <3>. SUFFICES ASSUME Typed, OneOwner, ShutdownOrder, ShutdownAlone, freed,
                         NEW t \in Tasks
                  PROVE  status[t] \in {"fresh", "rejected", "finished"}
      BY DEF DestroyRunsEverything
    <3>1. /\ \A w \in Workers : pc[w] = "exited"
          /\ \A c \in Clients : pc[c] \in {"idle", "destroyed"}
          /\ queue = <<>>
      BY DEF ShutdownOrder, ShutdownAlone, WorkersGone, Destroying
    <3>2. /\ \A p \in Threads : arg[p] = NoTask
          /\ \A w \in Workers : curr[w] = NoTask
      BY <3>1 DEF Typed, Placement, PutLabels, Threads
    <3>3. status[t] \in Statuses \ {"pending", "queued", "running", "executed", "discarded"}
      BY <3>1, <3>2, PoolAssumption
         DEF Typed, TypeOK, OneOwner, InPut, InQueue, InWorker, ShutdownAlone
    <3>. QED BY <3>3 DEF Statuses
  <2>2. Spec => []ShutdownAlone
    BY <1>2, AlwaysAlone
  <2>. QED BY <2>1, <2>2, AlwaysTyped, Ownership, AlwaysInOrder, PTL
<1>. QED BY <1>1, <1>2

\* Task t is not submitted, on its way into the queue, or refused.
NotAccepted(t) == status[t] \in {"fresh", "pending", "rejected"}

\* The put of task t waits, or has just been woken, for a slot of the queue.
Blocked(t) == \E p \in Threads : arg[p] = t /\ pc[p] \in {"asleep_slot", "put_woken"}

(* all_done is not checked again after the wait for a slot                 *)
(* (src/src/yatpool.c:277), so a put may be accepted long after the        *)
(* shutdown began; but only one that was already blocked on the full queue *)
(* at that moment.  Any other task not accepted by then never is, whatever *)
(* sleeps, wake-ups, or pops of the clean-up follow.                       *)
LatePutsWereBlocked ==
  \A t \in Tasks :
    [](all_done /\ NotAccepted(t) /\ ~Blocked(t) => []NotAccepted(t))

(* A task that is not accepted, and whose put is not blocked on the full   *)
(* queue, when the shutdown has begun stays so at every step.              *)
LEMMA TooLateStays ==
  ASSUME Typed, OneOwner, [Next]_vars, NEW t \in Tasks,
         all_done, NotAccepted(t), ~Blocked(t)
  PROVE  all_done' /\ NotAccepted(t)' /\ ~Blocked(t)'
<1>1. /\ pc \in [Threads -> Labels] /\ status \in [Tasks -> Statuses]
      /\ arg \in [Threads -> Tasks \cup {NoTask}]
      /\ Workers \subseteq Threads /\ Clients \subseteq Threads
  BY DEF Typed, TypeOK, Labels, Threads
<1>2. /\ \A p \in Threads : arg[p] = t => pc[p] = "put"
      /\ \A w \in Workers : pc[w] \in {"run", "free", "count"} => arg[w] # t
      /\ \A w \in Workers : pc[w] \in {"run", "free"} => curr[w] # t
      /\ queue # <<>> => Head(queue) # t
  <2>1. \A p \in Threads : arg[p] = t => pc[p] = "put"
    BY PoolAssumption DEF Blocked, Typed, Placement, PutLabels
  <2>2. \A w \in Workers : pc[w] \in {"run", "free"} => curr[w] # t
    BY PoolAssumption DEF NotAccepted, OneOwner, InWorker, Typed, Placement
  <2>3. queue # <<>> => Head(queue) # t
    BY LenProperties, EmptySeq DEF NotAccepted, OneOwner, InQueue, Typed, TypeOK
  <2>. QED BY <1>1, <2>1, <2>2, <2>3
<1>3. ASSUME all_done', UNCHANGED <<arg, status>>,
             \A p \in Threads : pc[p] = "put" => pc'[p] = "put"
      PROVE  all_done' /\ NotAccepted(t)' /\ ~Blocked(t)'
  BY <1>2, <1>3 DEF NotAccepted, Blocked
<1>4. ASSUME NEW w \in Workers,
             \/ WorkerSleep(w) \/ WorkerExit(w) \/ CountTask(w) \/ Notify(w)
      PROVE  all_done' /\ NotAccepted(t)' /\ ~Blocked(t)'
  BY <1>1, <1>3, <1>4
     DEF WorkerSleep, WorkerExit, CountTask, Notify, Broadcast, Goto
<1>5. ASSUME NEW w \in Workers, TaskReturns(w) \/ FreeTask(w)
      PROVE  all_done' /\ NotAccepted(t)' /\ ~Blocked(t)'
  BY <1>1, <1>2, <1>5 DEF TaskReturns, FreeTask, Goto, NotAccepted, Blocked
<1>6. ASSUME NEW w \in Workers, WorkerTake(w)
      PROVE  all_done' /\ NotAccepted(t)' /\ ~Blocked(t)'
  <2>1. /\ pc[w] = "loop" /\ queue # <<>> /\ arg' = arg /\ all_done' = all_done
        /\ status' = [status EXCEPT ![Head(queue)] = "running"]
    BY <1>6 DEF WorkerTake
  <2>2. \A p \in Threads : pc[p] = "put" => pc'[p] = "put"
    BY <1>1, <1>6, <2>1, TakeWakes DEF Typed
  <2>. QED BY <1>1, <1>2, <2>1, <2>2 DEF NotAccepted, Blocked
<1>7. ASSUME NEW p \in Threads, NEW u \in Tasks, BeginPut(p, u)
      PROVE  all_done' /\ NotAccepted(t)' /\ ~Blocked(t)'
  BY <1>1, <1>2, <1>7 DEF BeginPut, Goto, NotAccepted, Blocked
<1>8. ASSUME NEW p \in Threads, PutRefused(p)
      PROVE  all_done' /\ NotAccepted(t)' /\ ~Blocked(t)'
  <2>1. /\ pc[p] = "put" /\ pc' = [pc EXCEPT ![p] = AfterPut(p)]
        /\ AfterPut(p) \in {"run", "idle"} /\ all_done' = all_done
        /\ status' = [status EXCEPT ![arg[p]] = "rejected"]
        /\ arg' = [arg EXCEPT ![p] = NoTask]
    BY <1>8 DEF PutRefused, AfterPut, Goto
  <2>. QED BY <1>1, <1>2, <2>1, PoolAssumption DEF NotAccepted, Blocked
<1>9. ASSUME NEW p \in Threads, PutSleep(p) \/ SpuriousWakeup(p)
      PROVE  all_done' /\ NotAccepted(t)' /\ ~Blocked(t)'
  BY <1>1, <1>3, <1>9 DEF PutSleep, PastCheck, SpuriousWakeup, Awake, Goto
<1>10. ASSUME NEW p \in Threads, PutAccepted(p)
       PROVE  all_done' /\ NotAccepted(t)' /\ ~Blocked(t)'
  <2>1. /\ pc[p] = "put_woken" /\ AfterPut(p) \in {"run", "idle"}
        /\ all_done' = all_done
        /\ status' = [status EXCEPT ![arg[p]] = "queued"]
        /\ arg' = [arg EXCEPT ![p] = NoTask]
    BY <1>10 DEF PutAccepted, PastCheck, AfterPut
  <2>2. \A q \in Threads : pc[q] = "put" => pc'[q] = "put"
    BY <1>1, <1>10, <2>1, PutWakes DEF Typed
  <2>. QED BY <1>1, <1>2, <2>1, <2>2, PoolAssumption DEF NotAccepted, Blocked
<1>11. ASSUME NEW c \in Clients,
              \/ ClientWait(c) \/ ClientDestroy(c) \/ WaitSleep(c)
              \/ WaitReturns(c) \/ DestroyRefused(c) \/ DestroyBegins(c)
              \/ WorkersJoined(c) \/ CleanUp(c)
       PROVE  all_done' /\ NotAccepted(t)' /\ ~Blocked(t)'
  BY <1>1, <1>3, <1>11, CleanUpMoves
     DEF ClientWait, ClientDestroy, MayCall, WaitSleep, WaitReturns, DestroyRefused,
         DestroyBegins, WorkersJoined, Broadcast, Goto
<1>12. ASSUME NEW c \in Clients, DiscardTask(c)
       PROVE  all_done' /\ NotAccepted(t)' /\ ~Blocked(t)'
  BY <1>1, <1>2, <1>12 DEF DiscardTask, NotAccepted, Blocked
<1>13. ASSUME NEW w \in Workers, TaskPut(w)
       PROVE  \E p \in Threads, u \in Tasks : BeginPut(p, u)
  <2>1. curr[w] \in Tasks
    BY <1>13 DEF TaskPut, Typed, TypeOK, Placement
  <2>. QED BY <1>13, <2>1, PoolAssumption DEF TaskPut, Threads
<1>14. ASSUME NEW c \in Clients, ClientPut(c)
       PROVE  \E p \in Threads, u \in Tasks : BeginPut(p, u)
  BY <1>14 DEF ClientPut, Roots, Threads
<1>15. CASE UNCHANGED vars
  BY <1>3, <1>15 DEF vars
<1>. QED
  BY <1>4, <1>5, <1>6, <1>7, <1>8, <1>9, <1>10, <1>11, <1>12, <1>13, <1>14, <1>15,
     Steps

(* For every value of the constants: a task not accepted when the shutdown *)
(* has begun is never accepted unless its put was blocked on the full      *)
(* queue at that moment.                                                   *)
THEOREM OnlyBlockedPutsAreLate == Spec => LatePutsWereBlocked
<1>. SUFFICES ASSUME NEW t \in Tasks
              PROVE  Spec => [](all_done /\ NotAccepted(t) /\ ~Blocked(t)
                                  => []NotAccepted(t))
  BY DEF LatePutsWereBlocked
<1>. DEFINE TooLate == all_done /\ NotAccepted(t) /\ ~Blocked(t)
<1>1. Typed /\ OneOwner /\ TooLate /\ [Next]_vars => TooLate'
  BY TooLateStays
<1>2. TooLate => NotAccepted(t)
  OBVIOUS
<1>. HIDE DEF TooLate
<1>3. Spec => [](TooLate => []NotAccepted(t))
  BY <1>1, <1>2, AlwaysTyped, Ownership, PTL DEF Spec
<1>. QED BY <1>3 DEF TooLate

(* A task accepted before the shutdown began is never dropped: neither by  *)
(* the loop that frees what is left in the queue (src/src/yatpool.c:340)   *)
(* nor by the freeing of the queue itself, even when puts and waits        *)
(* overlap the shutdown.                                                   *)
EarlyTasksKept ==
  \A t \in Tasks :
    [](status[t] = "queued" /\ ~all_done =>
         [](status[t] # "discarded" /\ (freed => status[t] = "finished")))

\* Task t was accepted and is not dropped; while it is queued a worker is left.
Kept(t) ==
  /\ status[t] \in {"queued", "running", "executed", "finished"}
  /\ status[t] = "queued" => ~WorkersGone

(* Every step keeps such a task: workers leave only an empty queue, and    *)
(* tasks are discarded only when the workers have left.                    *)
LEMMA KeptStep ==
  ASSUME Typed, OneOwner, ShutdownOrder, [Next]_vars, NEW t \in Tasks, Kept(t)
  PROVE  Kept(t)'
<1>1. /\ pc \in [Threads -> Labels] /\ status \in [Tasks -> Statuses]
      /\ Workers \subseteq Threads /\ Clients \subseteq Threads
      /\ Workers \cap Clients = {}
  BY PoolAssumption DEF Typed, TypeOK, Labels, Threads
<1>2. ASSUME status'[t] = status[t],
             \A w \in Workers : pc[w] # "exited" => pc'[w] # "exited"
      PROVE  Kept(t)'
  BY <1>2 DEF Kept, WorkersGone
<1>3. ASSUME NEW w \in Workers, WorkerExit(w)
      PROVE  Kept(t)'
  <2>1. status' = status /\ queue = <<>>
    BY <1>3 DEF WorkerExit, MayExit
  <2>2. status[t] # "queued"
    BY <2>1 DEF OneOwner, InQueue
  <2>. QED BY <2>1, <2>2 DEF Kept
<1>4. ASSUME NEW w \in Workers, WorkerTake(w)
      PROVE  Kept(t)'
  <2>1. pc[w] = "loop" /\ status' = [status EXCEPT ![Head(queue)] = "running"]
    BY <1>4 DEF WorkerTake
  <2>2. pc'[w] = "run"
    BY <1>1, <1>4, <2>1, TakeWakes DEF Typed
  <2>. QED BY <1>1, <2>1, <2>2 DEF Kept, WorkersGone
<1>5. ASSUME NEW w \in Workers, TaskReturns(w) \/ FreeTask(w)
      PROVE  Kept(t)'
  BY <1>1, <1>5, PoolAssumption
     DEF TaskReturns, FreeTask, Goto, Kept, WorkersGone, OneOwner, InWorker, Typed,
         Placement
<1>6. ASSUME NEW w \in Workers, WorkerSleep(w) \/ CountTask(w) \/ Notify(w)
      PROVE  Kept(t)'
  BY <1>1, <1>2, <1>6 DEF WorkerSleep, CountTask, Notify, Broadcast, Goto
<1>7. ASSUME NEW p \in Threads, NEW u \in Tasks, BeginPut(p, u)
      PROVE  Kept(t)'
  <2>1. status[u] = "fresh" /\ status' = [status EXCEPT ![u] = "pending"]
        /\ pc' = [pc EXCEPT ![p] = "put"]
    BY <1>7 DEF BeginPut, Goto
  <2>2. status'[t] = status[t]
    BY <1>1, <2>1 DEF Kept
  <2>. QED BY <1>1, <1>2, <2>1, <2>2
<1>8. ASSUME NEW p \in Threads, PutRefused(p) \/ PutAccepted(p)
      PROVE  Kept(t)'
  <2>1. /\ pc[p] \in {"put", "put_woken"} /\ AfterPut(p) \in {"run", "idle"}
        /\ \E s \in Statuses : status' = [status EXCEPT ![arg[p]] = s]
    BY <1>8 DEF PutRefused, PutAccepted, PastCheck, AfterPut, Statuses
  <2>2. status[arg[p]] = "pending"
    BY <2>1 DEF Typed, Placement, PutLabels, OneOwner, InPut
  <2>3. status'[t] = status[t]
    BY <1>1, <2>1, <2>2 DEF Kept
  <2>4. \A w \in Workers : pc[w] # "exited" => pc'[w] # "exited"
    BY <1>1, <1>8, <2>1, PutWakes DEF Typed, PutRefused, Goto
  <2>. QED BY <1>2, <2>3, <2>4
<1>9. ASSUME NEW p \in Threads, PutSleep(p) \/ SpuriousWakeup(p)
      PROVE  Kept(t)'
  BY <1>1, <1>2, <1>9 DEF PutSleep, SpuriousWakeup, Awake, Goto
<1>10. ASSUME NEW c \in Clients,
              \/ ClientWait(c) \/ ClientDestroy(c) \/ WaitSleep(c)
              \/ WaitReturns(c) \/ DestroyRefused(c) \/ DestroyBegins(c)
              \/ WorkersJoined(c) \/ CleanUp(c)
       PROVE  Kept(t)'
  BY <1>1, <1>2, <1>10, CleanUpMoves
     DEF ClientWait, ClientDestroy, WaitSleep, WaitReturns, DestroyRefused,
         DestroyBegins, WorkersJoined, Broadcast, Goto
<1>11. ASSUME NEW c \in Clients, DiscardTask(c)
       PROVE  Kept(t)'
  <2>1. /\ pc[c] = "discard" /\ queue # <<>> /\ pc' = pc
        /\ status' = [status EXCEPT ![Head(queue)] = "discarded"]
    BY <1>11 DEF DiscardTask
  <2>2. WorkersGone
    BY <2>1 DEF ShutdownOrder
  <2>3. status[t] # "queued" /\ status[Head(queue)] = "queued"
    BY <1>11, <2>2, HeadLeaves DEF Kept, DiscardTask, Statuses
  <2>. QED BY <1>1, <1>2, <2>1, <2>3
<1>12. ASSUME NEW w \in Workers, TaskPut(w)
       PROVE  \E p \in Threads, u \in Tasks : BeginPut(p, u)
  <2>1. curr[w] \in Tasks
    BY <1>12 DEF TaskPut, Typed, TypeOK, Placement
  <2>. QED BY <1>12, <2>1, PoolAssumption DEF TaskPut, Threads
<1>13. ASSUME NEW c \in Clients, ClientPut(c)
       PROVE  \E p \in Threads, u \in Tasks : BeginPut(p, u)
  BY <1>13 DEF ClientPut, Roots, Threads
<1>14. CASE UNCHANGED vars
  BY <1>2, <1>14 DEF vars
<1>. QED
  BY <1>3, <1>4, <1>5, <1>6, <1>7, <1>8, <1>9, <1>10, <1>11, <1>12, <1>13, <1>14,
     Steps

(* For every value of the constants, and even when calls overlap the       *)
(* shutdown: a task accepted before the shutdown began is never discarded, *)
(* and has run to completion when the pool is freed.                       *)
THEOREM EarlyTasksAreKept == Spec => EarlyTasksKept
<1>. SUFFICES ASSUME NEW t \in Tasks
              PROVE  Spec =>
                       [](status[t] = "queued" /\ ~all_done =>
                            [](status[t] # "discarded" /\ (freed => status[t] = "finished")))
  BY DEF EarlyTasksKept
<1>. DEFINE Early == status[t] = "queued" /\ ~all_done
            Goal  == status[t] # "discarded" /\ (freed => status[t] = "finished")
<1>1. ShutdownOrder /\ Early => Kept(t)
  BY PoolAssumption DEF ShutdownOrder, Kept, WorkersGone
<1>2. Typed /\ OneOwner /\ ShutdownOrder /\ Kept(t) /\ [Next]_vars => Kept(t)'
  BY KeptStep
<1>3. Typed /\ OneOwner /\ ShutdownOrder /\ Kept(t) => Goal
  <2>. SUFFICES ASSUME Typed, OneOwner, ShutdownOrder, Kept(t), freed
                PROVE  status[t] = "finished"
    BY DEF Kept
  <2>1. WorkersGone
    BY DEF ShutdownOrder
  <2>2. \A w \in Workers : curr[w] = NoTask
    BY <2>1 DEF WorkersGone, Typed, Placement, PutLabels
  <2>. QED BY <2>1, <2>2, PoolAssumption DEF Kept, OneOwner, InWorker
<1>. HIDE DEF Early, Goal
<1>4. Spec => [](Early => []Goal)
  BY <1>1, <1>2, <1>3, AlwaysTyped, Ownership, AlwaysInOrder, PTL DEF Spec
<1>. QED BY <1>4 DEF Early, Goal

-----------------------------------------------------------------------------
(***************************************************************************)
(* 6. The pool implements PoolContract: every step of YatPool is a step of *)
(* the contract or changes nothing that the contract shows.                *)
(***************************************************************************)

(* What a caller sees of the pool, see Contract in YatPool.                *)
SeenAccepted == {t \in Tasks : status[t] \notin {"fresh", "pending", "rejected"}}
SeenActive == {curr[w] : w \in Busy}
SeenFinished == {t \in Tasks : status[t] = "finished" /\ \A w \in Workers : curr[w] # t}
SeenWaiting == At("wait") \cup At("asleep_batch")

Quiet == SeenAccepted' = SeenAccepted /\ SeenActive' = SeenActive /\ SeenFinished' = SeenFinished

IInv ==
  /\ Typed /\ OneOwner /\ Accounting /\ ShutdownOrder
  /\ ~Overlap => ShutdownAlone

(* A step that moves no task between workers, and changes no status except *)
(* those of tasks that nobody outside the pool has been promised.          *)
LEMMA TasksQuiet ==
  ASSUME UNCHANGED curr,
         \A t \in Tasks :
           \/ status'[t] = status[t]
           \/ {status[t], status'[t]} \subseteq {"fresh", "pending", "rejected"}
  PROVE  Quiet
BY DEF Quiet, SeenAccepted, SeenActive, SeenFinished, Busy

(* Where a thread wakes up or falls asleep does not show; who is inside    *)
(* yatpool_wait does.                                                      *)
LEMMA WaitingQuiet ==
  ASSUME \A t \in Threads :
           pc[t] \in {"wait", "asleep_batch"} <=> pc'[t] \in {"wait", "asleep_batch"}
  PROVE  SeenWaiting' = SeenWaiting
BY DEF SeenWaiting, At

(* A step that shows nothing is a stutter of the contract.                 *)
LEMMA Stutter ==
  ASSUME Quiet, SeenWaiting' = SeenWaiting, UNCHANGED <<queue, all_done, freed>>
  PROVE  UNCHANGED Contract!vars
BY DEF Quiet, SeenWaiting, SeenAccepted, SeenActive, SeenFinished, Contract!vars

(* A worker that takes a task starts it: it is the oldest, nobody has run  *)
(* it, and fewer tasks run than there are workers.                         *)
LEMMA TakeStarts ==
  ASSUME IInv, NEW w \in Workers, WorkerTake(w)
  PROVE  Contract!Start
<1> DEFINE h == Head(queue)
<1>1. /\ h \in Tasks /\ status[h] = "queued" /\ queue # <<>>
      /\ pc \in [Threads -> Labels] /\ w \in Threads
      /\ curr \in [Workers -> Tasks \cup {NoTask}] /\ curr[w] = NoTask
      /\ status \in [Tasks -> Statuses]
      /\ curr' = [curr EXCEPT ![w] = h] /\ status' = [status EXCEPT ![h] = "running"]
      /\ queue' = Tail(queue) /\ UNCHANGED <<all_done, freed>>
  BY HeadLeaves DEF WorkerTake, IInv, Typed, TypeOK, Placement, Labels, PutLabels,
                    Threads, Statuses
<1> HIDE DEF h
<1>2. SeenWaiting' = SeenWaiting
  <2>1. \A t \in Threads :
          pc[t] \in {"wait", "asleep_batch"} <=> pc'[t] \in {"wait", "asleep_batch"}
    <3>1. pc[w] = "loop"
      BY DEF WorkerTake
    <3> QED
      BY <1>1, <3>1, TakeWakes DEF IInv, Typed
  <2> QED
    BY <2>1, WaitingQuiet
<1>3. \A v \in Workers : curr[v] # h
  BY <1>1, PoolAssumption DEF IInv, OneOwner, InWorker
<1>4. SeenActive' = SeenActive \cup {h} /\ h \notin SeenActive /\ h \notin SeenFinished
  BY <1>1, <1>3, PoolAssumption DEF SeenActive, SeenFinished, Busy
<1>5. SeenAccepted' = SeenAccepted
  BY <1>1 DEF SeenAccepted
<1>6. SeenFinished' = SeenFinished
  <2>1. \A t \in Tasks \ {h} : status'[t] = status[t]
    BY <1>1
  <2>2. status[h] # "finished" /\ status'[h] # "finished"
    BY <1>1
  <2>3. \A t \in Tasks \ {h} :
          (\A v \in Workers : curr'[v] # t) <=> (\A v \in Workers : curr[v] # t)
    <3>1. \A v \in Workers \ {w} : curr'[v] = curr[v]
      BY <1>1
    <3>2. curr[w] \notin Tasks /\ curr'[w] = h
      BY <1>1, PoolAssumption
    <3> QED
      BY <3>1, <3>2
  <2> QED
    BY <2>1, <2>2, <2>3 DEF SeenFinished
<1>7. Cardinality(SeenActive) < Cardinality(Workers)
  <2>1. IsFiniteSet(Busy) /\ Busy \in SUBSET (Workers \ {w})
    BY <1>1, UncountedType DEF IInv, Busy
  <2>2. /\ IsFiniteSet(Workers \ {w})
        /\ Cardinality(Workers \ {w}) = Cardinality(Workers) - 1
        /\ Cardinality(Workers) \in Nat
    BY PoolAssumption, FS_RemoveElement, FS_CardinalityType
  <2>3. Cardinality(Busy) <= Cardinality(Workers \ {w})
    BY <2>1, <2>2, FS_Subset
  <2>4. [v \in Busy |-> curr[v]] \in Surjection(Busy, SeenActive)
    BY DEF SeenActive, Surjection
  <2>5. IsFiniteSet(SeenActive) /\ Cardinality(SeenActive) <= Cardinality(Busy)
    BY <2>1, <2>4, FS_Surjection
  <2>6. Cardinality(SeenActive) \in Nat /\ Cardinality(Busy) \in Nat
    BY <2>1, <2>5, FS_CardinalityType
  <2> QED
    BY <2>2, <2>3, <2>5, <2>6
<1>8. queue # <<>> /\ h = Head(queue) /\ queue' = Tail(queue) /\ UNCHANGED <<all_done, freed>>
  BY <1>1 DEF h
<1>9. Contract!Cardinality(SeenActive) = Cardinality(SeenActive)
  BY DEF Contract!Cardinality, Cardinality
<1> QED
  BY <1>2, <1>4, <1>5, <1>6, <1>7, <1>8, <1>9
     DEF Contract!Start, SeenWaiting, SeenAccepted, SeenActive, SeenFinished

(* A worker that counts its task has finished it.                          *)
LEMMA CountFinishes ==
  ASSUME IInv, NEW w \in Workers, CountTask(w)
  PROVE  \E t \in Tasks : Contract!Finish(t)
<1> DEFINE t == curr[w]
<1>1. /\ t \in Tasks /\ t # NoTask /\ status[t] = "finished"
      /\ curr \in [Workers -> Tasks \cup {NoTask}]
      /\ curr' = [curr EXCEPT ![w] = NoTask]
      /\ \A v \in Workers \ {w} : curr[v] # t
      /\ UNCHANGED <<status, queue, all_done, freed>>
  BY PoolAssumption
     DEF CountTask, IInv, Typed, TypeOK, Placement, OneOwner, InWorker
<1>2. SeenWaiting' = SeenWaiting
  <2>1. \A u \in Threads :
          pc[u] \in {"wait", "asleep_batch"} <=> pc'[u] \in {"wait", "asleep_batch"}
    BY DEF CountTask, Goto, IInv, Typed, TypeOK, Threads
  <2> QED
    BY <2>1, WaitingQuiet
<1> HIDE DEF t
<1>3. t \in SeenActive
  BY <1>1 DEF SeenActive, Busy, t
<1>4. SeenActive' = SeenActive \ {t}
  <2>1. \A v \in Workers \ {w} : curr'[v] = curr[v]
    BY <1>1
  <2>2. curr'[w] = NoTask /\ curr[w] = t
    BY <1>1 DEF t
  <2> QED
    BY <1>1, <2>1, <2>2 DEF SeenActive, Busy
<1>5. SeenAccepted' = SeenAccepted
  BY <1>1 DEF SeenAccepted
<1>6. SeenFinished' = SeenFinished \cup {t}
  <2>1. \A v \in Workers : curr'[v] # t
    BY <1>1
  <2>2. \A u \in Tasks \ {t} : (\A v \in Workers : curr'[v] # u) <=> (\A v \in Workers : curr[v] # u)
    BY <1>1, PoolAssumption DEF t
  <2> QED
    BY <1>1, <2>1, <2>2 DEF SeenFinished
<1> QED
  BY <1>1, <1>2, <1>3, <1>4, <1>5, <1>6
     DEF Contract!Finish, SeenWaiting, SeenAccepted, SeenActive, SeenFinished

(* A put that puts is accepted, and there is a slot for it.                *)
LEMMA PutAccepts ==
  ASSUME IInv, NEW p \in Threads, PutAccepted(p)
  PROVE  \E t \in Tasks : Contract!Accept(t)
<1> DEFINE t == arg[p]
<1>1. /\ pc[p] \in {"put", "put_woken"}
      /\ queue' = Append(queue, t) /\ UNCHANGED <<curr, all_done, freed>>
      /\ status' = [status EXCEPT ![t] = "queued"]
  BY DEF PutAccepted, PastCheck
<1>2. t \in Tasks /\ status[t] = "pending" /\ status \in [Tasks -> Statuses]
  BY <1>1 DEF IInv, Typed, TypeOK, Placement, PutLabels, OneOwner, InPut
<1>3. Len(queue) < QueueSize
  BY PoolAssumption, LenProperties DEF PutAccepted, QueueFull, IInv, Typed, TypeOK
<1>4. SeenWaiting' = SeenWaiting
  <2>1. /\ pc \in [Threads -> Labels]
        /\ AfterPut(p) \notin {"wait", "asleep_batch"}
    BY DEF IInv, Typed, TypeOK, Labels, AfterPut
  <2>2. \A u \in Threads :
          pc[u] \in {"wait", "asleep_batch"} <=> pc'[u] \in {"wait", "asleep_batch"}
    BY <1>1, <2>1, PutWakes DEF IInv, Typed
  <2> QED
    BY <2>2, WaitingQuiet
<1> HIDE DEF t
<1>5. t \notin SeenAccepted /\ SeenAccepted' = SeenAccepted \cup {t}
  BY <1>1, <1>2 DEF SeenAccepted
<1>6. SeenActive' = SeenActive
  BY <1>1 DEF SeenActive, Busy
<1>7. SeenFinished' = SeenFinished
  BY <1>1, <1>2 DEF SeenFinished
<1> QED
  BY <1>1, <1>2, <1>3, <1>4, <1>5, <1>6, <1>7
     DEF Contract!Accept, SeenWaiting, SeenAccepted, SeenActive, SeenFinished

(* A client that enters yatpool_wait was not inside it.                    *)
LEMMA WaitsEnter ==
  ASSUME IInv, NEW c \in Clients, ClientWait(c)
  PROVE  Contract!BeginWait(c)
<1>1. /\ pc[c] = "idle" /\ c \in Threads /\ pc \in [Threads -> Labels]
      /\ pc' = [pc EXCEPT ![c] = "wait"]
      /\ UNCHANGED <<curr, status, queue, all_done, freed>>
  BY DEF ClientWait, MayCall, Goto, IInv, Typed, TypeOK, Labels, Threads
<1>2. c \notin SeenWaiting /\ SeenWaiting' = SeenWaiting \cup {c}
  BY <1>1 DEF SeenWaiting, At
<1>3. Quiet
  BY <1>1, TasksQuiet
<1> QED
  BY <1>1, <1>2, <1>3
     DEF Contract!BeginWait, Quiet, SeenWaiting, SeenAccepted, SeenActive, SeenFinished

(* A wait that returns does so when nothing is outstanding.                *)
LEMMA WaitsReturn ==
  ASSUME IInv, NEW c \in Clients, WaitReturns(c)
  PROVE  Contract!EndWait(c)
<1>1. /\ pc[c] = "wait" /\ c \in Threads /\ pc \in [Threads -> Labels]
      /\ pc' = [pc EXCEPT ![c] = "idle"]
      /\ UNCHANGED <<curr, status, queue, all_done, freed>>
      /\ tasks_completed >= tasks_submitted
  BY DEF WaitReturns, BatchDone, Goto, IInv, Typed, TypeOK, Labels, Threads
<1>2. c \in SeenWaiting /\ SeenWaiting' = SeenWaiting \ {c}
  BY <1>1 DEF SeenWaiting, At
<1>3. Quiet
  BY <1>1, TasksQuiet
<1>4. queue = <<>> /\ SeenActive = {}
  <2>1. /\ IsFiniteSet(Busy) /\ Cardinality(Busy) \in Nat
        /\ Len(queue) \in Nat /\ Uncounted = Len(queue) + Cardinality(Busy)
        /\ tasks_completed \in Nat /\ tasks_submitted \in Nat /\ queue \in Seq(Tasks)
    BY UncountedType DEF IInv, Typed, TypeOK
  <2>2. Len(queue) = 0 /\ Cardinality(Busy) = 0
    BY <1>1, <2>1 DEF IInv, Accounting
  <2>3. Busy = {}
    BY <2>1, <2>2, FS_EmptySet
  <2>4. queue = <<>>
    BY <2>1, <2>2, EmptySeq
  <2> QED
    BY <2>3, <2>4 DEF SeenActive
<1> QED
  BY <1>1, <1>2, <1>3, <1>4
     DEF Contract!EndWait, Contract!Outstanding, Quiet, SeenWaiting, SeenAccepted,
         SeenActive, SeenFinished

(* A shutdown that begins closes a pool that was open.                     *)
LEMMA DestroyCloses ==
  ASSUME IInv, NEW c \in Clients, DestroyBegins(c)
  PROVE  Contract!Close
<1>1. /\ pc[c] = "destroy" /\ c \in Threads /\ pc \in [Threads -> Labels]
      /\ pc' = [Broadcast(pc, "asleep_queue", "loop") EXCEPT ![c] = "join"]
      /\ ~all_done /\ all_done' = TRUE /\ UNCHANGED <<curr, status, queue, freed>>
  BY DEF DestroyBegins, IInv, Typed, TypeOK, Labels, Threads
<1>2. SeenWaiting' = SeenWaiting
  BY <1>1, WaitingQuiet DEF Broadcast
<1>3. Quiet
  BY <1>1, TasksQuiet
<1> QED
  BY <1>1, <1>2, <1>3
     DEF Contract!Close, Quiet, SeenWaiting, SeenAccepted, SeenActive, SeenFinished

(* Once the workers are joined none of them holds a task.                  *)
LEMMA JoinedIdle ==
  ASSUME IInv, NEW c \in Clients, pc[c] \in CleanUpLabels
  PROVE  all_done /\ WorkersGone /\ SeenActive = {}
<1>1. all_done /\ WorkersGone
  BY DEF IInv, ShutdownOrder
<1>2. \A w \in Workers : curr[w] = NoTask
  BY <1>1 DEF IInv, Typed, Placement, WorkersGone, PutLabels
<1> QED
  BY <1>1, <1>2 DEF SeenActive, Busy

(* A task that yatpool_destroy discards is dropped, after all have ended.  *)
LEMMA DiscardDrops ==
  ASSUME IInv, NEW c \in Clients, DiscardTask(c)
  PROVE  Contract!Drop
<1> DEFINE h == Head(queue)
<1>1. /\ pc[c] = "discard" /\ queue # <<>> /\ queue' = Tail(queue)
      /\ status' = [status EXCEPT ![h] = "discarded"]
      /\ UNCHANGED <<pc, curr, all_done, freed>>
  BY DEF DiscardTask
<1>2. h \in Tasks /\ status[h] = "queued" /\ status \in [Tasks -> Statuses]
  BY <1>1, HeadLeaves DEF IInv, Typed, TypeOK, Statuses
<1>3. all_done /\ SeenActive = {} /\ Overlap
  BY <1>1, JoinedIdle, PoolAssumption DEF IInv, ShutdownAlone
<1> HIDE DEF h
<1>4. SeenAccepted' = SeenAccepted /\ SeenFinished' = SeenFinished
  BY <1>1, <1>2 DEF SeenAccepted, SeenFinished
<1>5. SeenActive' = SeenActive /\ SeenWaiting' = SeenWaiting
  BY <1>1 DEF SeenActive, Busy, SeenWaiting, At
<1> QED
  BY <1>1, <1>3, <1>4, <1>5
     DEF Contract!Drop, SeenWaiting, SeenAccepted, SeenActive, SeenFinished

(* The pool is freed when no task runs, and, unless calls overlap, when    *)
(* none is queued.                                                         *)
LEMMA FreeReleases ==
  ASSUME IInv, NEW c \in Clients, FreePool(c)
  PROVE  Contract!Release
<1>1. /\ pc[c] = "release" /\ c \in Threads /\ pc \in [Threads -> Labels]
      /\ pc' = [pc EXCEPT ![c] = "destroyed"] /\ freed' = TRUE
      /\ UNCHANGED <<curr, status, queue, all_done>>
  BY DEF FreePool, Goto, IInv, Typed, TypeOK, Labels, Threads
<1>2. SeenWaiting' = SeenWaiting
  BY <1>1, WaitingQuiet
<1>3. Quiet
  BY <1>1, TasksQuiet
<1>4. all_done /\ WorkersGone /\ SeenActive = {}
  BY <1>1, JoinedIdle
<1>5. queue = <<>> \/ Overlap
  BY <1>4, PoolAssumption DEF IInv, ShutdownAlone
<1> QED
  BY <1>1, <1>2, <1>3, <1>4, <1>5
     DEF Contract!Release, Quiet, SeenWaiting, SeenAccepted, SeenActive, SeenFinished

(* The other steps show nothing.                                           *)
LEMMA OthersStutter ==
  ASSUME IInv,
         \/ \E w \in Workers :
              \/ WorkerSleep(w) \/ WorkerExit(w) \/ TaskPut(w)
              \/ TaskReturns(w) \/ FreeTask(w) \/ Notify(w)
         \/ \E c \in Clients :
              \/ ClientPut(c) \/ ClientDestroy(c) \/ WaitSleep(c)
              \/ DestroyRefused(c) \/ WorkersJoined(c) \/ QueueEmptied(c)
              \/ SlotConditionDestroyed(c) \/ BatchConditionDestroyed(c)
         \/ \E p \in Threads : PutRefused(p) \/ PutSleep(p) \/ SpuriousWakeup(p)
         \/ UNCHANGED vars
  PROVE  UNCHANGED Contract!vars
<1> DEFINE In(f, t) == f[t] \in {"wait", "asleep_batch"}
<1>1. /\ pc \in [Threads -> Labels] /\ status \in [Tasks -> Statuses]
      /\ curr \in [Workers -> Tasks \cup {NoTask}]
      /\ Workers \subseteq Threads /\ Clients \subseteq Threads
  BY DEF IInv, Typed, TypeOK, Labels, Threads
<1>2. ASSUME NEW w \in Workers, WorkerSleep(w) \/ WorkerExit(w) \/ Notify(w)
      PROVE  UNCHANGED Contract!vars
  <2>1. UNCHANGED <<curr, status, queue, all_done, freed>>
    BY <1>2 DEF WorkerSleep, WorkerExit, Notify
  <2>2. \A t \in Threads : In(pc, t) <=> In(pc', t)
    BY <1>1, <1>2 DEF WorkerSleep, WorkerExit, Notify, Broadcast, Goto
  <2> QED
    BY <2>1, <2>2, TasksQuiet, WaitingQuiet, Stutter
<1>3. ASSUME NEW p \in Threads, NEW t \in Tasks, pc[p] \in {"idle", "run"}, BeginPut(p, t)
      PROVE  UNCHANGED Contract!vars
  <2>1. UNCHANGED <<curr, queue, all_done, freed>>
    BY <1>3 DEF BeginPut
  <2>2. \A u \in Threads : In(pc, u) <=> In(pc', u)
    BY <1>1, <1>3 DEF BeginPut, Goto
  <2>3. \A u \in Tasks :
          \/ status'[u] = status[u]
          \/ {status[u], status'[u]} \subseteq {"fresh", "pending", "rejected"}
    BY <1>1, <1>3 DEF BeginPut
  <2> QED
    BY <2>1, <2>2, <2>3, TasksQuiet, WaitingQuiet, Stutter
<1>4. ASSUME NEW w \in Workers, TaskPut(w)
      PROVE  UNCHANGED Contract!vars
  <2>1. curr[w] \in Tasks
    BY <1>1, <1>4 DEF TaskPut, IInv, Typed, Placement
  <2> QED
    BY <1>1, <1>3, <1>4, <2>1, PoolAssumption DEF TaskPut
<1>5. ASSUME NEW c \in Clients, ClientPut(c)
      PROVE  UNCHANGED Contract!vars
  BY <1>1, <1>3, <1>5 DEF ClientPut, MayCall, Roots
<1>6. ASSUME NEW w \in Workers, TaskReturns(w) \/ FreeTask(w)
      PROVE  UNCHANGED Contract!vars
  <2> DEFINE t == curr[w]
  <2>1. /\ t \in Tasks /\ status[t] \in {"running", "executed"}
        /\ \E s \in {"executed", "finished"} : status' = [status EXCEPT ![t] = s]
        /\ UNCHANGED <<curr, queue, all_done, freed>>
    BY <1>1, <1>6
       DEF TaskReturns, FreeTask, IInv, Typed, Placement, OneOwner, InWorker
  <2>2. \A u \in Threads : In(pc, u) <=> In(pc', u)
    BY <1>1, <1>6 DEF TaskReturns, FreeTask, Goto
  <2>3. Quiet
    BY <1>1, <2>1 DEF Quiet, SeenAccepted, SeenActive, SeenFinished, Busy
  <2> QED
    BY <2>1, <2>2, <2>3, WaitingQuiet, Stutter
<1>7. ASSUME NEW c \in Clients,
             \/ ClientDestroy(c) \/ WaitSleep(c) \/ DestroyRefused(c)
             \/ WorkersJoined(c) \/ QueueEmptied(c)
             \/ SlotConditionDestroyed(c) \/ BatchConditionDestroyed(c)
      PROVE  UNCHANGED Contract!vars
  <2>1. UNCHANGED <<curr, status, queue, all_done, freed>>
    BY <1>7 DEF ClientDestroy, WaitSleep, DestroyRefused, WorkersJoined,
                QueueEmptied, SlotConditionDestroyed, BatchConditionDestroyed
  <2>2. \A t \in Threads : In(pc, t) <=> In(pc', t)
    BY <1>1, <1>7
       DEF ClientDestroy, MayCall, WaitSleep, DestroyRefused, WorkersJoined,
           QueueEmptied, SlotConditionDestroyed, BatchConditionDestroyed, Goto
  <2> QED
    BY <2>1, <2>2, TasksQuiet, WaitingQuiet, Stutter
<1>8. ASSUME NEW p \in Threads, PutSleep(p) \/ SpuriousWakeup(p)
      PROVE  UNCHANGED Contract!vars
  <2>1. UNCHANGED <<curr, status, queue, all_done, freed>>
    BY <1>8 DEF PutSleep, SpuriousWakeup
  <2>2. \A t \in Threads : In(pc, t) <=> In(pc', t)
    BY <1>1, <1>8 DEF PutSleep, PastCheck, SpuriousWakeup, Awake, Goto
  <2> QED
    BY <2>1, <2>2, TasksQuiet, WaitingQuiet, Stutter
<1>9. ASSUME NEW p \in Threads, PutRefused(p)
      PROVE  UNCHANGED Contract!vars
  <2>1. /\ arg[p] \in Tasks /\ status[arg[p]] = "pending"
        /\ UNCHANGED <<curr, queue, all_done, freed>>
    BY <1>9 DEF PutRefused, IInv, Typed, TypeOK, Placement, PutLabels, OneOwner, InPut
  <2>2. \A t \in Threads : In(pc, t) <=> In(pc', t)
    BY <1>1, <1>9 DEF PutRefused, AfterPut, Goto
  <2>3. \A u \in Tasks :
          \/ status'[u] = status[u]
          \/ {status[u], status'[u]} \subseteq {"fresh", "pending", "rejected"}
    BY <1>1, <1>9, <2>1 DEF PutRefused
  <2> QED
    BY <2>1, <2>2, <2>3, TasksQuiet, WaitingQuiet, Stutter
<1>10. CASE UNCHANGED vars
  BY <1>10, TasksQuiet, WaitingQuiet, Stutter DEF vars
<1> QED
  BY <1>2, <1>4, <1>5, <1>6, <1>7, <1>8, <1>9, <1>10

(* The pool starts as the contract does.                                   *)
LEMMA ContractInit == Init => Contract!Init
BY PoolAssumption DEF Init, Contract!Init, Busy, At, Threads

(* For every number of workers, clients and tasks, and every queue size:   *)
(* the pool of src/src/yatpool.c does what PoolContract promises to the    *)
(* callers of yatpool_put, yatpool_wait and yatpool_destroy.               *)
THEOREM Implementation == Spec => ImplementsContract
<1>1. IInv /\ [Next]_vars => [Contract!Next]_Contract!vars
  <2> SUFFICES ASSUME IInv, [Next]_vars, ~UNCHANGED Contract!vars
               PROVE  Contract!Next
    OBVIOUS
  <2>1. ~freed
    BY Steps, OthersStutter
  <2>2. \/ \E w \in Workers : WorkerTake(w) \/ CountTask(w)
        \/ \E c \in Clients :
             \/ ClientWait(c) \/ WaitReturns(c) \/ DestroyBegins(c)
             \/ DiscardTask(c) \/ FreePool(c)
        \/ \E p \in Threads : PutAccepted(p)
    BY Steps, OthersStutter DEF CleanUp
  <2> QED
    BY <2>1, <2>2, TakeStarts, CountFinishes, PutAccepts, WaitsEnter, WaitsReturn,
       DestroyCloses, DiscardDrops, FreeReleases
       DEF Contract!Next
<1>2. Spec => []IInv
  <2>1. CASE Overlap
    <3>1. Typed /\ OneOwner /\ Accounting /\ ShutdownOrder => IInv
      BY <2>1 DEF IInv
    <3> QED
      BY <3>1, AlwaysTyped, Ownership, CountersAgree, AlwaysInOrder, PTL
  <2>2. CASE ~Overlap
    <3>1. Typed /\ OneOwner /\ Accounting /\ ShutdownOrder /\ ShutdownAlone => IInv
      BY DEF IInv
    <3>2. Spec => []ShutdownAlone
      BY <2>2, AlwaysAlone
    <3> QED
      BY <3>1, <3>2, AlwaysTyped, Ownership, CountersAgree, AlwaysInOrder, PTL
  <2> QED
    BY <2>1, <2>2
<1> QED
  BY <1>1, <1>2, ContractInit, PTL DEF Spec, ImplementsContract, Contract!Spec
=============================================================================

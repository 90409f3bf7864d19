---------------------------- MODULE ImageBlurProofs ----------------------------
(***************************************************************************)
(* Proofs about ImageBlur, for images of any size, any kernel, any number  *)
(* of worms and of tasks.                                                  *)
(***************************************************************************)
EXTENDS ImageBlur, ExampleLemmas

Parts == 0 .. NumThreads - 1

\* What main does while the first, and while the second batch may run; and
\* after that.
Drawing == {"worms", "wait1", "waiting1"}
Between == {"save1", "test"}
Blurring == {"blur", "wait2", "waiting2"}
After == {"save2", "free", "destroy", "join", "done"}

\* The accepted tasks that have not ended.
Pending == Range(backlog) \cup active

(* The pool has what was accepted and not finished.                        *)
PoolKept ==
  /\ backlog \in Seq(Task) /\ active \subseteq Task /\ finished \subseteq Task
  /\ accepted = Pending \cup finished

(* What has been put, in order, and what the waits have seen the end of.   *)
Batches ==
  /\ mpc = "start" \/ ~pool_ok \/ mpc = "failed" => accepted = {}
  /\ mpc \in Drawing => accepted \subseteq {Worms(k) : k \in Parts}
  /\ mpc \in Blurring => Pending \subseteq {Blur(k) : k \in Parts}
  /\ mpc \in Between \cup After => Pending = {}
  /\ mpc \in After \cup Blurring => pool_ok
  /\ mpc \notin {"worms", "blur"} => i = 0
  /\ pool_ok =>
       /\ mpc = "worms" => \A k \in 0 .. i - 1 : Worms(k) \in accepted
       /\ mpc \in {"wait1", "waiting1"} => \A k \in Parts : Worms(k) \in accepted
       /\ mpc = "blur" => \A k \in 0 .. i - 1 : Blur(k) \in accepted
       /\ mpc \in {"wait2", "waiting2"} => \A k \in Parts : Blur(k) \in accepted

\* The number of worms or of rows that the tasks share.
Share(t) == IF t[1] = "worms" THEN NumWorms ELSE H

(* How far the tasks are.                                                  *)
Progress ==
  /\ next \in [Task -> Nat]
  /\ \A t \in Task : next[t] \in PartStart(Share(t), t[2]) .. PartEnd(Share(t), t[2])
  /\ \A t \in finished : next[t] = PartEnd(Share(t), t[2])
  /\ mpc \in Between \cup Blurring \cup After /\ pool_ok =>
       \A k \in Parts : next[Worms(k)] = PartEnd(NumWorms, k)
  /\ mpc \in After => \A k \in Parts : next[Blur(k)] = PartEnd(H, k)
  /\ mpc \in {"start"} \cup Drawing => \A k \in Parts : next[Blur(k)] = PartStart(H, k)

(* A worm has been drawn as often as the task it belongs to is past it.    *)
DrawnByOwner ==
  /\ drawn \in [0 .. NumWorms - 1 -> {0, 1}]
  /\ \A w \in 0 .. NumWorms - 1 : \A k \in Parts :
       w \in PartStart(NumWorms, k) .. PartEnd(NumWorms, k) - 1 =>
         (drawn[w] = 1 <=> w < next[Worms(k)])

(* The rows that a task is past are blurred, and the files hold the images *)
(* as they are.                                                            *)
RowsBlurred ==
  /\ \A k \in Parts : \A q \in Pixels :
       q[2] \in PartStart(H, k) .. next[Blur(k)] - 1 => dest_image[q] = Blurred(src_image, q)
  /\ mpc \in {"start"} \cup Drawing => input_ppm = NoFile
  /\ input_ppm \subseteq {src_image}
  /\ mpc \notin After \ {"save2"} => output_ppm = NoFile
  /\ output_ppm \subseteq {dest_image}

ImagesKept == ~images => mpc \in {"start", "failed", "destroy", "join", "done"}

IInv == TypeOK /\ PoolKept /\ Batches /\ Progress /\ DrawnByOwner /\ RowsBlurred /\ ImagesKept

-----------------------------------------------------------------------------
(* Dividing work.                                                          *)

(* n div NumThreads, NumThreads times, is no more than n.                  *)
LEMMA Quotient ==
  ASSUME NEW n \in Nat
  PROVE  n \div NumThreads \in Nat /\ NumThreads * (n \div NumThreads) <= n
BY BlurAssumption

(* A part is not negative and ends within the whole.                       *)
LEMMA PartBounds ==
  ASSUME NEW n \in Nat, NEW k \in Parts
  PROVE  /\ PartStart(n, k) \in Nat /\ PartEnd(n, k) \in Nat
         /\ PartStart(n, k) <= PartEnd(n, k) /\ PartEnd(n, k) <= n
<1>. DEFINE d == n \div NumThreads
<1>1. d \in Nat /\ NumThreads * d <= n /\ NumThreads \in Nat \ {0}
  BY Quotient, BlurAssumption
<1>2. k \in Nat /\ k <= k + 1 /\ k + 1 <= NumThreads
  BY <1>1 DEF Parts
<1>. HIDE DEF d
<1>3. k * d <= (k + 1) * d /\ (k + 1) * d <= NumThreads * d
      /\ k * d \in Nat /\ (k + 1) * d \in Nat /\ NumThreads * d \in Nat
  BY <1>1, <1>2, Times
<1>4. PartStart(n, k) = k * d /\ PartEnd(n, k) \in {n, (k + 1) * d}
  BY DEF PartStart, PartEnd, d
<1>. QED BY <1>1, <1>3, <1>4

(* A part ends before a later one begins.                                  *)
LEMMA PartsApart ==
  ASSUME NEW n \in Nat, NEW k \in Parts, NEW l \in Parts, k < l
  PROVE  PartEnd(n, k) <= PartStart(n, l)
<1>. DEFINE d == n \div NumThreads
<1>1. d \in Nat /\ NumThreads \in Nat \ {0}
  BY Quotient, BlurAssumption
<1>2. k + 1 \in Nat /\ l \in Nat /\ k + 1 <= l /\ k # NumThreads - 1
  BY <1>1 DEF Parts
<1>. HIDE DEF d
<1>3. (k + 1) * d <= l * d
  BY <1>1, <1>2, Times
<1>. QED BY <1>2, <1>3 DEF PartStart, PartEnd, d

(* Every worm or row is in some part.                                      *)
LEMMA PartsCover ==
  ASSUME NEW n \in Nat, NEW w \in 0 .. n - 1
  PROVE  \E k \in Parts : w \in PartStart(n, k) .. PartEnd(n, k) - 1
<1>. DEFINE d == n \div NumThreads
            last == NumThreads - 1
<1>1. d \in Nat /\ NumThreads \in Nat \ {0} /\ last \in Parts /\ last \in Nat
  BY Quotient, BlurAssumption DEF Parts
<1>. HIDE DEF d
<1>2. CASE last * d <= w
  BY <1>1, <1>2, PartBounds DEF PartStart, PartEnd, d
<1>3. CASE w < last * d
  <2>1. d > 0
    BY <1>1, <1>3
  <2>. DEFINE k == w \div d
  <2>2. k \in Nat /\ k * d <= w /\ w < (k + 1) * d
    BY <1>1, <2>1
  <2>. HIDE DEF k
  <2>3. k < last
    <3>1. SUFFICES ASSUME last <= k PROVE FALSE
      BY <1>1, <2>2
    <3>2. last * d <= k * d
      BY <1>1, <2>2, <3>1, Times
    <3>. QED BY <1>1, <1>3, <2>2, <3>2
  <2>4. k \in Parts /\ PartStart(n, k) = k * d /\ PartEnd(n, k) = (k + 1) * d
    BY <1>1, <2>2, <2>3 DEF Parts, PartStart, PartEnd, d
  <2>. QED BY <1>1, <2>2, <2>4
<1>. QED
  <2>1. last * d \in Nat
    BY <1>1, Times
  <2>. QED BY <1>2, <1>3, <2>1

-----------------------------------------------------------------------------
(* The pool.                                                               *)

(* A put adds a task.                                                      *)
LEMMA AcceptAdds ==
  ASSUME PoolKept, NEW t \in Task, Pool!Accept(t)
  PROVE  /\ PoolKept' /\ Pending' = Pending \cup {t}
         /\ accepted' = accepted \cup {t} /\ finished' = finished
BY RangeAppend DEF Pool!Accept, PoolKept, Pending

(* A worker starts a task that was waiting.                                *)
LEMMA StartMoves ==
  ASSUME PoolKept, Pool!Start
  PROVE  PoolKept' /\ Pending' = Pending /\ accepted' = accepted /\ finished' = finished
<1>1. /\ Head(backlog) \in Task /\ Tail(backlog) \in Seq(Task)
      /\ Range(backlog) = {Head(backlog)} \cup Range(Tail(backlog))
  BY RangeTail DEF Pool!Start, PoolKept
<1>. QED BY <1>1 DEF Pool!Start, PoolKept, Pending

(* A task that ends is finished.                                           *)
LEMMA FinishEnds ==
  ASSUME PoolKept, NEW t, Pool!Finish(t)
  PROVE  /\ PoolKept' /\ t \in Task /\ t \in active
         /\ Pending' \subseteq Pending /\ accepted' = accepted
         /\ finished' = finished \cup {t}
BY DEF Pool!Finish, PoolKept, Pending

(* Nothing is outstanding for the pool when nothing is pending.            *)
LEMMA IdleEmpty ==
  ASSUME PoolKept
  PROVE  backlog = <<>> /\ active = {} <=> Pending = {}
BY RangeNothing DEF PoolKept, Pending

(* Steps of main that put nothing leave the tasks where they are.          *)
LEMMA PoolSame ==
  ASSUME PoolKept, UNCHANGED <<accepted, backlog, active, finished>>
  PROVE  PoolKept' /\ Pending' = Pending
BY DEF PoolKept, Pending

\* The steps of main other than the start and the puts.
MainOther ==
  \/ CallWait("wait1", "waiting1") \/ ReturnWait("waiting1", "save1")
  \/ CallWait("wait2", "waiting2") \/ ReturnWait("waiting2", "save2")
  \/ SaveInput \/ TestPool \/ SaveOutput \/ FreeImages \/ BeginDestroy \/ EndDestroy

(* The steps of the program.                                               *)
LEMMA Steps ==
  ASSUME [Next]_vars
  PROVE  \/ Start \/ PutWorms \/ PutBlur \/ MainOther \/ StartTask
         \/ \E k \in Parts : WormStep(k) \/ BlurRow(k) \/ EndTask(k)
         \/ UNCHANGED vars
BY DEF Next, MainStep, MainOther, Parts

(* Where the steps of main lead.                                           *)
LEMMA MainOtherMoves ==
  ASSUME MainOther
  PROVE  /\ i' = i
         /\ \/ MainGoto("wait1", "waiting1") \/ MainGoto("waiting1", "save1")
            \/ MainGoto("wait2", "waiting2") \/ MainGoto("waiting2", "save2")
            \/ MainGoto("save1", "test") \/ MainGoto("test", IF pool_ok THEN "blur" ELSE "failed")
            \/ MainGoto("save2", "free") \/ MainGoto("free", "destroy")
            \/ MainGoto("destroy", "join") \/ MainGoto("join", "done")
<1>1. CASE CallWait("wait1", "waiting1") \/ ReturnWait("waiting1", "save1")
  BY <1>1 DEF CallWait, ReturnWait
<1>2. CASE CallWait("wait2", "waiting2") \/ ReturnWait("waiting2", "save2")
  BY <1>2 DEF CallWait, ReturnWait
<1>3. CASE SaveInput \/ TestPool
  BY <1>3 DEF SaveInput, TestPool
<1>4. CASE SaveOutput \/ FreeImages \/ BeginDestroy \/ EndDestroy
  BY <1>4 DEF SaveOutput, FreeImages, BeginDestroy, EndDestroy
<1>. QED BY <1>1, <1>2, <1>3, <1>4 DEF MainOther

(* They leave the tasks where they are, and wait for them before they go   *)
(* on.                                                                     *)
LEMMA MainOtherPool ==
  ASSUME PoolKept, MainOther
  PROVE  /\ UNCHANGED <<accepted, backlog, active, finished, pool_ok>>
         /\ pool_ok /\ mpc \in {"waiting1", "waiting2"} => Pending = {}
         /\ UNCHANGED taskVars
<1>1. UNCHANGED <<pool_ok, taskVars>>
  BY DEF MainOther, CallWait, ReturnWait, SaveInput, TestPool, SaveOutput,
         FreeImages, BeginDestroy, EndDestroy
<1>2. UNCHANGED <<accepted, backlog, active, finished>>
  BY DEF MainOther, CallWait, ReturnWait, WaitDone, SaveInput, TestPool, SaveOutput,
         FreeImages, BeginDestroy, EndDestroy, poolVars,
         Pool!BeginWait, Pool!EndWait, Pool!Close, Pool!Release
<1>3. pool_ok /\ mpc \in {"waiting1", "waiting2"} => backlog = <<>> /\ active = {}
  BY DEF MainOther, CallWait, ReturnWait, WaitDone, SaveInput, TestPool, SaveOutput,
         FreeImages, BeginDestroy, EndDestroy, MainGoto, Pool!EndWait, Pool!Outstanding
<1>. QED BY <1>1, <1>2, <1>3, IdleEmpty

(* The tasks are named apart.                                              *)
LEMMA TaskNames ==
  /\ \A k \in Parts : Worms(k) \in Task /\ Blur(k) \in Task
  /\ \A k \in Parts : Share(Worms(k)) = NumWorms /\ Worms(k)[2] = k
  /\ \A k \in Parts : Share(Blur(k)) = H /\ Blur(k)[2] = k
  /\ \A k, l : Worms(k) # Blur(l) /\ (Worms(k) = Worms(l) => k = l) /\ (Blur(k) = Blur(l) => k = l)
  /\ \A t \in Task : \E k \in Parts : t = Worms(k) \/ t = Blur(k)
BY DEF Parts, Task, Worms, Blur, Share

(* PoolKept and Batches are kept by each step.                             *)
LEMMA BatchesStep ==
  ASSUME TypeOK, PoolKept, Batches, [Next]_vars
  PROVE  PoolKept' /\ Batches'
<1>1. CASE Start
  <2>1. PoolKept' /\ Pending' = Pending /\ accepted' = accepted
    BY <1>1, PoolSame DEF Start, poolVars
  <2>2. accepted = {} /\ Pending = {} /\ accepted' = {} /\ Pending' = {} /\ i = 0
    BY <1>1, <2>1 DEF Start, MainGoto, Batches, PoolKept, Pending
  <2>. QED BY <1>1, <2>1, <2>2 DEF Start, MainGoto, Batches, Drawing, Between, Blurring, After
<1>2. CASE PutWorms
  <2>1. /\ mpc = "worms" /\ pool_ok' = pool_ok /\ accepted \subseteq {Worms(k) : k \in Parts}
        /\ i \in Nat /\ (i < NumThreads => Worms(i) \in Task /\ i \in Parts)
    <3>1. mpc = "worms" /\ pool_ok' = pool_ok
      BY <1>2 DEF PutWorms, PutTask, MainGoto
    <3>2. i \in Nat /\ (i < NumThreads => i \in Parts)
      BY BlurAssumption DEF TypeOK, Parts
    <3>. QED BY <3>1, <3>2, TaskNames DEF Batches, Drawing
  <2>2. CASE i < NumThreads /\ pool_ok
    <3>1. PoolKept' /\ accepted' = accepted \cup {Worms(i)} /\ mpc' = "worms" /\ i' = i + 1
      BY <1>2, <2>1, <2>2, AcceptAdds DEF PutWorms, PutTask, MainGoto
    <3>. QED BY <2>1, <2>2, <3>1 DEF Batches, Drawing, Between, Blurring, After
  <2>3. CASE ~(i < NumThreads /\ pool_ok)
    <3>1. PoolKept' /\ Pending' = Pending /\ accepted' = accepted
      BY <1>2, <2>3, PoolSame DEF PutWorms, PutTask, poolVars
    <3>2. \/ i < NumThreads /\ ~pool_ok /\ mpc' = "worms"
          \/ Parts \subseteq 0 .. i - 1 /\ mpc' = "wait1" /\ i' = 0
      BY <1>2, <2>1, <2>3, BlurAssumption DEF PutWorms, PutTask, MainGoto, Parts
    <3>. QED BY <2>1, <3>1, <3>2 DEF Batches, Drawing, Between, Blurring, After
  <2>. QED BY <2>2, <2>3
<1>3. CASE PutBlur
  <2>1. /\ mpc = "blur" /\ pool_ok' = pool_ok /\ Pending \subseteq {Blur(k) : k \in Parts}
        /\ i \in Nat /\ (i < NumThreads => Blur(i) \in Task /\ i \in Parts)
        /\ pool_ok
    <3>1. mpc = "blur" /\ pool_ok' = pool_ok
      BY <1>3 DEF PutBlur, PutTask, MainGoto
    <3>2. i \in Nat /\ (i < NumThreads => i \in Parts)
      BY BlurAssumption DEF TypeOK, Parts
    <3>. QED BY <3>1, <3>2, TaskNames DEF Batches, Blurring
  <2>2. CASE i < NumThreads
    <3>1. /\ PoolKept' /\ accepted' = accepted \cup {Blur(i)} /\ Pending' = Pending \cup {Blur(i)}
          /\ mpc' = "blur" /\ i' = i + 1
      BY <1>3, <2>1, <2>2, AcceptAdds DEF PutBlur, PutTask, MainGoto
    <3>. QED BY <2>1, <2>2, <3>1 DEF Batches, Drawing, Between, Blurring, After
  <2>3. CASE ~(i < NumThreads)
    <3>1. PoolKept' /\ Pending' = Pending /\ accepted' = accepted
      BY <1>3, <2>3, PoolSame DEF PutBlur, PutTask, poolVars
    <3>2. Parts \subseteq 0 .. i - 1 /\ mpc' = "wait2" /\ i' = 0
      BY <1>3, <2>1, <2>3, BlurAssumption DEF PutBlur, PutTask, MainGoto, Parts
    <3>. QED BY <2>1, <3>1, <3>2 DEF Batches, Drawing, Between, Blurring, After
  <2>. QED BY <2>2, <2>3
<1>4. CASE MainOther
  <2>1. /\ PoolKept' /\ Pending' = Pending /\ accepted' = accepted /\ pool_ok' = pool_ok
        /\ pool_ok /\ mpc \in {"waiting1", "waiting2"} => Pending = {}
    BY <1>4, MainOtherPool, PoolSame
  <2>2. ~pool_ok => Pending = {} /\ accepted = {}
    BY DEF Batches, PoolKept
  <2>. QED BY <1>4, <2>1, <2>2, MainOtherMoves
           DEF Batches, Drawing, Between, Blurring, After, MainGoto
<1>5. CASE StartTask
  BY <1>5, StartMoves DEF StartTask, Batches
<1>6. ASSUME NEW k \in Parts, EndTask(k)
      PROVE  PoolKept' /\ Batches'
  BY <1>6, FinishEnds DEF EndTask, Batches
<1>7. ASSUME NEW k \in Parts, WormStep(k) \/ BlurRow(k) \/ UNCHANGED vars
      PROVE  PoolKept' /\ Batches'
  BY <1>7, PoolSame DEF WormStep, BlurRow, Batches, vars, poolVars
<1>8. CASE UNCHANGED vars
  BY <1>8, PoolSame DEF Batches, vars, poolVars
<1>. QED BY <1>1, <1>2, <1>3, <1>4, <1>5, <1>6, <1>7, <1>8, Steps

-----------------------------------------------------------------------------
(* The tasks.                                                              *)

(* A worker draws in the first batch only, and blurs in the second only.   *)
LEMMA WhenActive ==
  ASSUME TypeOK, PoolKept, Batches, NEW k \in Parts
  PROVE  /\ Worms(k) \in active => mpc \in Drawing
         /\ Blur(k) \in active => mpc \in Blurring
<1>1. active \subseteq Pending /\ active \subseteq accepted
  BY DEF PoolKept, Pending
<1>2. \/ mpc \in Drawing /\ active \subseteq {Worms(l) : l \in Parts}
      \/ mpc \in Blurring /\ active \subseteq {Blur(l) : l \in Parts}
      \/ active = {}
  BY <1>1 DEF TypeOK, Batches, Drawing, Between, Blurring, After
<1>. QED BY <1>2, TaskNames

(* What a task shares in, and its part of it.                              *)
LEMMA ShareBounds ==
  ASSUME NEW t \in Task
  PROVE  /\ Share(t) \in Nat
         /\ PartStart(Share(t), t[2]) \in Nat /\ PartEnd(Share(t), t[2]) \in Nat
<1>1. PICK k \in Parts : t[2] = k
  BY DEF Task, Parts
<1>. QED BY <1>1, PartBounds, BlurAssumption DEF Share

(* What is pending when nothing is, has finished.                          *)
LEMMA NonePending ==
  ASSUME PoolKept, Pending = {}
  PROVE  accepted = finished
BY DEF PoolKept

(* Each step moves one task on by one, inside its share, or none; a task   *)
(* that has finished stays at the end of its share.                        *)
LEMMA ProgressStep ==
  ASSUME TypeOK, PoolKept, Batches, Progress, [Next]_vars
  PROVE  Progress'
<1>1. CASE Start
  <2>1. next' = next /\ finished' = finished /\ mpc = "start" /\ mpc' \in {"worms", "failed"}
    BY <1>1 DEF Start, MainGoto, poolVars
  <2>. QED BY <2>1 DEF Progress, Drawing, Between, Blurring, After
<1>2. CASE PutWorms \/ PutBlur
  <2>1. next' = next /\ finished' = finished /\ pool_ok' = pool_ok
    BY <1>2 DEF PutWorms, PutBlur, PutTask, Pool!Accept, poolVars, taskVars
  <2>2. \/ mpc = "worms" /\ mpc' \in {"worms", "wait1"}
        \/ mpc = "blur" /\ mpc' \in {"blur", "wait2"}
    BY <1>2 DEF PutWorms, PutBlur, PutTask, MainGoto
  <2>. QED BY <2>1, <2>2 DEF Progress, Drawing, Between, Blurring, After
<1>3. CASE MainOther
  <2>1. /\ next' = next /\ finished' = finished /\ pool_ok' = pool_ok
        /\ pool_ok /\ mpc \in {"waiting1", "waiting2"} => accepted = finished
    BY <1>3, MainOtherPool, NonePending DEF taskVars
  <2>2. pool_ok /\ mpc = "waiting1" => \A k \in Parts : next[Worms(k)] = PartEnd(NumWorms, k)
    BY <2>1, TaskNames DEF Batches, Progress
  <2>3. mpc = "waiting2" => \A k \in Parts : next[Blur(k)] = PartEnd(H, k)
    BY <2>1, TaskNames DEF Batches, Progress, Blurring
  <2>. QED BY <1>3, <2>1, <2>2, <2>3, MainOtherMoves
           DEF Progress, Drawing, Between, Blurring, After, MainGoto
<1>4. CASE StartTask
  BY <1>4 DEF StartTask, Pool!Start, Progress, taskVars
<1>5. ASSUME NEW k \in Parts, EndTask(k)
      PROVE  Progress'
  <2>1. UNCHANGED <<next, mpc, pool_ok>>
    BY <1>5 DEF EndTask, taskVars
  <2>2. PICK t \in Task : /\ finished' = finished \cup {t}
                          /\ next[t] >= PartEnd(Share(t), t[2])
    BY <1>5, FinishEnds, TaskNames DEF EndTask
  <2>3. next[t] = PartEnd(Share(t), t[2])
    BY <2>2, ShareBounds DEF Progress
  <2>. QED BY <2>1, <2>2, <2>3 DEF Progress
<1>6. ASSUME NEW k \in Parts, WormStep(k)
      PROVE  Progress'
  <2>1. mpc \in Drawing /\ UNCHANGED <<mpc, finished, pool_ok>>
    BY <1>6, WhenActive DEF WormStep, poolVars
  <2>2. /\ next[Worms(k)] < PartEnd(NumWorms, k)
        /\ \/ next' = [next EXCEPT ![Worms(k)] = @ + 1]
           \/ next' = [next EXCEPT ![Worms(k)] = @]
    BY <1>6 DEF WormStep
  <2>3. next' \in [Task -> Nat] /\ \A t \in Task :
          next'[t] = next[t] \/ (t = Worms(k) /\ next'[t] = next[t] + 1)
    <3>1. Worms(k) \in Task /\ next \in [Task -> Nat] /\ next[Worms(k)] \in Nat
      BY TaskNames DEF Progress
    <3>. QED BY <2>2, <3>1
  <2>4. \A t \in Task : next'[t] \in PartStart(Share(t), t[2]) .. PartEnd(Share(t), t[2])
    BY <2>2, <2>3, TaskNames, ShareBounds DEF Progress
  <2>5. \A t \in finished : next'[t] = next[t]
    <3>1. PartEnd(Share(Worms(k)), Worms(k)[2]) = PartEnd(NumWorms, k) /\ Worms(k) \in Task
      BY TaskNames
    <3>2. PartEnd(NumWorms, k) \in Nat /\ next[Worms(k)] \in Nat
      BY <3>1, PartBounds, BlurAssumption DEF Progress
    <3>3. Worms(k) \notin finished
      BY <2>2, <3>1, <3>2 DEF Progress
    <3>. QED BY <2>3, <3>3 DEF PoolKept
  <2>6. \A l \in Parts : next'[Blur(l)] = next[Blur(l)]
    BY <2>3, TaskNames
  <2>. QED BY <2>1, <2>3, <2>4, <2>5, <2>6 DEF Progress, Drawing, Between, Blurring, After
<1>7. ASSUME NEW k \in Parts, BlurRow(k)
      PROVE  Progress'
  <2>1. mpc \in Blurring /\ UNCHANGED <<mpc, finished, pool_ok>>
    BY <1>7, WhenActive DEF BlurRow, poolVars
  <2>2. next[Blur(k)] < PartEnd(H, k) /\ next' = [next EXCEPT ![Blur(k)] = @ + 1]
    BY <1>7 DEF BlurRow
  <2>3. next' \in [Task -> Nat] /\ \A t \in Task :
          next'[t] = next[t] \/ (t = Blur(k) /\ next'[t] = next[t] + 1)
    <3>1. Blur(k) \in Task /\ next \in [Task -> Nat] /\ next[Blur(k)] \in Nat
      BY TaskNames DEF Progress
    <3>. QED BY <2>2, <3>1
  <2>4. \A t \in Task : next'[t] \in PartStart(Share(t), t[2]) .. PartEnd(Share(t), t[2])
    BY <2>2, <2>3, TaskNames, ShareBounds DEF Progress
  <2>5. \A t \in finished : next'[t] = next[t]
    <3>1. PartEnd(Share(Blur(k)), Blur(k)[2]) = PartEnd(H, k) /\ Blur(k) \in Task
      BY TaskNames
    <3>2. PartEnd(H, k) \in Nat /\ next[Blur(k)] \in Nat
      BY <3>1, PartBounds, BlurAssumption DEF Progress
    <3>3. Blur(k) \notin finished
      BY <2>2, <3>1, <3>2 DEF Progress
    <3>. QED BY <2>3, <3>3 DEF PoolKept
  <2>6. \A l \in Parts : next'[Worms(l)] = next[Worms(l)]
    BY <2>3, TaskNames
  <2>. QED BY <2>1, <2>3, <2>4, <2>5, <2>6 DEF Progress, Drawing, Between, Blurring, After
<1>8. CASE UNCHANGED vars
  BY <1>8 DEF Progress, vars, poolVars, taskVars
<1>. QED BY <1>1, <1>2, <1>3, <1>4, <1>5, <1>6, <1>7, <1>8, Steps

(* Only the task to which a worm belongs counts it as drawn, and once.     *)
LEMMA DrawnStep ==
  ASSUME TypeOK, PoolKept, Batches, Progress, DrawnByOwner, [Next]_vars
  PROVE  DrawnByOwner'
<1>1. ASSUME NEW k \in Parts, WormStep(k)
      PROVE  DrawnByOwner'
  <2>. DEFINE t == Worms(k)
              v == next[t]
  <2>1. /\ t \in Task /\ v \in Nat /\ v \in PartStart(NumWorms, k) .. PartEnd(NumWorms, k)
        /\ v < PartEnd(NumWorms, k)
        /\ next \in [Task -> Nat]
    BY <1>1, TaskNames DEF Progress, WormStep
  <2>2. v \in 0 .. NumWorms - 1 /\ v \in PartStart(NumWorms, k) .. PartEnd(NumWorms, k) - 1
    BY <2>1, PartBounds, BlurAssumption
  <2>3. drawn \in [0 .. NumWorms - 1 -> {0, 1}] /\ drawn[v] = 0
    BY <2>2 DEF DrawnByOwner
  <2>4. CASE j[t] + 1 # WormLength
    <3>1. next' = [next EXCEPT ![t] = v] /\ drawn' = [drawn EXCEPT ![v] = drawn[v]]
      BY <1>1, <2>4 DEF WormStep
    <3>. HIDE DEF t, v
    <3>2. next' = next /\ drawn' = drawn
      BY <2>1, <2>2, <2>3, <3>1 DEF v
    <3>. QED BY <3>2 DEF DrawnByOwner
  <2>5. CASE j[t] + 1 = WormLength
    <3>1. next' = [next EXCEPT ![t] = v + 1] /\ drawn' = [drawn EXCEPT ![v] = drawn[v] + 1]
      BY <1>1, <2>5 DEF WormStep
    <3>2. drawn' \in [0 .. NumWorms - 1 -> {0, 1}]
      BY <2>2, <2>3, <3>1
    <3>3. ASSUME NEW w \in 0 .. NumWorms - 1, NEW l \in Parts,
                 w \in PartStart(NumWorms, l) .. PartEnd(NumWorms, l) - 1
          PROVE  drawn'[w] = 1 <=> w < next'[Worms(l)]
      <4>1. drawn[w] = 1 <=> w < next[Worms(l)]
        BY <3>3 DEF DrawnByOwner
      <4>2. CASE l = k
        <5>1. next'[Worms(l)] = v + 1
          BY <2>1, <3>1, <4>2
        <5>2. drawn'[w] = IF w = v THEN 1 ELSE drawn[w]
          BY <2>2, <2>3, <3>1
        <5>. QED BY <2>1, <4>1, <4>2, <5>1, <5>2
      <4>3. CASE l # k
        <5>1. Worms(l) # t /\ next'[Worms(l)] = next[Worms(l)]
          BY <2>1, <3>1, <4>3, TaskNames
        <5>2. w # v
          <6>1. /\ k \in Int /\ l \in Int
                /\ PartStart(NumWorms, k) \in Nat /\ PartEnd(NumWorms, k) \in Nat
                /\ PartStart(NumWorms, l) \in Nat /\ PartEnd(NumWorms, l) \in Nat
            BY PartBounds, BlurAssumption DEF Parts
          <6>2. \/ PartEnd(NumWorms, k) <= PartStart(NumWorms, l)
                \/ PartEnd(NumWorms, l) <= PartStart(NumWorms, k)
            BY <4>3, <6>1, PartsApart, BlurAssumption
          <6>. QED BY <2>2, <3>3, <6>1, <6>2
        <5>3. drawn'[w] = drawn[w]
          BY <2>2, <2>3, <3>1, <5>2
        <5>. QED BY <4>1, <5>1, <5>3
      <4>. QED BY <4>2, <4>3
    <3>. QED BY <3>2, <3>3 DEF DrawnByOwner
  <2>. QED BY <2>4, <2>5
<1>2. ASSUME NEW k \in Parts, BlurRow(k)
      PROVE  DrawnByOwner'
  <2>1. drawn' = drawn /\ next' = [next EXCEPT ![Blur(k)] = @ + 1]
    BY <1>2 DEF BlurRow
  <2>2. \A l \in Parts : next'[Worms(l)] = next[Worms(l)]
    BY <2>1, TaskNames DEF Progress
  <2>. QED BY <2>1, <2>2 DEF DrawnByOwner
<1>3. CASE UNCHANGED <<next, drawn>>
  BY <1>3 DEF DrawnByOwner
<1>4. CASE Start \/ PutWorms \/ PutBlur \/ MainOther \/ StartTask \/ UNCHANGED vars
  BY <1>3, <1>4, MainOtherPool DEF Start, PutWorms, PutBlur, PutTask, StartTask, vars, taskVars
<1>5. ASSUME NEW k \in Parts, EndTask(k)
      PROVE  DrawnByOwner'
  BY <1>3, <1>5 DEF EndTask, taskVars
<1>. QED BY <1>1, <1>2, <1>4, <1>5, Steps

(* Rows stay as they were blurred: the source has changed for the last     *)
(* time, and a file is written when its image has.                         *)
LEMMA RowsStep ==
  ASSUME TypeOK, PoolKept, Batches, Progress, RowsBlurred, [Next]_vars
  PROVE  RowsBlurred'
<1>1. ASSUME mpc \in {"start"} \cup Drawing, mpc' \in {"start", "failed"} \cup Drawing,
             UNCHANGED <<fileVars, dest_image>>,
             \A k \in Parts : next'[Blur(k)] = next[Blur(k)]
      PROVE  RowsBlurred'
  <2>1. /\ input_ppm' = NoFile /\ output_ppm' = NoFile
        /\ \A k \in Parts : next'[Blur(k)] = PartStart(H, k)
    BY <1>1 DEF RowsBlurred, Progress, Drawing, After, fileVars
  <2>2. \A k \in Parts : PartStart(H, k) .. PartStart(H, k) - 1 = {}
    BY PartBounds, BlurAssumption
  <2>. QED BY <2>1, <2>2 DEF RowsBlurred, NoFile
<1>2. CASE Start
  <2>1. /\ UNCHANGED <<fileVars, dest_image, next>>
        /\ mpc = "start" /\ mpc' \in {"worms", "failed"}
    BY <1>2 DEF Start, MainGoto
  <2>. QED BY <1>1, <2>1 DEF Drawing
<1>3. ASSUME NEW k \in Parts, WormStep(k)
      PROVE  RowsBlurred'
  <2>1. /\ UNCHANGED <<fileVars, dest_image>> /\ mpc \in Drawing /\ mpc' = mpc
        /\ next' = [next EXCEPT ![Worms(k)] = next'[Worms(k)]]
    <3>1. \E m : next' = [next EXCEPT ![Worms(k)] = m]
      BY <1>3 DEF WormStep
    <3>2. Worms(k) \in Task /\ next \in [Task -> Nat]
      BY TaskNames DEF Progress
    <3>. QED BY <1>3, <3>1, <3>2, WhenActive DEF WormStep
  <2>2. \A l \in Parts : next'[Blur(l)] = next[Blur(l)]
    BY <2>1, TaskNames DEF Progress
  <2>. QED BY <1>1, <2>1, <2>2
<1>4. ASSUME NEW k \in Parts, BlurRow(k)
      PROVE  RowsBlurred'
  <2>. DEFINE row == next[Blur(k)]
  <2>1. /\ UNCHANGED <<fileVars, src_image, mpc>> /\ mpc \in Blurring
        /\ next' = [next EXCEPT ![Blur(k)] = row + 1] /\ row \in Nat
        /\ dest_image' = [q \in Pixels |-> IF q[2] = row THEN Blurred(src_image, q)
                                                         ELSE dest_image[q]]
    BY <1>4, WhenActive, TaskNames DEF BlurRow, Progress
  <2>2. /\ output_ppm = NoFile /\ output_ppm' = NoFile
        /\ input_ppm' = input_ppm /\ mpc \notin {"start"} \cup Drawing
    BY <2>1 DEF RowsBlurred, Blurring, After, Drawing, fileVars
  <2>3. ASSUME NEW l \in Parts, NEW q \in Pixels,
               q[2] \in PartStart(H, l) .. next'[Blur(l)] - 1
        PROVE  dest_image'[q] = Blurred(src_image, q)
    <3>1. CASE q[2] = row
      BY <2>1, <3>1
    <3>2. CASE q[2] # row
      <4>1. q[2] \in Int /\ PartStart(H, l) \in Nat /\ next[Blur(l)] \in Nat
        BY PartBounds, BlurAssumption, TaskNames DEF Pixels, Progress
      <4>2. next'[Blur(l)] = IF l = k THEN row + 1 ELSE next[Blur(l)]
        BY <2>1, TaskNames DEF Progress
      <4>3. q[2] \in PartStart(H, l) .. next[Blur(l)] - 1
        BY <2>1, <2>3, <3>2, <4>1, <4>2
      <4>4. dest_image[q] = Blurred(src_image, q)
        BY <4>3 DEF RowsBlurred
      <4>. QED BY <2>1, <3>2, <4>4
    <3>. QED BY <3>1, <3>2
  <2>. QED BY <2>1, <2>2, <2>3 DEF RowsBlurred, NoFile
<1>5. CASE PutWorms \/ PutBlur
  <2>1. /\ UNCHANGED <<fileVars, src_image, dest_image, next>>
        /\ \/ mpc = "worms" /\ mpc' \in {"worms", "wait1"}
           \/ mpc = "blur" /\ mpc' \in {"blur", "wait2"}
    BY <1>5 DEF PutWorms, PutBlur, PutTask, MainGoto, taskVars
  <2>. QED BY <2>1 DEF RowsBlurred, fileVars, Drawing, After
<1>6. CASE MainOther
  <2>1. UNCHANGED <<src_image, dest_image, next>>
    BY <1>6, MainOtherPool DEF taskVars
  <2>2. \/ SaveInput \/ SaveOutput
        \/ UNCHANGED fileVars /\ mpc # "save1" /\ mpc # "save2"
    BY <1>6 DEF MainOther, CallWait, ReturnWait, TestPool,
         FreeImages, BeginDestroy, EndDestroy, MainGoto
  <2>3. CASE SaveInput
    <3>1. /\ input_ppm' \in {NoFile, {src_image}} /\ output_ppm' = output_ppm
          /\ mpc = "save1" /\ mpc' = "test"
      BY <2>3 DEF SaveInput, Saved, MainGoto
    <3>. QED BY <2>1, <3>1 DEF RowsBlurred, Drawing, After, NoFile
  <2>4. CASE SaveOutput
    <3>1. /\ output_ppm' \in {NoFile, {dest_image}} /\ input_ppm' = input_ppm
          /\ mpc = "save2" /\ mpc' = "free"
      BY <2>4 DEF SaveOutput, Saved, MainGoto
    <3>. QED BY <2>1, <3>1 DEF RowsBlurred, Drawing, After, NoFile
  <2>5. CASE UNCHANGED fileVars /\ mpc # "save1" /\ mpc # "save2"
    BY <1>6, <2>1, <2>5, MainOtherMoves DEF RowsBlurred, MainGoto, fileVars, Drawing, After
  <2>. QED BY <2>2, <2>3, <2>4, <2>5
<1>7. CASE UNCHANGED <<fileVars, src_image, dest_image, next, mpc>>
  BY <1>7 DEF RowsBlurred, fileVars
<1>8. CASE StartTask \/ UNCHANGED vars
  BY <1>7, <1>8 DEF StartTask, vars, taskVars
<1>9. ASSUME NEW k \in Parts, EndTask(k)
      PROVE  RowsBlurred'
  BY <1>7, <1>9 DEF EndTask, taskVars
<1>. QED BY <1>2, <1>3, <1>4, <1>5, <1>6, <1>8, <1>9, Steps

(* The images are there until main frees them, at its very end.            *)
LEMMA ImagesStep ==
  ASSUME ImagesKept, [Next]_vars
  PROVE  ImagesKept'
<1>1. CASE Start
  BY <1>1 DEF Start, MainGoto, ImagesKept
<1>2. CASE PutWorms \/ PutBlur
  BY <1>2 DEF PutWorms, PutBlur, PutTask, MainGoto, ImagesKept
<1>3. CASE MainOther
  <2>1. images' = images \/ mpc' = "destroy"
    BY <1>3 DEF MainOther, CallWait, ReturnWait, SaveInput, TestPool, SaveOutput,
         FreeImages, BeginDestroy, EndDestroy, MainGoto
  <2>. QED BY <1>3, <2>1, MainOtherMoves DEF ImagesKept, MainGoto
<1>4. CASE UNCHANGED <<images, mpc>>
  BY <1>4 DEF ImagesKept
<1>5. CASE StartTask \/ UNCHANGED vars
  BY <1>4, <1>5 DEF StartTask, vars
<1>6. ASSUME NEW k \in Parts, WormStep(k) \/ BlurRow(k) \/ EndTask(k)
      PROVE  ImagesKept'
  BY <1>4, <1>6 DEF WormStep, BlurRow, EndTask
<1>. QED BY <1>1, <1>2, <1>3, <1>5, <1>6, Steps

-----------------------------------------------------------------------------
(* Types.                                                                  *)

(* An average lies where what it is taken of lies.                         *)
LEMMA Average ==
  ASSUME NEW s \in Nat, NEW c \in Nat \ {0}, NEW b \in Nat, s <= b * c
  PROVE  s \div c \in 0 .. b
<1>. DEFINE a == s \div c
<1>1. a \in Nat /\ a * c <= s
  OBVIOUS
<1>. HIDE DEF a
<1>2. SUFFICES ASSUME b + 1 <= a PROVE FALSE
  BY <1>1 DEF a
<1>3. (b + 1) * c <= a * c
  BY <1>1, <1>2, Times
<1>4. (b + 1) * c = b * c + c
  OBVIOUS
<1>. QED BY <1>1, <1>3, <1>4

(* What is blurred is a colour again.                                      *)
LEMMA BlurredRange ==
  ASSUME NEW img \in [Pixels -> {Black, White}], NEW q \in Pixels
  PROVE  Blurred(img, q) \in Black .. White
<1>. DEFINE near == {s \in Pixels : /\ s[1] - q[1] \in -KernelHalf .. KernelHalf
                                    /\ s[2] - q[2] \in -KernelHalf .. KernelHalf}
<1>1. IsFiniteSet(Pixels)
  <2>1. IsFiniteSet(0 .. W - 1) /\ IsFiniteSet(0 .. H - 1)
    <3>1. W - 1 \in Int /\ H - 1 \in Int
      BY BlurAssumption
    <3>. QED BY <3>1, FS_Interval
  <2>. QED BY <2>1, FS_Product DEF Pixels
<1>2. IsFiniteSet(near) /\ Cardinality(near) \in Nat
  BY <1>1, FS_Subset, FS_CardinalityType
<1>3. q \in near
  BY BlurAssumption DEF Pixels
<1>4. Cardinality(near) # 0
  BY <1>2, <1>3, FS_EmptySet
<1>5. \A s \in near : img[s] \in 0 .. 255
  BY DEF Black, White
<1>6. Blurred(img, q) = Total(img, near) \div Cardinality(near)
  BY DEF Blurred, Total
<1>. HIDE DEF near
<1>7. Total(img, near) \in 0 .. 255 * Cardinality(near)
  BY <1>2, <1>5, TotalBound
<1>8. Total(img, near) \div Cardinality(near) \in 0 .. 255
  <2>1. /\ Total(img, near) \in Nat /\ Total(img, near) <= 255 * Cardinality(near)
        /\ Cardinality(near) \in Nat \ {0} /\ 255 \in Nat
    BY <1>2, <1>4, <1>7
  <2>. QED BY <2>1, Average
<1>. QED BY <1>6, <1>8 DEF Black, White

(* A coordinate that a step takes out of the image comes back into it.     *)
LEMMA WrapInside ==
  ASSUME NEW n \in Nat \ {0}, NEW x \in 0 .. n - 1, NEW d \in Drift
  PROVE  Wrap(x + d, n) \in 0 .. n - 1
BY DEF Wrap, Drift

\* What a step of a worm from a position does to the image and to the worm.
WormDrawn(k, from, dx, dy) ==
  /\ \E c \in {from[1] + dx, Max({from[1] + dx, 0})} \X {from[2] + dy, Max({from[2] + dy, 0})} :
       src_image' = [q \in Pixels |-> IF q \in Disc(c) THEN Black ELSE src_image[q]]
  /\ worm' = [worm EXCEPT ![Worms(k)] = IF j[Worms(k)] + 1 = WormLength THEN <<0, 0>>
                                        ELSE <<Wrap(from[1] + dx, W), Wrap(from[2] + dy, H)>>]

(* Each step of a worm is of that form.                                    *)
LEMMA WormDraws ==
  ASSUME NEW k \in Parts, WormStep(k)
  PROVE  \E from \in (IF j[Worms(k)] = 0 THEN Pixels ELSE {worm[Worms(k)]}),
            dx \in Drift, dy \in Drift : WormDrawn(k, from, dx, dy)
BY Zenon DEF WormStep, WormDrawn

(* A worm stays on the image and its steps are counted below WormLength.   *)
LEMMA WormStays ==
  ASSUME TypeOK, NEW k \in Parts, WormStep(k)
  PROVE  \A t \in Task : worm'[t] \in Pixels /\ j'[t] \in 0 .. WormLength - 1
<1>. DEFINE t == Worms(k)
<1>1. t \in Task /\ worm[t] \in Pixels /\ j[t] \in 0 .. WormLength - 1
  BY TaskNames DEF TypeOK
<1>2. W \in Nat \ {0} /\ H \in Nat \ {0} /\ WormLength \in Nat \ {0}
  BY BlurAssumption
<1>3. PICK from \in Pixels, dx \in Drift, dy \in Drift :
        worm' = [worm EXCEPT ![t] = IF j[t] + 1 = WormLength THEN <<0, 0>>
                                    ELSE <<Wrap(from[1] + dx, W), Wrap(from[2] + dy, H)>>]
  <2>1. PICK from \in (IF j[t] = 0 THEN Pixels ELSE {worm[t]}), dx \in Drift, dy \in Drift :
          WormDrawn(k, from, dx, dy)
    BY WormDraws
  <2>. QED BY <1>1, <2>1 DEF WormDrawn
<1>4. /\ <<Wrap(from[1] + dx, W), Wrap(from[2] + dy, H)>> \in Pixels
      /\ <<0, 0>> \in Pixels
  BY <1>2, WrapInside DEF Pixels
<1>5. j' = [j EXCEPT ![t] = IF j[t] + 1 = WormLength THEN 0 ELSE j[t] + 1]
  BY DEF WormStep
<1>. HIDE DEF t
<1>6. \A u \in Task : worm'[u] \in Pixels
  BY <1>3, <1>4 DEF TypeOK
<1>7. \A u \in Task : j'[u] \in 0 .. WormLength - 1
  BY <1>1, <1>2, <1>5 DEF TypeOK
<1>. QED BY <1>6, <1>7

(* The types are kept by each step.                                        *)
LEMMA TypeStep ==
  ASSUME TypeOK, PoolKept, Batches, Progress, [Next]_vars
  PROVE  TypeOK'
<1>1. CASE Start
  <2>1. src_image' = src_image \/ src_image' = [q \in Pixels |-> White]
    BY <1>1 DEF Start
  <2>2. src_image' \in [Pixels -> {Black, White}]
    BY <2>1 DEF TypeOK
  <2>3. /\ mpc' \in {"worms", "failed"} /\ pool_ok' \in BOOLEAN /\ images' \in {images, TRUE}
        /\ UNCHANGED <<i, dest_image, worm, j>>
    BY <1>1 DEF Start, MainGoto
  <2>. QED BY <2>2, <2>3 DEF TypeOK
<1>2. CASE PutWorms \/ PutBlur
  <2>1. /\ mpc' \in {"worms", "wait1", "blur", "wait2"}
        /\ i' = 0 \/ (i < NumThreads /\ i' = i + 1)
        /\ UNCHANGED <<pool_ok, images, src_image, dest_image, worm, j>>
    BY <1>2 DEF PutWorms, PutBlur, PutTask, MainGoto, taskVars
  <2>2. i' \in 0 .. NumThreads
    BY <2>1, BlurAssumption DEF TypeOK
  <2>. QED BY <2>1, <2>2 DEF TypeOK
<1>3. CASE MainOther
  <2>1. /\ UNCHANGED <<pool_ok, i, src_image, dest_image, worm, j>>
    BY <1>3, MainOtherPool, MainOtherMoves DEF taskVars
  <2>2. images' \in {images, FALSE}
    BY <1>3 DEF MainOther, CallWait, ReturnWait, SaveInput, TestPool, SaveOutput,
         FreeImages, BeginDestroy, EndDestroy
  <2>3. mpc' \in {"waiting1", "save1", "waiting2", "save2", "test", "blur", "failed",
                  "free", "destroy", "join", "done"}
    BY <1>3, MainOtherMoves DEF MainGoto
  <2>. QED BY <2>1, <2>2, <2>3 DEF TypeOK
<1>4. ASSUME NEW k \in Parts, WormStep(k)
      PROVE  TypeOK'
  <2>1. PICK from \in (IF j[Worms(k)] = 0 THEN Pixels ELSE {worm[Worms(k)]}),
             dx \in Drift, dy \in Drift : WormDrawn(k, from, dx, dy)
    BY <1>4, WormDraws
  <2>2. PICK c : src_image' = [q \in Pixels |-> IF q \in Disc(c) THEN Black ELSE src_image[q]]
    BY <2>1 DEF WormDrawn
  <2>3. src_image' \in [Pixels -> {Black, White}]
    BY <2>2 DEF TypeOK
  <2>4. UNCHANGED <<mpc, pool_ok, i, images, dest_image>>
    BY <1>4 DEF WormStep
  <2>. QED BY <1>4, <2>3, <2>4, WormStays DEF TypeOK
<1>5. ASSUME NEW k \in Parts, BlurRow(k)
      PROVE  TypeOK'
  <2>1. /\ UNCHANGED <<mpc, pool_ok, i, images, src_image, worm, j>>
        /\ dest_image' = [q \in Pixels |-> IF q[2] = next[Blur(k)] THEN Blurred(src_image, q)
                                                                   ELSE dest_image[q]]
    BY <1>5 DEF BlurRow
  <2>2. \A q \in Pixels : Blurred(src_image, q) \in Black .. White
    BY BlurredRange DEF TypeOK
  <2>3. dest_image' \in [Pixels -> Black .. White]
    BY <2>1, <2>2 DEF TypeOK
  <2>. QED BY <2>1, <2>3 DEF TypeOK
<1>6. CASE UNCHANGED <<mpc, pool_ok, i, images, src_image, dest_image, worm, j>>
  BY <1>6 DEF TypeOK
<1>7. CASE StartTask \/ UNCHANGED vars
  BY <1>6, <1>7 DEF StartTask, vars, taskVars
<1>8. ASSUME NEW k \in Parts, EndTask(k)
      PROVE  TypeOK'
  BY <1>6, <1>8 DEF EndTask, taskVars
<1>. QED BY <1>1, <1>2, <1>3, <1>4, <1>5, <1>7, <1>8, Steps

-----------------------------------------------------------------------------
(* The theorems.                                                           *)

(* The invariant holds at the start.                                       *)
LEMMA InvInit == Init => IInv
<1>. SUFFICES ASSUME Init PROVE IInv
  OBVIOUS
<1>1. TypeOK
  <2>1. {NumThreads, W, H, WormLength} \subseteq Nat \ {0}
    BY BlurAssumption
  <2>2. <<0, 0>> \in Pixels /\ 0 \in 0 .. WormLength - 1 /\ 0 \in 0 .. NumThreads
    BY <2>1 DEF Pixels
  <2>3. /\ src_image \in [Pixels -> {Black, White}] /\ dest_image \in [Pixels -> Black .. White]
        /\ \A t \in Task : worm[t] \in Pixels /\ j[t] \in 0 .. WormLength - 1
    BY <2>2 DEF Init, Black, White
  <2>4. mpc = "start" /\ pool_ok = FALSE /\ images = FALSE /\ i = 0
    BY DEF Init
  <2>. QED BY <2>2, <2>3, <2>4 DEF TypeOK
<1>2. PoolKept /\ Batches /\ Pending = {}
  <2>1. accepted = {} /\ backlog = <<>> /\ active = {} /\ finished = {}
    BY DEF Init, Pool!Init
  <2>2. backlog \in Seq(Task) /\ Range(backlog) = {}
    BY <2>1 DEF Range
  <2>3. PoolKept /\ Pending = {}
    BY <2>1, <2>2 DEF PoolKept, Pending
  <2>. QED BY <2>1, <2>3 DEF Init, Batches, Drawing, Between, Blurring, After
<1>3. Progress
  <2>1. next = [t \in Task |-> PartStart(Share(t), t[2])] /\ finished = {} /\ mpc = "start"
    BY DEF Init, Pool!Init, Share
  <2>2. \A t \in Task : /\ PartStart(Share(t), t[2]) \in Nat
                        /\ PartStart(Share(t), t[2])
                             \in PartStart(Share(t), t[2]) .. PartEnd(Share(t), t[2])
    <3>1. ASSUME NEW t \in Task
          PROVE  PartStart(Share(t), t[2]) <= PartEnd(Share(t), t[2])
      BY PartBounds, ShareBounds DEF Task, Parts
    <3>. QED BY <3>1, ShareBounds
  <2>. QED BY <2>1, <2>2, TaskNames DEF Progress, Drawing, Between, Blurring, After
<1>4. DrawnByOwner
  <2>1. \A k \in Parts : next[Worms(k)] = PartStart(NumWorms, k)
    BY TaskNames DEF Init, Share
  <2>2. drawn = [w \in 0 .. NumWorms - 1 |-> 0]
    BY DEF Init
  <2>3. ASSUME NEW k \in Parts, NEW w \in PartStart(NumWorms, k) .. PartEnd(NumWorms, k) - 1
        PROVE  ~ (w < PartStart(NumWorms, k))
    BY PartBounds, BlurAssumption
  <2>. QED BY <2>1, <2>2, <2>3 DEF DrawnByOwner
<1>5. RowsBlurred
  <2>1. \A k \in Parts : next[Blur(k)] = PartStart(H, k)
    BY TaskNames DEF Init, Share
  <2>2. \A k \in Parts : PartStart(H, k) .. PartStart(H, k) - 1 = {}
    BY PartBounds, BlurAssumption
  <2>. QED BY <2>1, <2>2 DEF Init, RowsBlurred, NoFile, Drawing, After
<1>. QED BY <1>1, <1>2, <1>3, <1>4, <1>5 DEF Init, ImagesKept, IInv

(* The invariant is inductive.                                             *)
LEMMA InvAlways == Spec => []IInv
<1>1. IInv /\ [Next]_vars => IInv'
  BY TypeStep, BatchesStep, ProgressStep, DrawnStep, RowsStep, ImagesStep DEF IInv
<1>. QED BY <1>1, InvInit, PTL DEF Spec

(* main is where its labels say, every pixel has one of the colours its    *)
(* image may have, and no worm leaves the image, however it drifts.        *)
THEOREM Typing == Spec => []TypeOK
<1>1. IInv => TypeOK
  BY DEF IInv
<1>. QED BY <1>1, InvAlways, PTL

(* Each worm is drawn exactly once by the time the first batch is waited   *)
(* for, however many tasks share them (image_blurring_multithreaded.c:     *)
(* 307-317).                                                               *)
THEOREM WormsDrawn == Spec => []EveryWormOnce
<1>1. IInv => EveryWormOnce
  <2>. SUFFICES ASSUME IInv, pool_ok, mpc \in {"save1", "test", "blur"},
                       NEW w \in 0 .. NumWorms - 1
                PROVE  drawn[w] = 1
    BY DEF EveryWormOnce, IInv, DrawnByOwner
  <2>1. PICK k \in Parts : w \in PartStart(NumWorms, k) .. PartEnd(NumWorms, k) - 1
    BY PartsCover, BlurAssumption
  <2>2. next[Worms(k)] = PartEnd(NumWorms, k) /\ PartEnd(NumWorms, k) \in Nat
    BY PartBounds, BlurAssumption DEF IInv, Progress, Between, Blurring, After
  <2>3. w < next[Worms(k)]
    BY <2>1, <2>2
  <2>. QED BY <2>1, <2>3 DEF IInv, DrawnByOwner
<1>. QED BY <1>1, InvAlways, PTL

(* The blurred file is the serial blur of the input file, pixel by pixel,  *)
(* whichever task blurred which row and in whatever order.                 *)
THEOREM SerialResult == Spec => []OutputIsSerial
<1>1. IInv => OutputIsSerial
  <2>. SUFFICES ASSUME IInv, NEW out \in output_ppm, NEW in \in input_ppm, NEW q \in Pixels
                PROVE  out[q] = Blurred(in, q)
    BY DEF OutputIsSerial
  <2>1. out = dest_image /\ in = src_image /\ mpc \in After
    BY DEF IInv, RowsBlurred, NoFile
  <2>2. q[2] \in 0 .. H - 1
    BY DEF Pixels
  <2>3. PICK k \in Parts : q[2] \in PartStart(H, k) .. PartEnd(H, k) - 1
    BY <2>2, PartsCover, BlurAssumption
  <2>4. next[Blur(k)] = PartEnd(H, k)
    BY <2>1 DEF IInv, Progress
  <2>. QED BY <2>1, <2>3, <2>4 DEF IInv, RowsBlurred
<1>. QED BY <1>1, InvAlways, PTL

(* The images are freed before the pool is destroyed, but never while a    *)
(* task that would use them is queued or running.                          *)
THEOREM ImagesSafe == Spec => []FreedImagesUnused
<1>1. IInv => FreedImagesUnused
  <2>. SUFFICES ASSUME IInv, ~images
                PROVE  Pending = {}
    BY IdleEmpty DEF FreedImagesUnused, IInv
  <2>1. mpc \in {"start", "failed"} => accepted = {}
    BY DEF IInv, Batches
  <2>2. mpc \in After => Pending = {}
    BY DEF IInv, Batches
  <2>. QED BY <2>1, <2>2 DEF IInv, ImagesKept, After, PoolKept
<1>. QED BY <1>1, InvAlways, PTL
=============================================================================

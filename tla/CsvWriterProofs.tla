---------------------------- MODULE CsvWriterProofs ----------------------------
(***************************************************************************)
(* Proofs about CsvWriter, for any number of lines of any lengths, any     *)
(* size of the chunks and any pool.                                        *)
(***************************************************************************)
EXTENDS CsvWriter, ExampleLemmas

Chunks == 0 .. num_tasks - 1
Chunk(k) == StartLine(k) .. EndLine(k) - 1

\* What main does while the first, and while the second batch may run; and
\* before, between and after that.
Generating == {"generate", "wait1", "waiting1"}
Between == {"sort", "offsets", "open"}
Writing == {"write", "wait2", "waiting2"}
After == {"destroy", "join", "done"}

\* The accepted tasks that have not ended.
Pending == Range(backlog) \cup active

(* The pool has what was accepted and not finished.                        *)
PoolKept ==
  /\ backlog \in Seq(Task) /\ active \subseteq Task /\ finished \subseteq Task
  /\ accepted = Pending \cup finished

(* What has been put, in order, and what the waits have seen the end of.   *)
Batches ==
  /\ mpc = "start" => ~pool_ok
  /\ ~pool_ok => accepted = {}
  /\ mpc \in Generating => accepted \subseteq {Gen(k) : k \in Chunks}
  /\ mpc \in Writing => Pending \subseteq {Wr(k) : k \in Chunks}
  /\ mpc \notin Generating \cup Writing => Pending = {}
  /\ mpc \in Writing \cup After => pool_ok
  /\ i \in 0 .. num_tasks /\ (mpc \notin {"generate", "write"} => i = 0)
  /\ mpc # "start" /\ mpc # "failed" => num_lines > 0
  /\ pool_ok =>
       /\ mpc = "generate" => \A k \in 0 .. i - 1 : Gen(k) \in accepted
       /\ mpc \in {"wait1", "waiting1"} => \A k \in Chunks : Gen(k) \in accepted
       /\ mpc \in Between \cup Writing \cup After => \A k \in Chunks : Gen(k) \in finished
       /\ mpc = "write" => \A k \in 0 .. i - 1 : Wr(k) \in accepted
       /\ mpc \in {"wait2", "waiting2"} => \A k \in Chunks : Wr(k) \in accepted
       /\ mpc \in After => \A k \in Chunks : Wr(k) \in finished

Lens == [l \in Index |-> generated[l].length]

\* The line l is there.
Made(l) == generated[l].lineno = l + 1 /\ generated[l].length \in Lengths

(* How far the tasks are: what each has added up is the length of the part *)
(* of its chunk that lies behind it.                                       *)
Progress ==
  /\ at \in [Task -> Nat] /\ total \in [Task -> Int]
  /\ \A t \in Task : t[2] \in Chunks =>
       /\ at[t] \in StartLine(t[2]) .. EndLine(t[2])
       /\ total[t] = Total(Lens, StartLine(t[2]) .. at[t] - 1)
       /\ t \in finished => at[t] = EndLine(t[2])
  /\ \A k \in Chunks : ~pool_ok => at[Gen(k)] = StartLine(k)
  /\ \A k \in Chunks : mpc \notin Writing \cup After => at[Wr(k)] = StartLine(k)

(* The lines behind a task of the first batch are there, the others are    *)
(* not.                                                                    *)
LinesMade ==
  /\ generated \in [Index -> {NullLine} \cup [lineno : 1 .. num_lines, length : Lengths]]
  /\ \A k \in Chunks : \A l \in Chunk(k) :
       IF l < at[Gen(k)] THEN Made(l) ELSE generated[l] = NullLine

(* The offsets are the lengths of the chunks, and then those of everything *)
(* up to the end of a chunk.                                               *)
OffsetsRight ==
  /\ offsets \in [Chunks -> Nat]
  /\ mpc \in {"start", "sort", "offsets"} \cup Generating => \A k \in Chunks :
       offsets[k] = IF Gen(k) \in finished THEN Total(Lens, Chunk(k)) ELSE 0
  /\ mpc \in {"open"} \cup Writing \cup After => \A k \in Chunks :
       offsets[k] = Total(Lens, 0 .. EndLine(k) - 1)

(* The lines behind a task of the second batch are where they belong.      *)
LinesWritten ==
  mpc \in Writing \cup After =>
    /\ DOMAIN file = 0 .. Total(Lens, Index) - 1
    /\ \A k \in Chunks : \A l \in StartLine(k) .. at[Wr(k)] - 1 : \A p \in 0 .. Lens[l] - 1 :
         file[Total(Lens, 0 .. l - 1) + p] = <<l + 1, p>>

\* What has the right type for every place of main.
Places ==
  /\ mpc \in {"start", "failed", "crashed"} \cup Generating \cup Between \cup Writing \cup After
  /\ num_lines \in 0 .. MaxLines /\ pool_ok \in BOOLEAN

IInv == Places /\ PoolKept /\ Batches /\ Progress /\ LinesMade /\ OffsetsRight /\ LinesWritten

-----------------------------------------------------------------------------
(* Chunks of lines.                                                        *)

(* The tasks are just enough for the lines.                                *)
LEMMA TaskCount ==
  ASSUME Places
  PROVE  /\ num_lines \in Nat /\ num_tasks \in Nat /\ num_tasks <= num_lines
         /\ num_lines <= MaxLines /\ MaxLines \in Nat
         /\ num_lines <= Fac * num_tasks
         /\ Fac * (num_tasks - 1) < num_lines \/ num_tasks = 0
<1>1. num_lines \in Nat /\ Fac \in Nat \ {0} /\ num_lines <= MaxLines /\ MaxLines \in Nat
  BY WriterAssumption DEF Places
<1>. DEFINE q == num_lines \div Fac
            r == num_lines % Fac
<1>2. q \in Nat /\ r \in 0 .. Fac - 1 /\ num_lines = Fac * q + r
  BY <1>1
<1>3. num_tasks = IF r = 0 THEN q ELSE q + 1
  BY <1>2 DEF num_tasks
<1>. HIDE DEF q, r
<1>4. q <= Fac * q /\ Fac * q \in Nat
  BY <1>1, <1>2
<1>5. Fac * (q + 1) = Fac * q + Fac /\ Fac * (q - 1) = Fac * q - Fac
  BY <1>1, <1>2
<1>6. CASE r = 0
  <2>1. num_tasks = q
    BY <1>3, <1>6
  <2>2. q = 0 \/ Fac * (q - 1) < num_lines
    BY <1>1, <1>2, <1>4, <1>5, <1>6
  <2>. QED BY <1>1, <1>2, <1>4, <1>6, <2>1, <2>2
<1>7. CASE r # 0
  <2>1. num_tasks = q + 1 /\ num_tasks - 1 = q
    BY <1>2, <1>3, <1>7
  <2>. QED BY <1>1, <1>2, <1>4, <1>5, <1>7, <2>1
<1>. QED BY <1>6, <1>7

(* The smaller of two numbers.                                             *)
LEMMA MinOfTwo ==
  ASSUME NEW a \in Int, NEW b \in Int
  PROVE  Min({a, b}) = IF a <= b THEN a ELSE b
BY DEF Min

(* A chunk has a line and lies within the lines; the next one begins where *)
(* it ends, and the last one ends with the lines.                          *)
LEMMA ChunkBounds ==
  ASSUME Places, NEW k \in Chunks
  PROVE  /\ k \in Nat /\ k <= MaxLines
         /\ StartLine(k) \in Nat /\ EndLine(k) \in Nat
         /\ StartLine(k) < EndLine(k) /\ EndLine(k) <= num_lines
         /\ k + 1 \in Chunks => EndLine(k) = StartLine(k + 1)
         /\ k = num_tasks - 1 => EndLine(k) = num_lines
<1>1. /\ k \in Nat /\ k <= num_tasks - 1 /\ num_tasks \in Nat /\ num_lines \in Nat
      /\ num_tasks <= MaxLines /\ MaxLines \in Nat
      /\ Fac \in Nat \ {0} /\ num_lines <= Fac * num_tasks
      /\ Fac * (num_tasks - 1) < num_lines
  BY TaskCount, WriterAssumption DEF Chunks
<1>2. k * Fac <= (num_tasks - 1) * Fac /\ k * Fac \in Nat
  BY <1>1, Times
<1>3. Fac * (k + 1) = Fac * k + Fac /\ Fac * (k + 1) \in Nat
  BY <1>1
<1>4. EndLine(k) = IF Fac * (k + 1) <= num_lines THEN Fac * (k + 1) ELSE num_lines
  BY <1>1, <1>3, MinOfTwo DEF EndLine
<1>5. Fac * k < num_lines
  BY <1>1, <1>2
<1>6. k + 1 \in Chunks => Fac * (k + 1) < num_lines
  <2>. SUFFICES ASSUME k + 1 \in Chunks PROVE Fac * (k + 1) < num_lines
    OBVIOUS
  <2>1. (k + 1) * Fac <= (num_tasks - 1) * Fac
    BY <1>1, Times DEF Chunks
  <2>. QED BY <1>1, <2>1
<1>7. k = num_tasks - 1 => num_lines <= Fac * (k + 1)
  BY <1>1
<1>. QED BY <1>1, <1>2, <1>3, <1>4, <1>5, <1>6, <1>7 DEF StartLine

(* The first chunk begins with the lines.                                  *)
LEMMA FirstChunk == StartLine(0) = 0
BY WriterAssumption DEF StartLine

(* A chunk ends before a later one begins.                                 *)
LEMMA ChunksApart ==
  ASSUME Places, NEW k \in Chunks, NEW l \in Chunks, k < l
  PROVE  EndLine(k) <= StartLine(l)
<1>1. k \in Nat /\ l \in Nat /\ Fac \in Nat \ {0} /\ k + 1 <= l /\ num_lines \in Nat
  BY TaskCount, WriterAssumption DEF Chunks
<1>2. (k + 1) * Fac <= l * Fac /\ (k + 1) * Fac \in Nat /\ l * Fac \in Nat
  BY <1>1, Times
<1>3. EndLine(k) <= Fac * (k + 1)
  BY <1>1, <1>2, MinOfTwo DEF EndLine
<1>4. EndLine(k) \in Nat
  BY ChunkBounds
<1>. QED BY <1>1, <1>2, <1>3, <1>4 DEF StartLine

(* Every line is in one chunk.                                             *)
LEMMA ChunksCover ==
  ASSUME Places, NEW l \in Index
  PROVE  \E k \in Chunks : l \in Chunk(k)
<1>1. /\ l \in Nat /\ l < num_lines /\ num_lines \in Nat /\ Fac \in Nat \ {0}
      /\ num_tasks \in Nat /\ num_lines <= Fac * num_tasks
  BY TaskCount, WriterAssumption DEF Index
<1>. DEFINE k == l \div Fac
<1>2. k \in Nat /\ Fac * k <= l /\ l < Fac * (k + 1)
  BY <1>1
<1>. HIDE DEF k
<1>3. k < num_tasks
  <2>1. SUFFICES ASSUME num_tasks <= k PROVE FALSE
    BY <1>1, <1>2
  <2>2. num_tasks * Fac <= k * Fac /\ num_tasks * Fac \in Nat /\ k * Fac \in Nat
    BY <1>1, <1>2, <2>1, Times
  <2>. QED BY <1>1, <1>2, <2>2
<1>4. k \in Chunks
  BY <1>1, <1>2, <1>3 DEF Chunks
<1>5. Fac * (k + 1) \in Nat
  BY <1>1, <1>2
<1>6. EndLine(k) = IF Fac * (k + 1) <= num_lines THEN Fac * (k + 1) ELSE num_lines
  BY <1>1, <1>5, MinOfTwo DEF EndLine
<1>7. l \in Chunk(k)
  <2>1. l < EndLine(k) /\ EndLine(k) \in Nat
    BY <1>1, <1>2, <1>5, <1>6
  <2>2. StartLine(k) <= l /\ StartLine(k) \in Nat
    BY <1>2, <1>4, ChunkBounds DEF StartLine
  <2>. QED BY <1>1, <2>1, <2>2 DEF Chunk
<1>. QED BY <1>4, <1>7

(* The tasks are named apart.                                              *)
LEMMA TaskNames ==
  ASSUME Places
  PROVE  /\ \A k \in Chunks : Gen(k) \in Task /\ Gen(k)[2] = k
         /\ \A k \in Chunks : Wr(k) \in Task /\ Wr(k)[2] = k
         /\ \A k, l : Gen(k) # Wr(l) /\ (Gen(k) = Gen(l) => k = l) /\ (Wr(k) = Wr(l) => k = l)
         /\ \A t \in Task : t = Gen(t[2]) \/ t = Wr(t[2])
<1>1. \A k \in Chunks : k \in 0 .. MaxLines
  <2>. TAKE k \in Chunks
  <2>1. k \in Nat /\ k <= MaxLines /\ MaxLines \in Nat
    BY ChunkBounds, WriterAssumption
  <2>. QED BY <2>1
<1>. QED BY <1>1 DEF Task, Gen, Wr

-----------------------------------------------------------------------------
(* Sums of lengths.                                                        *)

(* A length is a natural number.                                           *)
LEMMA LensNat ==
  ASSUME LinesMade
  PROVE  \A l \in Index : Lens[l] \in Nat /\ Lens[l] = generated[l].length
<1>1. \A l \in Index : generated[l] \in {NullLine} \cup [lineno : 1 .. num_lines, length : Lengths]
  BY DEF LinesMade
<1>2. Lengths \subseteq Nat
  BY WriterAssumption
<1>3. \A l \in Index : generated[l].length \in Nat
  <2>. TAKE l \in Index
  <2>1. CASE generated[l] = NullLine
    BY <2>1 DEF NullLine
  <2>2. CASE generated[l] \in [lineno : 1 .. num_lines, length : Lengths]
    BY <1>2, <2>2
  <2>. QED BY <1>1, <2>1, <2>2
<1>. QED BY <1>3 DEF Lens

(* The lines of a chunk are lines.                                         *)
LEMMA ChunkLines ==
  ASSUME Places, NEW k \in Chunks
  PROVE  /\ Chunk(k) \subseteq Index /\ 0 .. EndLine(k) - 1 \subseteq Index
         /\ \A l \in Chunk(k) : l \in Nat /\ StartLine(k) <= l /\ l < EndLine(k)
BY ChunkBounds, TaskCount DEF Chunk, Index

\* Where a line begins.
Pos(l) == Total(Lens, 0 .. l - 1)

(* Lines follow each other, in order.                                      *)
LEMMA PosGrows ==
  ASSUME LinesMade, Places, NEW l \in Index
  PROVE  Pos(l) \in Nat /\ Pos(l + 1) \in Nat /\ Pos(l + 1) = Pos(l) + Lens[l]
<1>1. l \in Nat /\ 0 .. l \subseteq Index /\ 0 .. l - 1 \subseteq Index
  BY TaskCount DEF Index
<1>2. \A m \in 0 .. l : Lens[m] \in Nat
  BY <1>1, LensNat
<1>3. Total(Lens, 0 .. l) = Total(Lens, 0 .. l - 1) + Lens[l]
  BY <1>1, <1>2, TotalNext
<1>4. Total(Lens, 0 .. l - 1) \in Nat
  BY <1>1, <1>2, TotalPart
<1>5. (l + 1) - 1 = l /\ Lens[l] \in Nat
  BY <1>1, <1>2
<1>. QED BY <1>3, <1>4, <1>5 DEF Pos

(* A line begins no earlier than an earlier one.                           *)
LEMMA PosOrder ==
  ASSUME LinesMade, Places, NEW l \in 0 .. num_lines, NEW m \in l .. num_lines
  PROVE  Pos(l) \in Nat /\ Pos(m) \in Nat /\ Pos(l) <= Pos(m)
<1>1. /\ num_lines \in Nat /\ l \in Int /\ m \in Int /\ 0 <= l /\ l <= m
      /\ 0 .. l - 1 \subseteq Index /\ 0 .. m - 1 \subseteq Index /\ l .. m - 1 \subseteq Index
  BY TaskCount DEF Index
<1>2. \A x \in 0 .. m - 1 : Lens[x] \in Nat
  BY <1>1, LensNat
<1>3. Total(Lens, 0 .. m - 1) = Total(Lens, 0 .. l - 1) + Total(Lens, l .. m - 1)
  BY <1>1, <1>2, TotalSplit
<1>4. Total(Lens, 0 .. l - 1) \in Nat
  BY <1>1, <1>2, TotalPart
<1>5. Total(Lens, l .. m - 1) \in Nat
  BY <1>1, <1>2, TotalPart
<1>. QED BY <1>3, <1>4, <1>5 DEF Pos

(* What the model adds up to place a line of the serial program.           *)
LEMMA SerialStartIs ==
  ASSUME Places, NEW l \in 0 .. num_lines
  PROVE  SerialStart(l) = Pos(l)
<1>. DEFINE S == 0 .. l - 1
            Sums(h) == h = [s \in SUBSET S |-> IF s = {} THEN 0
                                               ELSE generated[Some(s)].length + h[s \ {Some(s)}]]
            g == CHOOSE h : Sums(h)
<1>1. IsFiniteSet(S) /\ S \subseteq Index
  <2>1. l - 1 \in Int /\ l <= num_lines /\ num_lines \in Nat
    BY TaskCount
  <2>. QED BY <2>1, FS_Interval DEF Index
<1>2. SerialStart(l) = g[S]
  BY DEF SerialStart, MapThenSumSet, MapThenFoldSet, Some
<1>3. \A s \in SUBSET S : s # {} => Lens[Some(s)] = generated[Some(s)].length
  BY <1>1, SomeIn DEF Lens
<1>4. ASSUME NEW h PROVE Sums(h) <=> SumsUp(h, Lens, S)
  BY <1>3 DEF SumsUp
<1>5. PICK h : SumsUp(h, Lens, S)
  BY <1>1, SumsExist
<1>. HIDE DEF Sums
<1>6. Sums(g)
  BY <1>4, <1>5
<1>. HIDE DEF g, S
<1>7. Total(Lens, S) = g[S]
  BY <1>1, <1>4, <1>6, TotalIs
<1>. QED BY <1>2, <1>7 DEF Pos, S

-----------------------------------------------------------------------------
(* The pool.                                                               *)

(* A put adds a task.                                                      *)
LEMMA AcceptAdds ==
  ASSUME PoolKept, NEW t \in Task, Pool!Accept(t)
  PROVE  /\ PoolKept' /\ Pending' = Pending \cup {t}
         /\ accepted' = accepted \cup {t} /\ finished' = finished
BY RangeAppend DEF Pool!Accept, PoolKept, Pending

(* A worker starts a task that was waiting.                                *)
LEMMA StartMoves ==
  ASSUME PoolKept, Pool!Start
  PROVE  PoolKept' /\ Pending' = Pending /\ accepted' = accepted /\ finished' = finished
<1>1. /\ Head(backlog) \in Task /\ Tail(backlog) \in Seq(Task)
      /\ Range(backlog) = {Head(backlog)} \cup Range(Tail(backlog))
  BY RangeTail DEF Pool!Start, PoolKept
<1>. QED BY <1>1 DEF Pool!Start, PoolKept, Pending

(* A task that ends is finished.                                           *)
LEMMA FinishEnds ==
  ASSUME PoolKept, NEW t, Pool!Finish(t)
  PROVE  /\ PoolKept' /\ t \in Task /\ t \in active
         /\ Pending' \subseteq Pending /\ accepted' = accepted
         /\ finished' = finished \cup {t}
BY DEF Pool!Finish, PoolKept, Pending

(* Nothing is outstanding for the pool when nothing is pending.            *)
LEMMA IdleEmpty ==
  ASSUME PoolKept
  PROVE  backlog = <<>> /\ active = {} <=> Pending = {}
BY RangeNothing DEF PoolKept, Pending

(* Steps that put, start and end nothing leave the tasks where they are.   *)
LEMMA PoolSame ==
  ASSUME PoolKept, UNCHANGED <<accepted, backlog, active, finished>>
  PROVE  PoolKept' /\ Pending' = Pending
BY DEF PoolKept, Pending

\* The steps of main other than the start and the puts.
MainOther ==
  \/ CallWait("wait1", "waiting1") \/ ReturnWait("waiting1", "sort")
  \/ CallWait("wait2", "waiting2") \/ ReturnWait("waiting2", "destroy")
  \/ Sort \/ AddOffsets \/ FileFails \/ MapFile \/ BeginDestroy \/ EndDestroy

(* The steps of the program.                                               *)
LEMMA Steps ==
  ASSUME [Next]_vars
  PROVE  \/ Start \/ PutGenerate \/ PutWrite \/ MainOther \/ StartTask
         \/ \E k \in Chunks : GenerateLine(k) \/ EndGenerate(k) \/ WriteLine(k) \/ EndWrite(k)
         \/ UNCHANGED vars
BY DEF Next, MainStep, MainOther, TaskStep, Chunks

(* Where the steps of main lead.                                           *)
LEMMA MainOtherMoves ==
  ASSUME MainOther
  PROVE  /\ UNCHANGED <<i, num_lines, pool_ok, at, total>>
         /\ \/ MainGoto("wait1", "waiting1") \/ MainGoto("waiting1", "sort")
            \/ MainGoto("wait2", "waiting2") \/ MainGoto("waiting2", "destroy")
            \/ MainGoto("sort", "crashed") \/ MainGoto("sort", "offsets")
            \/ MainGoto("offsets", "open") \/ MainGoto("open", "failed")
            \/ MainGoto("open", "write") /\ MapFile
            \/ MainGoto("destroy", "join") \/ MainGoto("join", "done")
<1>1. CASE CallWait("wait1", "waiting1") \/ ReturnWait("waiting1", "sort")
  BY <1>1 DEF CallWait, ReturnWait, taskVars
<1>2. CASE CallWait("wait2", "waiting2") \/ ReturnWait("waiting2", "destroy")
  BY <1>2 DEF CallWait, ReturnWait, taskVars
<1>3. CASE Sort
  BY <1>3 DEF Sort, MainGoto
<1>4. CASE AddOffsets \/ FileFails \/ MapFile
  BY <1>4 DEF AddOffsets, FileFails, MapFile, MainGoto, taskVars
<1>5. CASE BeginDestroy \/ EndDestroy
  BY <1>5 DEF BeginDestroy, EndDestroy, taskVars
<1>. QED BY <1>1, <1>2, <1>3, <1>4, <1>5 DEF MainOther

(* They leave the tasks where they are, and wait for them before they go   *)
(* on.                                                                     *)
LEMMA MainOtherPool ==
  ASSUME PoolKept, MainOther
  PROVE  /\ UNCHANGED <<accepted, backlog, active, finished>>
         /\ pool_ok /\ mpc \in {"waiting1", "waiting2"} => Pending = {}
<1>1. UNCHANGED <<accepted, backlog, active, finished>>
  BY DEF MainOther, CallWait, ReturnWait, WaitDone, Sort, AddOffsets, FileFails,
         MapFile, BeginDestroy, EndDestroy, poolVars,
         Pool!BeginWait, Pool!EndWait, Pool!Close, Pool!Release
<1>2. pool_ok /\ mpc \in {"waiting1", "waiting2"} => backlog = <<>> /\ active = {}
  BY DEF MainOther, CallWait, ReturnWait, WaitDone, Sort, AddOffsets, FileFails,
         MapFile, BeginDestroy, EndDestroy, MainGoto, Pool!EndWait, Pool!Outstanding
<1>. QED BY <1>1, <1>2, IdleEmpty

(* The number of lines stays, and the chunks with it.                      *)
LEMMA Fixed ==
  ASSUME [Next]_vars
  PROVE  /\ num_lines' = num_lines /\ Chunks' = Chunks /\ Index' = Index
         /\ num_tasks' = num_tasks
         /\ \A k : EndLine(k)' = EndLine(k) /\ Chunk(k)' = Chunk(k)
<1>1. num_lines' = num_lines
  <2>1. MainOther => num_lines' = num_lines
    BY MainOtherMoves
  <2>. QED BY <2>1, Steps DEF Start, PutGenerate, PutWrite, PutTask, StartTask,
              GenerateLine, EndGenerate, WriteLine, EndWrite, vars
<1>. QED BY <1>1 DEF Chunks, Index, num_tasks, EndLine, Chunk

(* A task runs only while main is in its batch.                            *)
LEMMA WhenActive ==
  ASSUME Places, PoolKept, Batches, NEW k \in Chunks
  PROVE  /\ Gen(k) \in active => mpc \in Generating
         /\ Wr(k) \in active => mpc \in Writing
<1>1. active \subseteq Pending /\ active \subseteq accepted
  BY DEF PoolKept, Pending
<1>2. \/ mpc \in Generating /\ active \subseteq {Gen(l) : l \in Chunks}
      \/ mpc \in Writing /\ active \subseteq {Wr(l) : l \in Chunks}
      \/ active = {}
  BY <1>1 DEF Batches
<1>. QED BY <1>2, TaskNames

(* Without a pool no line is ever there.                                   *)
LEMMA NoPoolNoLines ==
  ASSUME Places, Progress, LinesMade, ~pool_ok, NEW l \in Index
  PROVE  generated[l] = NullLine /\ Lens[l] = 0
<1>1. PICK k \in Chunks : l \in Chunk(k)
  BY ChunksCover
<1>2. at[Gen(k)] = StartLine(k) /\ StartLine(k) \in Nat /\ l \in Nat /\ StartLine(k) <= l
  BY <1>1, ChunkBounds, ChunkLines DEF Progress
<1>3. generated[l] = NullLine
  BY <1>1, <1>2 DEF LinesMade
<1>. QED BY <1>3 DEF Lens, NullLine

(* Without a pool there is nothing to map: main gets no further.           *)
LEMMA OpenHasPool ==
  ASSUME Places, Batches, Progress, LinesMade, OffsetsRight, MapFile
  PROVE  pool_ok
<1>. SUFFICES ASSUME ~pool_ok PROVE FALSE
  OBVIOUS
<1>1. mpc = "open" /\ num_lines > 0 /\ offsets[num_tasks - 1] > 0
  BY DEF MapFile, MainGoto, Batches
<1>2. num_tasks \in Nat /\ num_tasks - 1 \in Chunks /\ num_lines \in Nat
  <2>1. num_tasks \in Nat /\ num_tasks # 0 /\ num_lines \in Nat
    BY <1>1, TaskCount, WriterAssumption
  <2>. QED BY <2>1 DEF Chunks
<1>3. EndLine(num_tasks - 1) = num_lines
  BY <1>2, ChunkBounds
<1>4. offsets[num_tasks - 1] = Total(Lens, Index)
  BY <1>1, <1>2, <1>3 DEF OffsetsRight, Index
<1>5. \A l \in Index : Lens[l] \in 0 .. 0
  BY NoPoolNoLines
<1>6. IsFiniteSet(Index) /\ Cardinality(Index) \in Nat
  <2>1. num_lines - 1 \in Int
    BY <1>2
  <2>. QED BY <2>1, FS_Interval, FS_CardinalityType DEF Index
<1>7. Total(Lens, Index) \in 0 .. 0 * Cardinality(Index)
  BY <1>5, <1>6, TotalBound
<1>. QED BY <1>1, <1>4, <1>6, <1>7

-----------------------------------------------------------------------------
(* The batches.                                                            *)

(* PoolKept, Batches and Places are kept by each step.                     *)
LEMMA BatchesStep ==
  ASSUME Places, PoolKept, Batches, Progress, LinesMade, OffsetsRight, [Next]_vars
  PROVE  Places' /\ PoolKept' /\ Batches'
<1>. /\ num_lines' = num_lines /\ Chunks' = Chunks /\ num_tasks' = num_tasks
  BY Fixed
<1>0. num_tasks \in Nat /\ num_lines \in Nat /\ (num_lines > 0 => num_tasks > 0)
  BY TaskCount, WriterAssumption
<1>1. CASE Start
  <2>1. PoolKept' /\ Pending' = Pending /\ accepted' = accepted
    BY <1>1, PoolSame DEF Start, poolVars
  <2>2. /\ accepted = {} /\ Pending = {} /\ accepted' = {} /\ Pending' = {} /\ i = 0 /\ i' = i
        /\ pool_ok' \in BOOLEAN
        /\ mpc' = "failed" \/ (mpc' = "generate" /\ num_lines > 0)
    BY <1>0, <1>1, <2>1 DEF Start, MainGoto, Batches, PoolKept, Pending
  <2>. QED BY <1>0, <1>1, <2>1, <2>2 DEF Places, Batches, Generating, Between, Writing, After
<1>2. CASE PutGenerate
  <2>1. /\ mpc = "generate" /\ pool_ok' = pool_ok /\ accepted \subseteq {Gen(k) : k \in Chunks}
        /\ i \in Nat /\ i <= num_tasks /\ (i < num_tasks => Gen(i) \in Task /\ i \in Chunks)
        /\ num_lines > 0
    <3>1. mpc = "generate" /\ pool_ok' = pool_ok
      BY <1>2 DEF PutGenerate, PutTask, MainGoto
    <3>2. i \in Nat /\ i <= num_tasks /\ (i < num_tasks => i \in Chunks)
      BY <1>0 DEF Batches, Chunks
    <3>. QED BY <3>1, <3>2, TaskNames DEF Batches, Generating
  <2>2. CASE i < num_tasks /\ pool_ok
    <3>1. PoolKept' /\ accepted' = accepted \cup {Gen(i)} /\ mpc' = "generate" /\ i' = i + 1
      BY <1>2, <2>1, <2>2, AcceptAdds DEF PutGenerate, PutTask, MainGoto
    <3>. QED BY <1>0, <2>1, <2>2, <3>1 DEF Places, Batches, Generating, Between, Writing, After
  <2>3. CASE ~(i < num_tasks /\ pool_ok)
    <3>1. PoolKept' /\ Pending' = Pending /\ accepted' = accepted
      BY <1>2, <2>3, PoolSame DEF PutGenerate, PutTask, poolVars
    <3>2. \/ i < num_tasks /\ ~pool_ok /\ mpc' = "generate" /\ i' = i + 1
          \/ Chunks \subseteq 0 .. i - 1 /\ mpc' = "wait1" /\ i' = 0
      BY <1>0, <1>2, <2>1, <2>3 DEF PutGenerate, PutTask, MainGoto, Chunks
    <3>. QED BY <1>0, <2>1, <3>1, <3>2 DEF Places, Batches, Generating, Between, Writing, After
  <2>. QED BY <2>2, <2>3
<1>3. CASE PutWrite
  <2>1. /\ mpc = "write" /\ pool_ok' = pool_ok /\ pool_ok
        /\ Pending \subseteq {Wr(k) : k \in Chunks}
        /\ i \in Nat /\ i <= num_tasks /\ (i < num_tasks => Wr(i) \in Task /\ i \in Chunks)
        /\ num_lines > 0
    <3>1. mpc = "write" /\ pool_ok' = pool_ok
      BY <1>3 DEF PutWrite, PutTask, MainGoto
    <3>2. i \in Nat /\ i <= num_tasks /\ (i < num_tasks => i \in Chunks)
      BY <1>0 DEF Batches, Chunks
    <3>. QED BY <3>1, <3>2, TaskNames DEF Batches, Writing
  <2>2. CASE i < num_tasks
    <3>1. /\ PoolKept' /\ accepted' = accepted \cup {Wr(i)} /\ Pending' = Pending \cup {Wr(i)}
          /\ finished' = finished /\ mpc' = "write" /\ i' = i + 1
      BY <1>3, <2>1, <2>2, AcceptAdds DEF PutWrite, PutTask, MainGoto
    <3>. QED BY <1>0, <2>1, <2>2, <3>1 DEF Places, Batches, Generating, Between, Writing, After
  <2>3. CASE ~(i < num_tasks)
    <3>1. PoolKept' /\ Pending' = Pending /\ accepted' = accepted /\ finished' = finished
      BY <1>3, <2>3, PoolSame DEF PutWrite, PutTask, poolVars
    <3>2. Chunks \subseteq 0 .. i - 1 /\ mpc' = "wait2" /\ i' = 0
      BY <1>0, <1>3, <2>1, <2>3 DEF PutWrite, PutTask, MainGoto, Chunks
    <3>. QED BY <1>0, <2>1, <3>1, <3>2 DEF Places, Batches, Generating, Between, Writing, After
  <2>. QED BY <2>2, <2>3
<1>4. CASE MainOther
  <2>1. /\ PoolKept' /\ Pending' = Pending /\ accepted' = accepted /\ finished' = finished
        /\ pool_ok' = pool_ok /\ i' = i
        /\ pool_ok /\ mpc \in {"waiting1", "waiting2"} => Pending = {}
    BY <1>4, MainOtherPool, PoolSame, MainOtherMoves
  <2>2. /\ ~pool_ok => Pending = {} /\ accepted = {}
        /\ Pending = {} => accepted = finished
    BY DEF Batches, PoolKept
  <2>3. MapFile => pool_ok
    BY OpenHasPool
  <2>. QED BY <1>4, <2>1, <2>2, <2>3, MainOtherMoves
           DEF Places, Batches, Generating, Between, Writing, After, MainGoto
<1>5. CASE StartTask
  BY <1>5, StartMoves DEF StartTask, Batches, Places
<1>6. ASSUME NEW k \in Chunks, EndGenerate(k) \/ EndWrite(k)
      PROVE  Places' /\ PoolKept' /\ Batches'
  <2>1. PICK t : Pool!Finish(t)
    BY <1>6 DEF EndGenerate, EndWrite
  <2>2. UNCHANGED <<mpc, pool_ok, i>>
    BY <1>6 DEF EndGenerate, EndWrite
  <2>. QED BY <2>1, <2>2, FinishEnds DEF Batches, Places
<1>7. CASE UNCHANGED <<poolVars, mpc, pool_ok, i>>
  BY <1>7, PoolSame DEF Batches, Places, poolVars
<1>8. ASSUME NEW k \in Chunks, GenerateLine(k) \/ WriteLine(k)
      PROVE  Places' /\ PoolKept' /\ Batches'
  BY <1>7, <1>8 DEF GenerateLine, WriteLine
<1>9. CASE UNCHANGED vars
  BY <1>7, <1>9 DEF vars
<1>. QED BY <1>1, <1>2, <1>3, <1>4, <1>5, <1>6, <1>8, <1>9, Steps

-----------------------------------------------------------------------------
(* How far the tasks are.                                                  *)

(* No line is in two chunks.                                               *)
LEMMA ChunksDisjoint ==
  ASSUME Places, NEW k \in Chunks, NEW l \in Chunks, k # l
  PROVE  Chunk(k) \cap Chunk(l) = {}
<1>1. k \in Int /\ l \in Int
  BY ChunkBounds
<1>2. EndLine(k) <= StartLine(l) \/ EndLine(l) <= StartLine(k)
  BY <1>1, ChunksApart
<1>. QED BY <1>2, ChunkBounds, ChunkLines

(* What a task has behind it lies in its chunk.                            *)
LEMMA BehindTask ==
  ASSUME Places, Progress, NEW t \in Task, t[2] \in Chunks
  PROVE  /\ at[t] \in Nat /\ total[t] \in Int
         /\ StartLine(t[2]) \in Nat /\ EndLine(t[2]) \in Nat
         /\ StartLine(t[2]) <= at[t] /\ at[t] <= EndLine(t[2])
         /\ StartLine(t[2]) .. at[t] - 1 \subseteq Chunk(t[2])
         /\ at[t] < EndLine(t[2]) => at[t] \in Chunk(t[2]) /\ at[t] \in Index
<1>1. /\ at[t] \in StartLine(t[2]) .. EndLine(t[2]) /\ at[t] \in Nat /\ total[t] \in Int
      /\ StartLine(t[2]) \in Nat /\ EndLine(t[2]) \in Nat
  BY ChunkBounds DEF Progress
<1>. QED BY <1>1, ChunkLines DEF Chunk

(* The line that a task of the first batch generates was not there, and no *)
(* other line changes.                                                     *)
LEMMA LineGenerated ==
  ASSUME Places, PoolKept, Batches, Progress, LinesMade,
         NEW k \in Chunks, GenerateLine(k), num_lines' = num_lines,
         NEW a, a = at[Gen(k)]
  PROVE  /\ a \in Chunk(k) /\ a \in Index /\ generated[a] = NullLine
         /\ Gen(k) \notin finished /\ mpc \in Generating
         /\ generated' \in [Index -> {NullLine} \cup [lineno : 1 .. num_lines, length : Lengths]]
         /\ generated'[a].lineno = a + 1 /\ generated'[a].length \in Lengths
         /\ Lens'[a] = generated'[a].length
         /\ \A l \in Index : l # a => generated'[l] = generated[l] /\ Lens'[l] = Lens[l]
         /\ total' = [total EXCEPT ![Gen(k)] = @ + Lens'[a]]
         /\ at' = [at EXCEPT ![Gen(k)] = a + 1]
<1>1. /\ Gen(k) \in active /\ a < EndLine(k) /\ at' = [at EXCEPT ![Gen(k)] = a + 1]
      /\ Gen(k) \in Task /\ Gen(k)[2] = k
  BY TaskNames DEF GenerateLine
<1>2. PICK n \in Lengths :
        /\ generated' = [generated EXCEPT ![a] = [lineno |-> a + 1, length |-> n]]
        /\ total' = [total EXCEPT ![Gen(k)] = @ + n]
  BY DEF GenerateLine
<1>3. a \in Chunk(k) /\ a \in Index /\ a \in Nat /\ EndLine(k) \in Nat
  BY <1>1, BehindTask
<1>4. generated[a] = NullLine
  BY <1>3 DEF LinesMade
<1>5. Gen(k) \notin finished
  BY <1>1, <1>3 DEF Progress
<1>6. mpc \in Generating
  BY <1>1, WhenActive
<1>. DEFINE T == {NullLine} \cup [lineno : 1 .. num_lines, length : Lengths]
<1>7. [lineno |-> a + 1, length |-> n] \in T
  <2>1. a + 1 \in 1 .. num_lines
    BY <1>3, TaskCount DEF Index
  <2>. QED BY <2>1
<1>8. generated \in [Index -> T]
  BY DEF LinesMade
<1>. HIDE DEF T
<1>9. generated' \in [Index -> T]
  BY <1>2, <1>3, <1>7, <1>8
<1>10. /\ generated'[a] = [lineno |-> a + 1, length |-> n]
       /\ \A l \in Index : l # a => generated'[l] = generated[l]
  BY <1>2, <1>3, <1>8
<1>11. Lens' = [l \in Index |-> generated'[l].length]
  BY DEF Lens, Index
<1>12. /\ Lens'[a] = generated'[a].length /\ Lens'[a] = n
       /\ \A l \in Index : l # a => Lens'[l] = Lens[l]
  BY <1>3, <1>10, <1>11 DEF Lens
<1>. QED BY <1>1, <1>2, <1>3, <1>4, <1>5, <1>6, <1>9, <1>10, <1>12 DEF T

(* Nor does what the other tasks have added up.                            *)
LEMMA OthersSame ==
  ASSUME Places, PoolKept, Batches, Progress, LinesMade,
         NEW k \in Chunks, GenerateLine(k), num_lines' = num_lines,
         NEW t \in Task, t[2] \in Chunks, t # Gen(k)
  PROVE  /\ Total(Lens', StartLine(t[2]) .. at[t] - 1) = Total(Lens, StartLine(t[2]) .. at[t] - 1)
<1>. DEFINE a == at[Gen(k)]
            S == StartLine(t[2]) .. at[t] - 1
<1>1. /\ a \in Chunk(k) /\ mpc \in Generating
      /\ \A l \in Index : l # a => Lens'[l] = Lens[l]
  BY LineGenerated
<1>2. S \subseteq Chunk(t[2]) /\ at[t] \in Nat /\ StartLine(t[2]) \in Nat
  BY BehindTask
<1>3. S \subseteq Index
  BY <1>2, ChunkLines
<1>4. IsFiniteSet(S)
  <2>1. at[t] - 1 \in Int /\ StartLine(t[2]) \in Int
    BY <1>2
  <2>. QED BY <2>1, FS_Interval
<1>5. a \notin S
  <2>1. CASE t = Gen(t[2])
    <3>1. t[2] # k
      BY <2>1
    <3>. QED BY <1>1, <1>2, <3>1, ChunksDisjoint
  <2>2. CASE t = Wr(t[2])
    <3>1. at[t] = StartLine(t[2])
      BY <1>1, <2>2 DEF Progress, Generating, Writing, After
    <3>. QED BY <1>2, <3>1
  <2>. QED BY <2>1, <2>2, TaskNames
<1>. HIDE DEF a, S
<1>6. \A l \in S : Lens'[l] = Lens[l]
  BY <1>1, <1>3, <1>5
<1>7. Total(Lens', S) = Total(Lens, S)
  BY <1>4, <1>6, TotalSame
<1>. QED BY <1>7 DEF S

(* What a task adds to its sum.                                            *)
LEMMA SumGrows ==
  ASSUME NEW f, NEW s \in Nat, NEW a \in Nat, s <= a, \A l \in s .. a : f[l] \in Nat
  PROVE  /\ Total(f, s .. (a + 1) - 1) = Total(f, s .. a - 1) + f[a]
         /\ Total(f, s .. a - 1) \in Nat /\ f[a] \in Nat
<1>1. Total(f, s .. a) = Total(f, s .. a - 1) + f[a]
  BY TotalNext
<1>2. Total(f, s .. a - 1) \in Nat
  BY TotalPart
<1>3. (a + 1) - 1 = a
  OBVIOUS
<1>. QED BY <1>1, <1>2, <1>3

(* The lines are generated in place: sorting them changes nothing.         *)
LEMMA SortKeeps ==
  ASSUME Places, Progress, LinesMade, Sort
  PROVE  generated' = generated
<1>. SUFFICES ASSUME \A l \in Index : generated[l] # NullLine PROVE SortedLines = generated
  BY DEF Sort
<1>1. ASSUME NEW l \in Index PROVE l \in Nat /\ generated[l].lineno = l + 1
  <2>1. PICK k \in Chunks : l \in Chunk(k)
    BY ChunksCover
  <2>. QED BY <2>1 DEF LinesMade, Made, Index
<1>2. ASSUME NEW l \in Index
      PROVE  Cardinality({m \in Index : generated[m].lineno < generated[l].lineno}) = l
  <2>1. l \in Nat /\ l < num_lines /\ num_lines \in Nat
    BY TaskCount DEF Index
  <2>2. {m \in Index : generated[m].lineno < generated[l].lineno} = 0 .. l - 1
    BY <1>1, <2>1 DEF Index
  <2>3. Cardinality(0 .. l - 1) = l
    <3>1. 0 \in Int /\ l - 1 \in Int
      BY <2>1
    <3>. QED BY <2>1, <3>1, FS_Interval
  <2>. QED BY <2>2, <2>3
<1>3. ASSUME NEW l \in Index
      PROVE  (CHOOSE line \in {generated[m] : m \in Index} :
                Cardinality({m \in Index : generated[m].lineno < line.lineno}) = l) = generated[l]
  <2>. DEFINE Rank(line) == Cardinality({m \in Index : generated[m].lineno < line.lineno})
              All == {generated[m] : m \in Index}
  <2>1. \A m \in Index : Rank(generated[m]) = m
    BY <1>2
  <2>2. generated[l] \in All /\ \A line \in All : \E m \in Index : line = generated[m]
    OBVIOUS
  <2>. HIDE DEF Rank, All
  <2>3. (CHOOSE line \in All : Rank(line) = l) = generated[l]
    BY <2>1, <2>2
  <2>. QED BY <2>3 DEF Rank, All
<1>4. generated = [l \in Index |-> generated[l]]
  BY DEF LinesMade
<1>. QED BY <1>3, <1>4 DEF SortedLines

(* The lines change only where a task generates one.                       *)
LEMMA LinesSame ==
  ASSUME Places, Progress, LinesMade, [Next]_vars
  PROVE  \/ generated' = generated /\ Lens' = Lens
         \/ \E k \in Chunks : GenerateLine(k)
<1>1. Sort => generated' = generated
  BY SortKeeps
<1>2. MainOther => generated' = generated
  BY <1>1 DEF MainOther, CallWait, ReturnWait, AddOffsets, FileFails, MapFile,
              BeginDestroy, EndDestroy, taskVars
<1>3. generated' = generated \/ \E k \in Chunks : GenerateLine(k)
  BY <1>2, Steps DEF Start, PutGenerate, PutWrite, PutTask, StartTask, EndGenerate,
     WriteLine, EndWrite, vars, taskVars
<1>. QED BY <1>3, Fixed DEF Lens

(* Each step moves one task on by one line, inside its chunk, or none; a   *)
(* task that has finished stays at the end of its chunk.                   *)
LEMMA ProgressStep ==
  ASSUME Places, PoolKept, Batches, Progress, LinesMade, OffsetsRight, [Next]_vars
  PROVE  Progress'
<1>. /\ num_lines' = num_lines /\ Chunks' = Chunks /\ Index' = Index
     /\ \A k : EndLine(k)' = EndLine(k)
  BY Fixed
<1>0. \A t \in Task : t[2] \in Chunks => at[t] \in Nat /\ total[t] \in Int
  BY DEF Progress
<1>1. CASE UNCHANGED <<at, total, Lens, finished, mpc, pool_ok>>
  BY <1>1 DEF Progress
<1>2. CASE Start
  <2>1. /\ UNCHANGED <<at, total, generated, finished>> /\ mpc = "start" /\ ~pool_ok
        /\ mpc' \in {"generate", "failed"}
    BY <1>2 DEF Start, MainGoto, poolVars, taskVars, Batches
  <2>2. Lens' = Lens
    BY <2>1 DEF Lens
  <2>. QED BY <2>1, <2>2 DEF Progress, Writing, After
<1>3. CASE PutGenerate \/ PutWrite
  <2>1. /\ UNCHANGED <<at, total, generated, finished, pool_ok>>
        /\ \/ mpc = "generate" /\ mpc' \in {"generate", "wait1"}
           \/ mpc = "write" /\ mpc' \in {"write", "wait2"}
    BY <1>3 DEF PutGenerate, PutWrite, PutTask, MainGoto, Pool!Accept, poolVars, taskVars
  <2>2. Lens' = Lens
    BY <2>1 DEF Lens
  <2>. QED BY <2>1, <2>2 DEF Progress, Writing, After
<1>4. CASE MainOther
  <2>1. UNCHANGED <<at, total, pool_ok, finished>>
    BY <1>4, MainOtherMoves, MainOtherPool
  <2>2. Lens' = Lens
    <3>1. Sort => generated' = generated
      BY SortKeeps
    <3>2. generated' = generated
      BY <1>4, <3>1 DEF MainOther, CallWait, ReturnWait, AddOffsets, FileFails, MapFile,
              BeginDestroy, EndDestroy, taskVars
    <3>. QED BY <3>2 DEF Lens
  <2>3. mpc' \in Writing \cup After \/ mpc \notin Writing \cup After
    BY <1>4, MainOtherMoves DEF MainGoto, Writing, After
  <2>. QED BY <2>1, <2>2, <2>3 DEF Progress
<1>5. CASE StartTask
  <2>1. UNCHANGED <<at, total, generated, finished, mpc, pool_ok>>
    BY <1>5 DEF StartTask, Pool!Start, taskVars
  <2>. QED BY <1>1, <2>1 DEF Lens
<1>6. ASSUME NEW k \in Chunks, NEW t \in {Gen(k), Wr(k)}, t \in active,
             at[t] >= EndLine(k), Pool!Finish(t),
             UNCHANGED <<mpc, pool_ok, generated, at, total>>
      PROVE  Progress'
  <2>1. finished' = finished \cup {t} /\ Lens' = Lens
    BY <1>6 DEF Pool!Finish, Lens
  <2>2. t \in Task /\ t[2] = k
    BY TaskNames
  <2>3. at[t] = EndLine(t[2])
    <3>1. at[t] \in Nat /\ at[t] <= EndLine(k) /\ EndLine(k) \in Nat
      BY <2>2, BehindTask
    <3>. QED BY <1>6, <2>2, <3>1
  <2>. QED BY <1>6, <2>1, <2>3 DEF Progress
<1>7. ASSUME NEW k \in Chunks, EndGenerate(k)
      PROVE  Progress'
  BY <1>6, <1>7 DEF EndGenerate
<1>8. ASSUME NEW k \in Chunks, EndWrite(k)
      PROVE  Progress'
  BY <1>6, <1>8 DEF EndWrite, taskVars
<1>. DEFINE Kept(t) == /\ at'[t] \in StartLine(t[2]) .. EndLine(t[2])
                       /\ total'[t] = Total(Lens', StartLine(t[2]) .. at'[t] - 1)
                       /\ t \in finished => at'[t] = EndLine(t[2])
<1>9. ASSUME NEW k \in Chunks, NEW t \in {Gen(k), Wr(k)}, NEW a, a = at[t], a < EndLine(k),
             NEW n, n = Lens'[a],
             at' = [at EXCEPT ![t] = a + 1], total' = [total EXCEPT ![t] = @ + n],
             \A l \in Index : Lens'[l] \in Nat,
             Total(Lens', StartLine(k) .. a - 1) = Total(Lens, StartLine(k) .. a - 1),
             \A u \in Task : u[2] \in Chunks /\ u # t =>
               Total(Lens', StartLine(u[2]) .. at[u] - 1) = Total(Lens, StartLine(u[2]) .. at[u] - 1),
             UNCHANGED <<mpc, pool_ok, finished>>,
             t = Wr(k) => mpc \in Writing, pool_ok
      PROVE  Progress'
  <2>1. t \in Task /\ t[2] = k
    BY TaskNames
  <2>2. /\ at[t] = a /\ a \in Nat /\ StartLine(k) \in Nat /\ EndLine(k) \in Nat
        /\ StartLine(k) <= a /\ EndLine(k) <= num_lines /\ num_lines \in Nat
    BY <1>9, <2>1, BehindTask, ChunkBounds, TaskCount
  <2>3. \A l \in StartLine(k) .. a : Lens'[l] \in Nat
    BY <1>9, <2>2 DEF Index
  <2>4. /\ Total(Lens', StartLine(k) .. (a + 1) - 1) = Total(Lens', StartLine(k) .. a - 1) + n
        /\ n \in Nat
    BY <1>9, <2>2, <2>3, SumGrows
  <2>5. total[t] = Total(Lens, StartLine(k) .. a - 1) /\ total[t] \in Int
    BY <1>9, <2>1 DEF Progress
  <2>6. at'[t] = a + 1 /\ total'[t] = total[t] + n
    BY <1>9, <2>1 DEF Progress
  <2>7. t \notin finished
    BY <1>9, <2>1, <2>2 DEF Progress
  <2>8. Kept(t)
    <3>1. total'[t] = Total(Lens', StartLine(k) .. (a + 1) - 1)
      BY <1>9, <2>4, <2>5, <2>6
    <3>. QED BY <1>9, <2>1, <2>2, <2>6, <2>7, <3>1
  <2>9. \A u \in Task : u[2] \in Chunks => Kept(u)
    <3>1. ASSUME NEW u \in Task, u[2] \in Chunks, u # t PROVE Kept(u)
      <4>1. at'[u] = at[u] /\ total'[u] = total[u]
        BY <1>9, <3>1 DEF Progress
      <4>. QED BY <1>9, <3>1, <4>1 DEF Progress
    <3>. QED BY <2>8, <3>1
  <2>10. at' \in [Task -> Nat] /\ total' \in [Task -> Int]
    <3>1. a + 1 \in Nat /\ total[t] + n \in Int
      BY <2>2, <2>4, <2>5
    <3>. QED BY <1>9, <3>1 DEF Progress
  <2>11. \A l \in Chunks : mpc \notin Writing \cup After => at'[Wr(l)] = StartLine(l)
    BY <1>9, TaskNames DEF Progress
  <2>. QED BY <1>9, <2>9, <2>10, <2>11 DEF Progress
<1>10. ASSUME NEW k \in Chunks, GenerateLine(k)
       PROVE  Progress'
  <2>. DEFINE t == Gen(k)
              a == at[t]
              n == Lens'[a]
  <2>1. /\ a \in Chunk(k) /\ mpc \in Generating /\ t \notin finished
        /\ \A l \in Index : l # a => Lens'[l] = Lens[l]
        /\ total' = [total EXCEPT ![t] = @ + n] /\ at' = [at EXCEPT ![t] = a + 1]
        /\ n \in Lengths
    BY <1>10, LineGenerated
  <2>2. a \in Nat /\ StartLine(k) \in Nat /\ t \in Task /\ t[2] = k /\ a < EndLine(k)
    BY <1>10, TaskNames, BehindTask, ChunkBounds DEF GenerateLine
  <2>3. \A l \in Index : Lens'[l] \in Nat
    BY <2>1, LensNat, WriterAssumption
  <2>4. Total(Lens', StartLine(k) .. a - 1) = Total(Lens, StartLine(k) .. a - 1)
    <3>. DEFINE S == StartLine(k) .. a - 1
    <3>1. a - 1 \in Int /\ StartLine(k) \in Int
      BY <2>2
    <3>2. IsFiniteSet(S)
      BY <3>1, FS_Interval
    <3>3. S \subseteq Index /\ a \notin S
      BY <2>2, BehindTask, ChunkLines
    <3>. HIDE DEF S, a
    <3>4. \A l \in S : Lens'[l] = Lens[l]
      BY <2>1, <3>3
    <3>5. Total(Lens', S) = Total(Lens, S)
      BY <3>2, <3>4, TotalSame
    <3>. QED BY <3>5 DEF S
  <2>5. \A u \in Task : u[2] \in Chunks /\ u # t =>
          Total(Lens', StartLine(u[2]) .. at[u] - 1) = Total(Lens, StartLine(u[2]) .. at[u] - 1)
    BY <1>10, OthersSame
  <2>6. UNCHANGED <<mpc, pool_ok, finished>>
    BY <1>10 DEF GenerateLine, poolVars
  <2>7. pool_ok /\ t # Wr(k)
    <3>1. t \in accepted
      BY <1>10 DEF GenerateLine, PoolKept, Pending
    <3>2. t # Wr(k)
      BY TaskNames
    <3>. QED BY <3>1, <3>2 DEF Batches
  <2>. HIDE DEF t, a, n
  <2>8. t \in {Gen(k), Wr(k)} /\ a = at[t] /\ n = Lens'[a]
    BY DEF t, a, n
  <2>. QED BY <1>9, <2>1, <2>2, <2>3, <2>4, <2>5, <2>6, <2>7, <2>8
<1>11. ASSUME NEW k \in Chunks, WriteLine(k)
       PROVE  Progress'
  <2>. DEFINE t == Wr(k)
              a == at[t]
              n == Lens'[a]
  <2>1. t \in Task /\ t[2] = k /\ a < EndLine(k) /\ t \in active
    BY <1>11, TaskNames DEF WriteLine
  <2>2. a \in Index
    BY <2>1, BehindTask
  <2>3. Lens' = Lens
    BY <1>11 DEF WriteLine, Lens
  <2>4. total' = [total EXCEPT ![t] = @ + n] /\ at' = [at EXCEPT ![t] = a + 1]
    <3>1. n = generated[a].length
      BY <2>2, <2>3 DEF Lens
    <3>. QED BY <1>11, <2>1, <3>1 DEF WriteLine, Progress
  <2>5. \A l \in Index : Lens'[l] \in Nat
    BY <2>3, LensNat
  <2>6. UNCHANGED <<mpc, pool_ok, finished>>
    BY <1>11 DEF WriteLine, poolVars
  <2>7. mpc \in Writing /\ pool_ok
    BY <2>1, WhenActive DEF Batches
  <2>. HIDE DEF t, a, n
  <2>8. t \in {Gen(k), Wr(k)} /\ a = at[t] /\ n = Lens'[a]
    BY DEF t, a, n
  <2>. QED BY <1>9, <2>1, <2>3, <2>4, <2>5, <2>6, <2>7, <2>8
<1>12. CASE UNCHANGED vars
  <2>1. UNCHANGED <<at, total, generated, finished, mpc, pool_ok>>
    BY <1>12 DEF vars, poolVars, taskVars
  <2>. QED BY <1>1, <2>1 DEF Lens
<1>. QED BY <1>2, <1>3, <1>4, <1>5, <1>7, <1>8, <1>10, <1>11, <1>12, Steps

-----------------------------------------------------------------------------
(* The lines and the offsets.                                              *)

(* A line comes to be when the task of its chunk passes it.                *)
LEMMA LinesMadeStep ==
  ASSUME Places, PoolKept, Batches, Progress, LinesMade, [Next]_vars
  PROVE  LinesMade'
<1>. /\ num_lines' = num_lines /\ Chunks' = Chunks /\ Index' = Index
     /\ \A k : Chunk(k)' = Chunk(k)
  BY Fixed
<1>1. ASSUME NEW k \in Chunks, GenerateLine(k)
      PROVE  LinesMade'
  <2>. DEFINE a == at[Gen(k)]
  <2>1. /\ a \in Chunk(k) /\ a \in Nat
        /\ generated' \in [Index -> {NullLine} \cup [lineno : 1 .. num_lines, length : Lengths]]
        /\ generated'[a].lineno = a + 1 /\ generated'[a].length \in Lengths
        /\ \A l \in Index : l # a => generated'[l] = generated[l]
        /\ at' = [at EXCEPT ![Gen(k)] = a + 1]
    BY <1>1, LineGenerated, ChunkLines
  <2>2. /\ at'[Gen(k)] = a + 1
        /\ \A l \in Chunks : l # k => at'[Gen(l)] = at[Gen(l)]
    BY <2>1, TaskNames DEF Progress
  <2>3. ASSUME NEW c \in Chunks, NEW l \in Chunk(c)
        PROVE  IF l < at'[Gen(c)] THEN generated'[l].lineno = l + 1 /\ generated'[l].length \in Lengths
                                  ELSE generated'[l] = NullLine
    <3>1. l \in Index /\ l \in Nat
      BY <2>3, ChunkLines
    <3>2. IF l < at[Gen(c)] THEN generated[l].lineno = l + 1 /\ generated[l].length \in Lengths
                            ELSE generated[l] = NullLine
      BY <2>3 DEF LinesMade, Made
    <3>3. CASE c = k /\ l = a
      BY <2>1, <2>2, <3>3
    <3>4. CASE c = k /\ l # a
      BY <2>1, <2>2, <3>1, <3>2, <3>4
    <3>5. CASE c # k
      <4>1. l # a
        BY <2>1, <3>5, ChunksDisjoint
      <4>. QED BY <2>1, <2>2, <3>1, <3>2, <3>5, <4>1
    <3>. QED BY <3>3, <3>4, <3>5
  <2>. QED BY <2>1, <2>3 DEF LinesMade, Made
<1>2. CASE generated' = generated
  <2>1. \A k \in Chunks : at'[Gen(k)] = at[Gen(k)]
    <3>1. MainOther => at' = at
      BY MainOtherMoves
    <3>2. \A k \in Chunks : ~ GenerateLine(k)
      <4>. SUFFICES ASSUME NEW k \in Chunks, GenerateLine(k) PROVE FALSE
        OBVIOUS
      <4>1. PICK a \in Index : generated[a] = NullLine /\ generated'[a].lineno = a + 1 /\ a \in Nat
        BY LineGenerated, TaskCount DEF Index
      <4>. QED BY <1>2, <4>1 DEF NullLine
    <3>3. at' = at \/ \E k \in Chunks : WriteLine(k)
      BY <3>1, <3>2, Steps DEF Start, PutGenerate, PutWrite, PutTask, StartTask, EndGenerate,
         EndWrite, vars, taskVars
    <3>4. ASSUME NEW k \in Chunks, WriteLine(k), NEW l \in Chunks
          PROVE  at'[Gen(l)] = at[Gen(l)]
      BY <3>4, TaskNames DEF WriteLine, Progress
    <3>. QED BY <3>3, <3>4
  <2>. QED BY <1>2, <2>1 DEF LinesMade, Made
<1>. QED BY <1>1, <1>2, LinesSame

(* Between the batches the offsets are the lengths of the chunks.          *)
LEMMA ChunkLengths ==
  ASSUME Places, PoolKept, Batches, Progress, LinesMade, OffsetsRight, mpc = "offsets",
         NEW k \in Chunks
  PROVE  offsets[k] = Total(Lens, Chunk(k))
<1>1. offsets[k] = IF Gen(k) \in finished THEN Total(Lens, Chunk(k)) ELSE 0
  BY DEF OffsetsRight
<1>2. CASE pool_ok
  BY <1>1, <1>2 DEF Batches, Between
<1>3. CASE ~pool_ok
  <2>1. Gen(k) \notin finished
    BY <1>3 DEF PoolKept, Batches
  <2>2. IsFiniteSet(Chunk(k)) /\ Cardinality(Chunk(k)) \in Nat
    <3>1. StartLine(k) \in Int /\ EndLine(k) - 1 \in Int
      BY ChunkBounds
    <3>. QED BY <3>1, FS_Interval, FS_CardinalityType DEF Chunk
  <2>3. \A l \in Chunk(k) : Lens[l] \in 0 .. 0
    BY <1>3, NoPoolNoLines, ChunkLines
  <2>4. Total(Lens, Chunk(k)) \in 0 .. 0 * Cardinality(Chunk(k))
    BY <2>2, <2>3, TotalBound
  <2>. QED BY <1>1, <2>1, <2>2, <2>4
<1>. QED BY <1>2, <1>3

(* main adds up what lies before the end of each chunk.                    *)
LEMMA OffsetsAddUp ==
  ASSUME Places, PoolKept, Batches, Progress, LinesMade, OffsetsRight, mpc = "offsets",
         NEW k \in Chunks
  PROVE  OffsetUpTo(k) = Total(Lens, 0 .. EndLine(k) - 1)
<1>. DEFINE Q == {c \in Nat : c \in Chunks =>
                    Total(offsets, 0 .. c) = Total(Lens, 0 .. EndLine(c) - 1)}
<1>1. \A c \in Chunks : offsets[c] = Total(Lens, Chunk(c)) /\ offsets[c] \in Nat
  BY ChunkLengths DEF OffsetsRight
<1>2. k \in Nat /\ k < num_tasks /\ num_tasks \in Nat
  BY TaskCount DEF Chunks
<1>3. 0 \in Q
  <2>. SUFFICES ASSUME 0 \in Chunks
                PROVE  Total(offsets, 0 .. 0) = Total(Lens, 0 .. EndLine(0) - 1)
    OBVIOUS
  <2>1. 0 .. 0 = {0} /\ offsets[0] \in Int
    BY <1>1
  <2>2. Total(offsets, {0}) = offsets[0]
    BY <2>1, TotalOne
  <2>3. Total(offsets, 0 .. 0) = offsets[0]
    BY Zenon, <2>1, <2>2
  <2>. QED BY <1>1, <2>3, FirstChunk DEF Chunk
<1>4. ASSUME NEW c \in 0 .. k - 1, c \in Q PROVE c + 1 \in Q
  <2>1. c \in Nat /\ c + 1 \in Nat /\ c \in Chunks /\ c + 1 \in Chunks /\ (c + 1) - 1 = c
    BY <1>2, <1>4 DEF Chunks
  <2>2. Total(offsets, 0 .. c) = Total(Lens, 0 .. EndLine(c) - 1)
    BY <1>4, <2>1
  <2>3. Total(offsets, 0 .. c + 1) = Total(offsets, 0 .. c) + offsets[c + 1]
    <3>1. \A x \in 0 .. c + 1 : offsets[x] \in Int
      BY <1>1, <1>2, <2>1 DEF Chunks
    <3>2. Total(offsets, 0 .. c + 1) = Total(offsets, 0 .. (c + 1) - 1) + offsets[c + 1]
      BY <2>1, <3>1, TotalNext
    <3>. QED BY <2>1, <3>2
  <2>4. /\ EndLine(c) = StartLine(c + 1) /\ EndLine(c) \in Nat /\ EndLine(c + 1) \in Nat
        /\ EndLine(c) <= EndLine(c + 1)
    BY <2>1, ChunkBounds
  <2>5. \A x \in 0 .. EndLine(c + 1) - 1 : Lens[x] \in Int
    BY <2>1, ChunkLines, LensNat
  <2>6. Total(Lens, 0 .. EndLine(c + 1) - 1)
          = Total(Lens, 0 .. EndLine(c) - 1) + Total(Lens, EndLine(c) .. EndLine(c + 1) - 1)
    BY <2>4, <2>5, TotalSplit
  <2>7. offsets[c + 1] = Total(Lens, EndLine(c) .. EndLine(c + 1) - 1)
    BY <1>1, <2>1, <2>4 DEF Chunk
  <2>8. Total(offsets, 0 .. c + 1) = Total(Lens, 0 .. EndLine(c + 1) - 1)
    BY <2>2, <2>3, <2>6, <2>7
  <2>. QED BY <2>1, <2>8
<1>. HIDE DEF Q
<1>5. k \in Q
  BY <1>2, <1>3, <1>4, CountUp
<1>6. Total(offsets, 0 .. k) = Total(Lens, 0 .. EndLine(k) - 1)
  BY <1>5 DEF Q
<1>. QED BY <1>6 DEF OffsetUpTo, Total

(* The offsets are what they should be after each step.                    *)
LEMMA OffsetsStep ==
  ASSUME Places, PoolKept, Batches, Progress, LinesMade, OffsetsRight, [Next]_vars
  PROVE  OffsetsRight'
<1>. /\ num_lines' = num_lines /\ Chunks' = Chunks /\ Index' = Index
     /\ \A k : EndLine(k)' = EndLine(k) /\ Chunk(k)' = Chunk(k)
  BY Fixed
<1>1. CASE UNCHANGED <<offsets, Lens, finished, mpc>>
  BY <1>1 DEF OffsetsRight
<1>2. CASE Start
  <2>1. UNCHANGED <<offsets, generated, finished>> /\ mpc = "start" /\ mpc' \in {"generate", "failed"}
    BY <1>2 DEF Start, MainGoto, poolVars, taskVars
  <2>2. Lens' = Lens
    BY <2>1 DEF Lens
  <2>. QED BY <2>1, <2>2 DEF OffsetsRight, Generating, Writing, After
<1>3. CASE PutGenerate \/ PutWrite
  <2>1. /\ UNCHANGED <<offsets, generated, finished>>
        /\ \/ mpc = "generate" /\ mpc' \in {"generate", "wait1"}
           \/ mpc = "write" /\ mpc' \in {"write", "wait2"}
    BY <1>3 DEF PutGenerate, PutWrite, PutTask, MainGoto, Pool!Accept, poolVars, taskVars
  <2>2. Lens' = Lens
    BY <2>1 DEF Lens
  <2>. QED BY <2>1, <2>2 DEF OffsetsRight, Generating, Writing, After
<1>4. CASE AddOffsets
  <2>1. /\ mpc = "offsets" /\ mpc' = "open" /\ offsets' = [k \in Chunks |-> OffsetUpTo(k)]
        /\ UNCHANGED generated
    BY <1>4 DEF AddOffsets, MainGoto, OffsetsRight
  <2>2. Lens' = Lens
    BY <2>1 DEF Lens
  <2>3. \A k \in Chunks : /\ offsets'[k] = Total(Lens, 0 .. EndLine(k) - 1)
                          /\ Total(Lens, 0 .. EndLine(k) - 1) \in Nat
    <3>. TAKE k \in Chunks
    <3>1. offsets'[k] = Total(Lens, 0 .. EndLine(k) - 1)
      BY <2>1, OffsetsAddUp
    <3>2. Total(Lens, 0 .. EndLine(k) - 1) \in Nat
      <4>1. \A x \in 0 .. EndLine(k) - 1 : Lens[x] \in Nat
        BY ChunkLines, LensNat
      <4>2. EndLine(k) \in Int
        BY ChunkBounds
      <4>. QED BY <4>1, <4>2, TotalPart
    <3>. QED BY <3>1, <3>2
  <2>4. offsets' \in [Chunks -> Nat]
    BY <2>1, <2>3
  <2>. QED BY <2>1, <2>2, <2>3, <2>4 DEF OffsetsRight, Generating, Writing, After
<1>5. CASE MainOther /\ ~AddOffsets
  <2>1. UNCHANGED <<offsets, finished>>
    BY <1>5, MainOtherPool DEF MainOther, CallWait, ReturnWait, Sort, FileFails, MapFile,
              BeginDestroy, EndDestroy, taskVars
  <2>2. Lens' = Lens
    <3>1. Sort => generated' = generated
      BY SortKeeps
    <3>2. generated' = generated
      BY <1>5, <3>1 DEF MainOther, CallWait, ReturnWait, FileFails, MapFile,
              BeginDestroy, EndDestroy, taskVars
    <3>. QED BY <3>2 DEF Lens
  <2>3. \/ mpc' \in {"waiting1", "sort", "offsets"} /\ mpc \in Generating \cup {"sort"}
        \/ mpc' \in {"crashed", "failed"}
        \/ mpc \in {"open"} \cup Writing \cup After /\ mpc' \in Writing \cup After
    BY <1>5 DEF MainOther, CallWait, ReturnWait, Sort, FileFails, MapFile,
              BeginDestroy, EndDestroy, MainGoto, Generating, Writing, After
  <2>. QED BY <2>1, <2>2, <2>3 DEF OffsetsRight, Generating, Writing, After
<1>6. ASSUME NEW k \in Chunks, GenerateLine(k)
      PROVE  OffsetsRight'
  <2>. DEFINE a == at[Gen(k)]
  <2>1. /\ a \in Chunk(k) /\ Gen(k) \notin finished /\ mpc \in Generating
        /\ \A l \in Index : l # a => Lens'[l] = Lens[l]
    BY <1>6, LineGenerated
  <2>2. ASSUME NEW c \in Chunks, Gen(c) \in finished
        PROVE  Total(Lens', Chunk(c)) = Total(Lens, Chunk(c))
    <3>1. c # k
      BY <2>1, <2>2
    <3>2. IsFiniteSet(Chunk(c))
      <4>1. StartLine(c) \in Int /\ EndLine(c) - 1 \in Int
        BY ChunkBounds
      <4>. QED BY <4>1, FS_Interval DEF Chunk
    <3>3. a \notin Chunk(c) /\ Chunk(c) \subseteq Index
      BY <2>1, <3>1, ChunksDisjoint, ChunkLines
    <3>4. \A l \in Chunk(c) : Lens'[l] = Lens[l]
      BY <2>1, <3>3
    <3>. QED BY <3>2, <3>4, TotalSame
  <2>3. UNCHANGED <<offsets, finished, mpc>>
    BY <1>6 DEF GenerateLine, poolVars
  <2>. QED BY <2>1, <2>2, <2>3 DEF OffsetsRight, Generating, Writing, After
<1>7. ASSUME NEW k \in Chunks, EndGenerate(k)
      PROVE  OffsetsRight'
  <2>1. /\ Gen(k) \in active /\ offsets' = [offsets EXCEPT ![k] = total[Gen(k)]]
        /\ finished' = finished \cup {Gen(k)} /\ at[Gen(k)] >= EndLine(k)
        /\ UNCHANGED <<mpc, generated>>
    BY <1>7 DEF EndGenerate, Pool!Finish
  <2>2. mpc \in Generating /\ Lens' = Lens
    BY <2>1, WhenActive DEF Lens
  <2>3. total[Gen(k)] = Total(Lens, Chunk(k))
    <3>1. Gen(k) \in Task /\ Gen(k)[2] = k
      BY TaskNames
    <3>2. at[Gen(k)] = EndLine(k)
      BY <2>1, <3>1, BehindTask
    <3>. QED BY <3>1, <3>2 DEF Progress, Chunk
  <2>4. Total(Lens, Chunk(k)) \in Nat
    <3>1. \A x \in StartLine(k) .. EndLine(k) - 1 : Lens[x] \in Nat
      BY ChunkLines, LensNat DEF Chunk
    <3>2. StartLine(k) \in Int /\ EndLine(k) \in Int
      BY ChunkBounds
    <3>. QED BY <3>1, <3>2, TotalPart DEF Chunk
  <2>5. /\ offsets' \in [Chunks -> Nat] /\ offsets'[k] = Total(Lens, Chunk(k))
        /\ \A c \in Chunks : c # k => offsets'[c] = offsets[c]
    BY <2>1, <2>3, <2>4 DEF OffsetsRight
  <2>6. \A c \in Chunks : c # k => (Gen(c) \in finished' <=> Gen(c) \in finished)
    BY <2>1, TaskNames
  <2>. QED BY <2>1, <2>2, <2>5, <2>6 DEF OffsetsRight, Generating, Writing, After
<1>8. ASSUME NEW k \in Chunks, WriteLine(k)
      PROVE  OffsetsRight'
  BY <1>1, <1>8 DEF WriteLine, Lens, poolVars
<1>9. ASSUME NEW k \in Chunks, EndWrite(k)
      PROVE  OffsetsRight'
  <2>1. finished' = finished \cup {Wr(k)} /\ UNCHANGED <<offsets, Lens, mpc>>
    BY <1>9 DEF EndWrite, Pool!Finish, Lens, taskVars
  <2>2. \A c \in Chunks : Gen(c) \in finished' <=> Gen(c) \in finished
    BY <2>1, TaskNames
  <2>. QED BY <2>1, <2>2 DEF OffsetsRight
<1>10. CASE StartTask \/ UNCHANGED vars
  <2>1. UNCHANGED <<offsets, generated, finished, mpc>>
    BY <1>10 DEF StartTask, Pool!Start, vars, poolVars, taskVars
  <2>. QED BY <1>1, <2>1 DEF Lens
<1>. QED BY <1>2, <1>3, <1>4, <1>5, <1>6, <1>7, <1>8, <1>9, <1>10, Steps

-----------------------------------------------------------------------------
(* The file.                                                               *)

(* A task of the second batch copies its next line to where it begins.     *)
LEMMA LinePlace ==
  ASSUME Places, PoolKept, Batches, Progress, LinesMade, OffsetsRight,
         NEW k \in Chunks, WriteLine(k), NEW a, a = at[Wr(k)]
  PROVE  /\ a \in Index /\ a \in Nat /\ a < EndLine(k) /\ generated[a].lineno = a + 1
         /\ generated[a].length = Lens[a]
         /\ WriteOffset(k) + total[Wr(k)] = Pos(a)
<1>1. Wr(k) \in Task /\ Wr(k)[2] = k /\ Wr(k) \in active /\ a < EndLine(k)
  BY TaskNames DEF WriteLine
<1>2. /\ a \in Index /\ a \in Chunk(k) /\ a \in Nat
      /\ StartLine(k) \in Nat /\ StartLine(k) <= a /\ EndLine(k) \in Nat
  BY <1>1, BehindTask
<1>3. mpc \in Writing /\ pool_ok
  BY <1>1, WhenActive DEF Batches
<1>4. generated[a].lineno = a + 1
  <2>1. Gen(k) \in finished
    BY <1>3 DEF Batches
  <2>2. at[Gen(k)] = EndLine(k)
    BY <2>1, TaskNames DEF Progress
  <2>. QED BY <1>1, <1>2, <2>2 DEF LinesMade, Made
<1>5. WriteOffset(k) = Total(Lens, 0 .. StartLine(k) - 1)
  <2>1. CASE k = 0
    <3>1. StartLine(k) = 0 /\ 0 .. StartLine(k) - 1 = {}
      BY <2>1, FirstChunk
    <3>2. Total(Lens, 0 .. StartLine(k) - 1) = 0
      BY Zenon, <3>1, TotalEmpty
    <3>. QED BY <2>1, <3>2 DEF WriteOffset
  <2>2. CASE k # 0
    <3>1. k - 1 \in Chunks /\ (k - 1) + 1 = k
      BY <2>2, TaskCount DEF Chunks
    <3>2. EndLine(k - 1) = StartLine(k)
      BY <3>1, ChunkBounds
    <3>. QED BY <1>3, <2>2, <3>1, <3>2 DEF WriteOffset, OffsetsRight
  <2>. QED BY <2>1, <2>2
<1>6. total[Wr(k)] = Total(Lens, StartLine(k) .. a - 1)
  BY <1>1 DEF Progress
<1>7. \A x \in 0 .. a - 1 : Lens[x] \in Int
  BY <1>2, TaskCount, LensNat DEF Index
<1>8. Total(Lens, 0 .. a - 1) = Total(Lens, 0 .. StartLine(k) - 1) + Total(Lens, StartLine(k) .. a - 1)
  BY <1>2, <1>7, TotalSplit
<1>. QED BY <1>1, <1>2, <1>4, <1>5, <1>6, <1>8 DEF Pos, Lens

(* The lines that are in the file stay where they belong, and each is      *)
(* written there.                                                          *)
LEMMA WrittenStep ==
  ASSUME Places, PoolKept, Batches, Progress, LinesMade, OffsetsRight, LinesWritten, [Next]_vars
  PROVE  LinesWritten'
<1>. /\ num_lines' = num_lines /\ Chunks' = Chunks /\ Index' = Index
  BY Fixed
<1>0. num_lines \in Nat
  BY TaskCount
<1>1. CASE UNCHANGED <<file, at, Lens>> /\ (mpc' \in Writing \cup After => mpc \in Writing \cup After)
  BY <1>1 DEF LinesWritten
<1>2. CASE Start
  BY <1>2 DEF Start, MainGoto, LinesWritten, Writing, After
<1>3. CASE PutGenerate \/ PutWrite
  <2>1. /\ UNCHANGED <<file, at, generated>>
        /\ \/ mpc = "generate" /\ mpc' \in {"generate", "wait1"}
           \/ mpc = "write" /\ mpc' \in {"write", "wait2"}
    BY <1>3 DEF PutGenerate, PutWrite, PutTask, MainGoto, taskVars
  <2>. QED BY <1>1, <2>1 DEF Lens, Writing, After
<1>4. CASE MapFile
  <2>1. /\ mpc = "open" /\ mpc' = "write"
        /\ file' = [p \in 0 .. offsets[num_tasks - 1] - 1 |-> <<0, 0>>]
        /\ UNCHANGED <<generated, at>> /\ num_lines > 0
    BY <1>4 DEF MapFile, MainGoto, Batches
  <2>2. num_tasks - 1 \in Chunks
    <3>1. num_tasks \in Nat /\ num_tasks # 0
      BY <1>0, <2>1, TaskCount, WriterAssumption
    <3>. QED BY <3>1 DEF Chunks
  <2>3. offsets[num_tasks - 1] = Total(Lens, Index)
    BY <2>1, <2>2, ChunkBounds DEF OffsetsRight, Index
  <2>4. DOMAIN file' = 0 .. Total(Lens, Index) - 1
    BY <2>1, <2>3
  <2>5. \A k \in Chunks : StartLine(k) .. at[Wr(k)] - 1 = {}
    <3>. TAKE k \in Chunks
    <3>1. at[Wr(k)] = StartLine(k) /\ StartLine(k) \in Nat
      BY <2>1, ChunkBounds DEF Progress, Writing, After
    <3>. QED BY <3>1
  <2>6. Lens' = Lens
    BY <2>1 DEF Lens
  <2>. QED BY <2>1, <2>4, <2>5, <2>6 DEF LinesWritten
<1>5. CASE MainOther /\ ~MapFile
  <2>1. UNCHANGED <<file, at>>
    BY <1>5 DEF MainOther, CallWait, ReturnWait, Sort, AddOffsets, FileFails,
              BeginDestroy, EndDestroy, taskVars
  <2>2. Lens' = Lens
    <3>1. Sort => generated' = generated
      BY SortKeeps
    <3>2. generated' = generated
      BY <1>5, <3>1 DEF MainOther, CallWait, ReturnWait, AddOffsets, FileFails,
              BeginDestroy, EndDestroy, taskVars
    <3>. QED BY <3>2 DEF Lens
  <2>3. mpc' \in Writing \cup After => mpc \in Writing \cup After
    BY <1>5, MainOtherMoves DEF MainGoto, Writing, After
  <2>. QED BY <1>1, <2>1, <2>2, <2>3
<1>6. ASSUME NEW k \in Chunks, GenerateLine(k)
      PROVE  LinesWritten'
  <2>1. mpc \in Generating /\ mpc' = mpc
    BY <1>6, WhenActive DEF GenerateLine
  <2>. QED BY <2>1 DEF LinesWritten, Generating, Writing, After
<1>7. ASSUME NEW k \in Chunks, WriteLine(k)
      PROVE  LinesWritten'
  <2>. DEFINE t == Wr(k)
              a == at[t]
              base == Pos(a)
  <2>1. /\ a \in Index /\ a \in Nat /\ a < EndLine(k) /\ generated[a].lineno = a + 1
        /\ generated[a].length = Lens[a] /\ WriteOffset(k) + total[t] = base
    BY <1>7, LinePlace
  <2>2. /\ mpc \in Writing /\ mpc' = mpc /\ generated' = generated
        /\ at' = [at EXCEPT ![t] = a + 1]
        /\ file' = [p \in DOMAIN file |->
                      IF p - base \in 0 .. Lens[a] - 1 THEN <<a + 1, p - base>> ELSE file[p]]
    <3>1. mpc \in Writing
      BY <1>7, WhenActive DEF WriteLine
    <3>. QED BY <1>7, <2>1, <3>1 DEF WriteLine, Progress
  <2>3. Lens' = Lens
    BY <2>2 DEF Lens
  <2>4. DOMAIN file = 0 .. Pos(num_lines) - 1
    BY <2>2 DEF LinesWritten, Pos, Index
  <2>5. /\ base \in Nat /\ Lens[a] \in Nat /\ Pos(a + 1) = base + Lens[a]
        /\ Pos(a + 1) <= Pos(num_lines) /\ Pos(a + 1) \in Nat /\ Pos(num_lines) \in Nat
    <3>1. /\ base \in Nat /\ Lens[a] \in Nat /\ Pos(a + 1) = base + Lens[a]
      BY <2>1, PosGrows, LensNat
    <3>2. a + 1 \in 0 .. num_lines /\ num_lines \in (a + 1) .. num_lines
      BY <1>0, <2>1 DEF Index
    <3>. QED BY <3>1, <3>2, PosOrder
  <2>6. DOMAIN file' = 0 .. Total(Lens, Index) - 1
    BY <2>2 DEF LinesWritten
  <2>. HIDE DEF base
  <2>7. \A p \in 0 .. Lens[a] - 1 : file'[base + p] = <<a + 1, p>>
    <3>. TAKE p \in 0 .. Lens[a] - 1
    <3>1. base + p \in DOMAIN file /\ (base + p) - base = p
      BY <2>4, <2>5
    <3>. QED BY <2>2, <3>1
  <2>8. ASSUME NEW l \in Index, l # a, NEW p \in 0 .. Lens[l] - 1,
               file[Pos(l) + p] = <<l + 1, p>>
        PROVE  file'[Pos(l) + p] = <<l + 1, p>>
    <3>1. /\ Pos(l) \in Nat /\ Lens[l] \in Nat /\ Pos(l + 1) = Pos(l) + Lens[l]
          /\ Pos(l + 1) <= Pos(num_lines) /\ l \in Nat
      <4>1. Pos(l) \in Nat /\ Lens[l] \in Nat /\ Pos(l + 1) = Pos(l) + Lens[l]
        BY PosGrows, LensNat
      <4>2. l \in Nat /\ l + 1 \in 0 .. num_lines /\ num_lines \in (l + 1) .. num_lines
        BY <1>0 DEF Index
      <4>. QED BY <4>1, <4>2, PosOrder
    <3>2. Pos(l) + p \in DOMAIN file
      BY <2>4, <2>5, <3>1
    <3>3. l < a => Pos(l + 1) <= base
      <4>. SUFFICES ASSUME l < a PROVE Pos(l + 1) <= base
        OBVIOUS
      <4>1. l + 1 \in 0 .. num_lines /\ a \in (l + 1) .. num_lines
        BY <1>0, <2>1, <3>1 DEF Index
      <4>. QED BY <4>1, PosOrder DEF base
    <3>4. a < l => Pos(a + 1) <= Pos(l)
      <4>. SUFFICES ASSUME a < l PROVE Pos(a + 1) <= Pos(l)
        OBVIOUS
      <4>1. a + 1 \in 0 .. num_lines /\ l \in (a + 1) .. num_lines
        BY <1>0, <2>1, <3>1 DEF Index
      <4>. QED BY <4>1, PosOrder
    <3>5. (Pos(l) + p) - base \notin 0 .. Lens[a] - 1
      BY <2>1, <2>5, <2>8, <3>1, <3>3, <3>4
    <3>. QED BY <2>2, <2>8, <3>2, <3>5
  <2>9. ASSUME NEW c \in Chunks, NEW l \in StartLine(c) .. at'[Wr(c)] - 1, NEW p \in 0 .. Lens[l] - 1
        PROVE  file'[Pos(l) + p] = <<l + 1, p>>
    <3>1. CASE l = a
      BY <2>7, <3>1 DEF base
    <3>2. CASE l # a
      <4>1. Wr(c) \in Task /\ Wr(c)[2] = c /\ t \in Task /\ at[Wr(c)] \in Nat /\ a \in Nat
            /\ StartLine(c) \in Nat
        BY <2>1, TaskNames, BehindTask
      <4>2. at'[Wr(c)] = at[Wr(c)] \/ (Wr(c) = t /\ at'[Wr(c)] = a + 1)
        BY <2>2, <4>1 DEF Progress
      <4>3. l \in StartLine(c) .. at[Wr(c)] - 1
        BY <3>2, <4>1, <4>2
      <4>4. l \in Index
        BY <4>1, <4>3, BehindTask, ChunkLines
      <4>5. file[Pos(l) + p] = <<l + 1, p>>
        BY <2>2, <4>3 DEF LinesWritten, Pos
      <4>. QED BY <2>8, <3>2, <4>4, <4>5
    <3>. QED BY <3>1, <3>2
  <2>10. ASSUME NEW c \in Chunks, NEW l \in StartLine(c) .. at'[Wr(c)] - 1, NEW p \in 0 .. Lens[l] - 1
         PROVE  file'[Total(Lens, 0 .. l - 1) + p] = <<l + 1, p>>
    BY <2>9 DEF Pos
  <2>. QED BY <2>3, <2>6, <2>10 DEF LinesWritten
<1>8. ASSUME NEW k \in Chunks, EndGenerate(k) \/ EndWrite(k)
      PROVE  LinesWritten'
  <2>1. UNCHANGED <<file, at, generated, mpc>>
    BY <1>8 DEF EndGenerate, EndWrite, taskVars
  <2>. QED BY <1>1, <2>1 DEF Lens
<1>9. CASE StartTask \/ UNCHANGED vars
  <2>1. UNCHANGED <<file, at, generated, mpc>>
    BY <1>9 DEF StartTask, vars, taskVars
  <2>. QED BY <1>1, <2>1 DEF Lens
<1>. QED BY <1>2, <1>3, <1>4, <1>5, <1>6, <1>7, <1>8, <1>9, Steps

-----------------------------------------------------------------------------
(* The theorems.                                                           *)

(* The invariant holds at the start.                                       *)
LEMMA InvInit == Init => IInv
<1>. SUFFICES ASSUME Init PROVE IInv
  OBVIOUS
<1>1. Places /\ mpc = "start" /\ ~pool_ok /\ i = 0
  BY DEF Init, Places
<1>2. accepted = {} /\ backlog = <<>> /\ active = {} /\ finished = {}
  BY DEF Init, Pool!Init
<1>3. PoolKept /\ Pending = {}
  <2>1. backlog \in Seq(Task) /\ Range(backlog) = {}
    BY <1>2 DEF Range
  <2>. QED BY <1>2, <2>1 DEF PoolKept, Pending
<1>4. Batches
  <2>1. num_tasks \in Nat
    BY <1>1, TaskCount
  <2>. QED BY <1>1, <1>2, <1>3, <2>1 DEF Batches, Generating, Between, Writing, After
<1>5. at \in [Task -> Nat] /\ \A t \in Task : at[t] = StartLine(t[2]) /\ StartLine(t[2]) \in Nat
  <2>1. \A t \in Task : t[2] \in Nat
    BY WriterAssumption DEF Task
  <2>2. \A t \in Task : StartLine(t[2]) \in Nat
    <3>. TAKE t \in Task
    <3>1. t[2] \in Nat /\ Fac \in Nat
      BY <2>1, WriterAssumption
    <3>. QED BY <3>1 DEF StartLine
  <2>. QED BY <2>2 DEF Init
<1>6. Progress
  <2>1. total \in [Task -> Int] /\ \A t \in Task : total[t] = 0
    BY DEF Init
  <2>2. ASSUME NEW t \in Task, t[2] \in Chunks
        PROVE  /\ at[t] \in StartLine(t[2]) .. EndLine(t[2])
               /\ total[t] = Total(Lens, StartLine(t[2]) .. at[t] - 1)
    <3>1. StartLine(t[2]) \in Nat /\ EndLine(t[2]) \in Nat /\ StartLine(t[2]) <= EndLine(t[2])
      BY <1>1, <2>2, ChunkBounds
    <3>2. StartLine(t[2]) .. at[t] - 1 = {}
      BY <1>5, <3>1
    <3>3. Total(Lens, StartLine(t[2]) .. at[t] - 1) = 0
      BY Zenon, <3>2, TotalEmpty
    <3>. QED BY <1>5, <2>1, <3>1, <3>3
  <2>3. \A k \in Chunks : at[Gen(k)] = StartLine(k) /\ at[Wr(k)] = StartLine(k)
    BY <1>1, <1>5, TaskNames
  <2>. QED BY <1>2, <1>5, <2>1, <2>2, <2>3 DEF Progress
<1>7. LinesMade
  <2>1. generated = [l \in Index |-> NullLine]
    BY DEF Init
  <2>2. \A k \in Chunks : \A l \in Chunk(k) : l \in Index /\ ~(l < at[Gen(k)])
    BY <1>1, <1>5, TaskNames, ChunkLines, ChunkBounds
  <2>. QED BY <2>1, <2>2 DEF LinesMade
<1>8. OffsetsRight
  BY <1>1, <1>2 DEF Init, OffsetsRight, Chunks, Generating, Writing, After
<1>9. LinesWritten
  BY <1>1 DEF LinesWritten, Writing, After
<1>. QED BY <1>1, <1>3, <1>4, <1>6, <1>7, <1>8, <1>9 DEF IInv

(* The invariant is inductive.                                             *)
LEMMA InvAlways == Spec => []IInv
<1>1. IInv /\ [Next]_vars => IInv'
  BY BatchesStep, ProgressStep, LinesMadeStep, OffsetsStep, WrittenStep DEF IInv
<1>. QED BY <1>1, InvInit, PTL DEF Spec

(* Every task stays inside the lines, whatever the number of lines and the *)
(* size of the chunks, the last of which may be cut short.                 *)
THEOREM Typing == Spec => []TypeOK
<1>1. IInv => TypeOK
  <2>. SUFFICES ASSUME IInv PROVE TypeOK
    OBVIOUS
  <2>1. /\ mpc \in {"start", "generate", "wait1", "waiting1", "sort", "offsets", "open",
              "write", "wait2", "waiting2", "destroy", "join", "done", "failed", "crashed"}
        /\ num_lines \in 0 .. MaxLines /\ pool_ok \in BOOLEAN /\ i \in 0 .. num_tasks
    BY DEF IInv, Places, Batches, Generating, Between, Writing, After
  <2>2. /\ generated \in [Index -> {NullLine} \cup [lineno : 1 .. num_lines, length : Lengths]]
        /\ offsets \in [0 .. num_tasks - 1 -> Nat]
    BY DEF IInv, LinesMade, OffsetsRight, Chunks
  <2>3. ASSUME NEW t \in active
        PROVE  t[2] < num_tasks /\ at[t] \in StartLine(t[2]) .. num_lines
    <3>1. PICK k \in Chunks : t = Gen(k) \/ t = Wr(k)
      BY DEF IInv, Batches, PoolKept, Pending
    <3>2. t \in Task /\ t[2] = k /\ k < num_tasks
      BY <3>1, TaskNames, TaskCount DEF IInv, Chunks
    <3>3. EndLine(k) <= num_lines /\ num_lines \in Nat
      BY ChunkBounds, TaskCount DEF IInv
    <3>. QED BY <3>2, <3>3, BehindTask DEF IInv
  <2>. QED BY <2>1, <2>2, <2>3 DEF TypeOK
<1>. QED BY <1>1, InvAlways, PTL

(* A line is generated once and never changes again, not by a second task, *)
(* nor by the second batch, nor by the sort                                *)
(* (writing_to_file_threaded.c:130-148, 224).                              *)
THEOREM LinesStayThere == Spec => LinesStay
<1>1. IInv /\ [Next]_vars => [\A l \in Index : generated[l] # NullLine => generated'[l] = generated[l]]_vars
  <2>. SUFFICES ASSUME IInv, [Next]_vars, NEW l \in Index, generated[l] # NullLine
                PROVE  generated'[l] = generated[l]
    OBVIOUS
  <2>1. CASE generated' = generated
    BY <2>1
  <2>2. ASSUME NEW k \in Chunks, GenerateLine(k) PROVE generated'[l] = generated[l]
    BY <2>2, LineGenerated, Fixed DEF IInv
  <2>. QED BY <2>1, <2>2, LinesSame DEF IInv
<1>. QED BY <1>1, InvAlways, PTL DEF Spec, LinesStay

(* The wait between the batches is a barrier: main sorts, and adds up the  *)
(* offsets, when every line is there and no task runs                      *)
(* (writing_to_file_threaded.c:221-237).                                   *)
THEOREM Barrier == Spec => []SortSeesWholeBatch
<1>1. IInv => SortSeesWholeBatch
  <2>. SUFFICES ASSUME IInv, pool_ok, mpc \in {"sort", "offsets"}
                PROVE  active = {} /\ \A l \in Index : generated[l] # NullLine
    BY DEF SortSeesWholeBatch
  <2>1. active = {}
    BY DEF IInv, Batches, Pending, Generating, Writing
  <2>2. ASSUME NEW l \in Index PROVE generated[l] # NullLine
    <3>1. PICK k \in Chunks : l \in Chunk(k)
      BY ChunksCover DEF IInv
    <3>2. at[Gen(k)] = EndLine(k)
      BY TaskNames DEF IInv, Batches, Between, Progress
    <3>3. l \in Nat /\ Made(l)
      BY <3>1, <3>2, ChunkLines DEF IInv, LinesMade
    <3>. QED BY <3>3 DEF Made, NullLine
  <2>. QED BY <2>1, <2>2
<1>. QED BY <1>1, InvAlways, PTL

(* The finished file is byte for byte that of the serial program, for any  *)
(* number of lines of any lengths, in whatever order the tasks of the two  *)
(* batches ran (writing_to_file_serial.c:129-131).                         *)
THEOREM SerialFile == Spec => []FileIsSerial
<1>1. IInv => FileIsSerial
  <2>. SUFFICES ASSUME IInv, mpc = "done"
                PROVE  /\ DOMAIN file = 0 .. SerialStart(num_lines) - 1
                       /\ \A l \in Index : \A p \in 0 .. generated[l].length - 1 :
                            file[SerialStart(l) + p] = <<l + 1, p>>
    BY DEF FileIsSerial
  <2>1. /\ Places /\ mpc \in After /\ num_lines \in Nat
        /\ num_lines \in 0 .. num_lines /\ \A l \in Index : l \in 0 .. num_lines
    <3>1. num_lines \in Nat
      BY TaskCount DEF IInv
    <3>. QED BY <3>1 DEF IInv, After, Index
  <2>2. SerialStart(num_lines) = Total(Lens, Index)
    BY <2>1, SerialStartIs DEF Pos, Index
  <2>3. ASSUME NEW l \in Index, NEW p \in 0 .. generated[l].length - 1
        PROVE  file[SerialStart(l) + p] = <<l + 1, p>>
    <3>1. PICK k \in Chunks : l \in Chunk(k)
      BY <2>1, ChunksCover
    <3>2. at[Wr(k)] = EndLine(k)
      BY <2>1, TaskNames DEF IInv, Batches, Progress
    <3>3. l \in StartLine(k) .. at[Wr(k)] - 1
      BY <3>1, <3>2 DEF Chunk
    <3>4. p \in 0 .. Lens[l] - 1
      BY DEF Lens
    <3>5. SerialStart(l) = Total(Lens, 0 .. l - 1)
      BY <2>1, SerialStartIs DEF Pos
    <3>. QED BY <2>1, <3>3, <3>4, <3>5 DEF IInv, LinesWritten
  <2>. QED BY <2>1, <2>2, <2>3 DEF IInv, LinesWritten
<1>. QED BY <1>1, InvAlways, PTL
=============================================================================

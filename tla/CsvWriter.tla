------------------------------ MODULE CsvWriter ------------------------------
(***************************************************************************)
(* src/examples/writing_to_file_threaded.c: a first batch of tasks         *)
(* generates lines, main waits for it, sorts the lines, adds up their      *)
(* lengths and maps the file; a second batch copies the lines to where     *)
(* they belong.  The file is to be the one that                            *)
(* src/examples/writing_to_file_serial.c makes of the same lines.          *)
(*                                                                         *)
(* The pool is used through its contract; main is its only client.  A line *)
(* is its number and its length, a byte of the file is a line number and a *)
(* position in that line.  Lines are indexed from 0, as in the code.       *)
(***************************************************************************)
EXTENDS Integers, Sequences, FiniteSets, FiniteSetsExt

CONSTANTS
  MaxLines,  (* bound: the largest number of lines asked for               *)
  Lengths,   (* bound: the lengths a line may have                         *)
  Fac,       (* fac, the lines of one task                                 *)
  Slots,     (* queue_size                                                 *)
  Width      (* num_threads                                                *)

ASSUME WriterAssumption ==
  /\ MaxLines \in Nat /\ Lengths \subseteq Nat \ {0}
  /\ Fac \in Nat \ {0} /\ Slots \in Nat \ {0} /\ Width \in Nat \ {0}

VARIABLES
  accepted, backlog, active, finished, waiting, closed, gone,  (* PoolContract *)
  mpc,        (* where main is                                             *)
  num_lines,
  pool_ok,    (* yatpool_init returned a pool                              *)
  i,          (* the loop variable of main                                 *)
  generated,  (* the array of lines                                        *)
  offsets,    (* the array that tasks and main share                       *)
  file,       (* the mapped file                                           *)
  at,         (* the next line of each task                                *)
  total       (* total_line_length, running_total_bytes of each task       *)

Gen(k) == <<"generate", k>>
Wr(k) == <<"write", k>>
Task == {"generate", "write"} \X (0 .. MaxLines)

Pool == INSTANCE PoolContract WITH Client <- {"main"}, MayDrop <- FALSE

poolVars == <<accepted, backlog, active, finished, waiting, closed, gone>>
taskVars == <<generated, offsets, file, at, total>>
vars == <<poolVars, mpc, num_lines, pool_ok, i, taskVars>>

NullLine == [lineno |-> 0, length |-> 0]
Index == 0 .. num_lines - 1

num_tasks == num_lines \div Fac + (IF num_lines % Fac = 0 THEN 0 ELSE 1)

StartLine(k) == Fac * k

\* Mutant: the line after the last one is included.
EndLineBeyond(k) == Min({Fac * (k + 1) + 1, num_lines})

\* Mutant: the last chunk is not cut to the number of lines.
EndLineUncut(k) == Fac * (k + 1)

EndLine(k) == Min({Fac * (k + 1), num_lines})

Init ==
  /\ Pool!Init
  /\ mpc = "start"
  /\ num_lines \in 0 .. MaxLines
  /\ pool_ok = FALSE
  /\ i = 0
  /\ generated = [l \in Index |-> NullLine]
  /\ offsets = [k \in 0 .. num_tasks - 1 |-> 0]
  /\ file = <<>>
  /\ at = [t \in Task |-> StartLine(t[2])]
  /\ total = [t \in Task |-> 0]

-----------------------------------------------------------------------------
(* main                                                                    *)

MainGoto(from, to) == mpc = from /\ mpc' = to

\* At least one line is asked for; the result of yatpool_init is not tested.
Start ==
  /\ MainGoto("start", IF num_lines < 1 THEN "failed" ELSE "generate")
  /\ pool_ok' \in BOOLEAN
  /\ UNCHANGED <<poolVars, num_lines, i, taskVars>>

\* One turn of a loop that submits the tasks of a batch.  Without a pool
\* yatpool_put refuses, which nobody looks at.
PutTask(batch, t, next) ==
  /\ IF i < num_tasks
     THEN /\ MainGoto(batch, batch)
          /\ i' = i + 1
          /\ IF pool_ok THEN Pool!Accept(t) ELSE UNCHANGED poolVars
     ELSE /\ MainGoto(batch, next)
          /\ i' = 0
          /\ UNCHANGED poolVars
  /\ UNCHANGED <<num_lines, pool_ok, taskVars>>

PutGenerate == PutTask("generate", Gen(i), "wait1")
PutWrite == PutTask("write", Wr(i), "wait2")

CallWait(from, to) ==
  /\ MainGoto(from, to)
  /\ IF pool_ok THEN Pool!BeginWait("main") ELSE UNCHANGED poolVars
  /\ UNCHANGED <<num_lines, pool_ok, i, taskVars>>

\* Mutant: main goes on without waiting.
WaitNotDone == waiting' = {} /\ UNCHANGED <<accepted, backlog, active, finished, closed, gone>>

WaitDone == IF pool_ok THEN Pool!EndWait("main") ELSE UNCHANGED poolVars

ReturnWait(from, to) ==
  /\ MainGoto(from, to)
  /\ WaitDone
  /\ UNCHANGED <<num_lines, pool_ok, i, taskVars>>

\* qsort puts the line objects in the order of their numbers.
SortedLines ==
  [l \in Index |->
     CHOOSE line \in {generated[m] : m \in Index} :
       Cardinality({m \in Index : generated[m].lineno < line.lineno}) = l]

\* It compares only if there are two lines, and a null line crashes cmp_lines.
Sort ==
  /\ mpc = "sort"
  /\ IF \E l \in Index : generated[l] = NullLine
     THEN /\ mpc' = IF num_lines > 1 THEN "crashed" ELSE "offsets"
          /\ UNCHANGED generated
     ELSE /\ mpc' = "offsets"
          /\ generated' = SortedLines
  /\ UNCHANGED <<poolVars, num_lines, pool_ok, i, offsets, file, at, total>>

\* Mutant: the length of the chunk itself is left out.
OffsetUpToExclusive(k) == MapThenSumSet(LAMBDA j : offsets[j], 0 .. k - 1)

\* What the loop of main makes of offsets[k].
OffsetUpTo(k) == MapThenSumSet(LAMBDA j : offsets[j], 0 .. k)

AddOffsets ==
  /\ MainGoto("offsets", "open")
  /\ offsets' = [k \in DOMAIN offsets |-> OffsetUpTo(k)]
  /\ UNCHANGED <<poolVars, num_lines, pool_ok, i, generated, file, at, total>>

\* Opening, sizing or mapping the file fails; a file of no bytes cannot be
\* mapped.  The program ends without destroying the pool.
FileFails ==
  /\ MainGoto("open", "failed")
  /\ UNCHANGED <<poolVars, num_lines, pool_ok, i, taskVars>>

MapFile ==
  /\ MainGoto("open", "write")
  /\ offsets[num_tasks - 1] > 0
  /\ file' = [p \in 0 .. offsets[num_tasks - 1] - 1 |-> <<0, 0>>]
  /\ UNCHANGED <<poolVars, num_lines, pool_ok, i, generated, offsets, at, total>>

BeginDestroy ==
  /\ MainGoto("destroy", "join")
  /\ Pool!Close
  /\ UNCHANGED <<num_lines, pool_ok, i, taskVars>>

\* After the join the file is closed and the lines are freed.
EndDestroy ==
  /\ MainGoto("join", "done")
  /\ Pool!Release
  /\ UNCHANGED <<num_lines, pool_ok, i, taskVars>>

-----------------------------------------------------------------------------
(* The tasks                                                               *)

StartTask ==
  /\ Pool!Start
  /\ UNCHANGED <<mpc, num_lines, pool_ok, i, taskVars>>

\* One turn of the loop of generate_lines.
GenerateLine(k) ==
  LET t == Gen(k)
  IN  /\ t \in active /\ at[t] < EndLine(k)
      /\ \E n \in Lengths :
           /\ generated' = [generated EXCEPT ![at[t]] = [lineno |-> at[t] + 1, length |-> n]]
           /\ total' = [total EXCEPT ![t] = @ + n]
      /\ at' = [at EXCEPT ![t] = @ + 1]
      /\ UNCHANGED <<poolVars, mpc, num_lines, pool_ok, i, offsets, file>>

EndGenerate(k) ==
  LET t == Gen(k)
  IN  /\ t \in active /\ at[t] >= EndLine(k)
      /\ offsets' = [offsets EXCEPT ![k] = total[t]]
      /\ Pool!Finish(t)
      /\ UNCHANGED <<mpc, num_lines, pool_ok, i, generated, file, at, total>>

WriteOffset(k) == IF k = 0 THEN 0 ELSE offsets[k - 1]

\* One turn of the loop of write_to_file.
WriteLine(k) ==
  LET t == Wr(k)
      line == generated[at[t]]
      base == WriteOffset(k) + total[t]
  IN  /\ t \in active /\ at[t] < EndLine(k)
      /\ file' = [p \in DOMAIN file |->
                    IF p - base \in 0 .. line.length - 1
                    THEN <<line.lineno, p - base>> ELSE file[p]]
      /\ total' = [total EXCEPT ![t] = @ + line.length]
      /\ at' = [at EXCEPT ![t] = @ + 1]
      /\ UNCHANGED <<poolVars, mpc, num_lines, pool_ok, i, generated, offsets>>

EndWrite(k) ==
  LET t == Wr(k)
  IN  /\ t \in active /\ at[t] >= EndLine(k)
      /\ Pool!Finish(t)
      /\ UNCHANGED <<mpc, num_lines, pool_ok, i, taskVars>>

-----------------------------------------------------------------------------

MainStep ==
  \/ Start \/ PutGenerate \/ PutWrite
  \/ CallWait("wait1", "waiting1") \/ ReturnWait("waiting1", "sort")
  \/ CallWait("wait2", "waiting2") \/ ReturnWait("waiting2", "destroy")
  \/ Sort \/ AddOffsets \/ FileFails \/ MapFile \/ BeginDestroy \/ EndDestroy

TaskStep(k) == GenerateLine(k) \/ EndGenerate(k) \/ WriteLine(k) \/ EndWrite(k)

Ended == mpc \in {"done", "failed", "crashed"}

Next ==
  \/ ~Ended /\ (MainStep \/ StartTask \/ \E k \in 0 .. num_tasks - 1 : TaskStep(k))
  \/ Ended /\ UNCHANGED vars

Spec == Init /\ [][Next]_vars

-----------------------------------------------------------------------------

(* No task leaves the array of lines.                                      *)
TypeOK ==
  /\ mpc \in {"start", "generate", "wait1", "waiting1", "sort", "offsets", "open",
              "write", "wait2", "waiting2", "destroy", "join", "done", "failed", "crashed"}
  /\ num_lines \in 0 .. MaxLines /\ pool_ok \in BOOLEAN /\ i \in 0 .. num_tasks
  /\ generated \in [Index -> {NullLine} \cup [lineno : 1 .. num_lines, length : Lengths]]
  /\ offsets \in [0 .. num_tasks - 1 -> Nat]
  /\ \A t \in active : t[2] < num_tasks /\ at[t] \in StartLine(t[2]) .. num_lines

(* writing_to_file_serial.c:129-131: where a line begins.                  *)
SerialStart(l) == MapThenSumSet(LAMBDA m : generated[m].length, 0 .. l - 1)

(* The finished file is byte for byte the file the serial program would    *)
(* write from the same lines, whatever the number of lines, their lengths  *)
(* and the order in which the tasks of either batch ran.                   *)
FileIsSerial ==
  mpc = "done" =>
    /\ DOMAIN file = 0 .. SerialStart(num_lines) - 1
    /\ \A l \in Index : \A p \in 0 .. generated[l].length - 1 :
         file[SerialStart(l) + p] = <<l + 1, p>>

(* No line is generated twice and no line changes once it is there: each   *)
(* belongs to one task, and the second batch, the sort and main leave it.  *)
LinesStay ==
  [][\A l \in Index : generated[l] # NullLine => generated'[l] = generated[l]]_vars

(* Where yatpool_init returned a pool, the wait before the sort is a       *)
(* barrier for the first batch: every line is there, and no task runs      *)
(* while main sorts and adds up the offsets.                               *)
SortSeesWholeBatch ==
  pool_ok /\ mpc \in {"sort", "offsets"} =>
    active = {} /\ \A l \in Index : generated[l] # NullLine
=============================================================================

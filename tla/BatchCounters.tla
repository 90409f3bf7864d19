---------------------------- MODULE BatchCounters ----------------------------
(***************************************************************************)
(* tasks_submitted and tasks_completed of src/src/yatpool.c as the ints    *)
(* they are.  Only yatpool_wait sets them back to 0: a program that puts   *)
(* and never waits, as the servers under src/examples do, counts on, and   *)
(* nothing in yatpool_put stops it at INT_MAX.                             *)
(*                                                                         *)
(* YatPool has the threads, and natural numbers for the counters; here the *)
(* threads are left out, and the tasks that are queued or held by a worker *)
(* are a number.  Overflow of an int is undefined in C; the builds at hand *)
(* add 1 in memory, which wraps around.                                    *)
(***************************************************************************)
EXTENDS Integers

CONSTANTS
  IntMax,    (* the largest int                                            *)
  Room       (* the slots of the queue and the workers together            *)

ASSUME CounterAssumption == {IntMax, Room} \subseteq Nat

VARIABLES
  tasks_submitted, tasks_completed,
  outstanding,   (* the tasks that are queued or held by a worker          *)
  lost           (* history: the tasks that were outstanding when a        *)
                 (* yatpool_wait last set the counters back                *)

vars == <<tasks_submitted, tasks_completed, outstanding, lost>>

Init == tasks_submitted = 0 /\ tasks_completed = 0 /\ outstanding = 0 /\ lost = 0

\* n++ for an int n.
Incremented(n) == IF n = IntMax THEN -IntMax - 1 ELSE n + 1

Put ==
  /\ outstanding < Room
  /\ tasks_submitted' = Incremented(tasks_submitted)
  /\ outstanding' = outstanding + 1
  /\ UNCHANGED <<tasks_completed, lost>>

Complete ==
  /\ outstanding > 0
  /\ tasks_completed' = Incremented(tasks_completed)
  /\ outstanding' = outstanding - 1
  /\ UNCHANGED <<tasks_submitted, lost>>

\* Mutant: the batch is taken for done when one task is still missing.
BatchDoneTooEarly == tasks_completed + 1 >= tasks_submitted

BatchDone == tasks_completed >= tasks_submitted

WaitReturns ==
  /\ BatchDone
  /\ tasks_submitted' = 0 /\ tasks_completed' = 0
  /\ lost' = outstanding
  /\ UNCHANGED outstanding

Next == Put \/ Complete \/ WaitReturns

Spec == Init /\ [][Next]_vars

-----------------------------------------------------------------------------

\* How many values an int has.
Values == 2 * (IntMax + 1)

\* The put that made tasks_submitted wrap around is among the last ones, whose
\* tasks have not all been counted.
OverflowOutstanding == tasks_submitted - outstanding < -IntMax - 1

(* "Wait until all tasks are completed" (src/src/yatpool.c:290) holds with *)
(* one exception.  Until a yatpool_wait has returned too early, the        *)
(* comparison it makes (src/src/yatpool.c:299) tells whether any task is   *)
(* queued or running, however often both counters have wrapped around,     *)
(* except that it is also taken for done while the put that overflowed     *)
(* tasks_submitted (src/src/yatpool.c:283) is one of the outstanding ones. *)
ComparisonExact ==
  lost = 0 /\ outstanding < Values =>
    (BatchDone <=> outstanding = 0 \/ OverflowOutstanding)
=============================================================================

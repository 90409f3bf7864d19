------------------------------ MODULE TaskQueue ------------------------------
(***************************************************************************)
(* The circular buffer of src/src/yatpool.c (struct queue and the          *)
(* taskqueue_ functions): an array of `capacity' slots, one more than the  *)
(* caller asked for, with the indices of the first queued slot and of the  *)
(* first free slot.  The pool calls it with its mutex held, so each call   *)
(* is one action here.                                                     *)
(*                                                                         *)
(* size_t is the numbers below SizeMod.  Only the capacity+1 of            *)
(* taskqueue_init can wrap: every index stays below `capacity', hence      *)
(* index+1 stays below SizeMod.                                            *)
(***************************************************************************)
EXTENDS Naturals, Sequences

CONSTANTS
  Task,      (* the task pointers callers pass                             *)
  NoTask,    (* the null pointer                                           *)
  Capacity,  (* the capacity passed to taskqueue_init                      *)
  SizeMod    (* 2^w for a size_t of w bits                                 *)

ASSUME QueueAssumption ==
  /\ NoTask \notin Task
  /\ SizeMod \in Nat
  /\ Capacity \in 1 .. SizeMod - 1

VARIABLES
  capacity, start, end, data,  (* the fields of struct queue               *)
  reply,                       (* the latest call, its result and its task *)
  live                         (* FALSE once taskqueue_destroy has run     *)

vars == <<capacity, start, end, data, reply, live>>

Reply(op, ok, t) == [call |-> op, ok |-> ok, task |-> t]

-----------------------------------------------------------------------------
(* taskqueue_init: calloc zeroes the slots.                                *)

\* Mutant: no extra slot is reserved.
SlotsWithoutSpare == Capacity % SizeMod

Slots == (Capacity + 1) % SizeMod

Init ==
  /\ capacity = Slots
  /\ start = 0
  /\ end = 0
  /\ data = [i \in 0 .. Slots - 1 |-> NoTask]
  /\ reply = Reply("init", TRUE, NoTask)
  /\ live = TRUE

-----------------------------------------------------------------------------

\* Mutant: the index runs off the array.
AdvanceWithoutWrap(i) == i + 1

Advance(i) == (i + 1) % capacity

Empty == start = end

\* Mutant: the queue reports full one task too early.
FullTooEarly == Advance(Advance(end)) = start

Full == Advance(end) = start

Put(t) ==
  /\ live
  /\ t # NoTask /\ ~Full
  /\ data' = [data EXCEPT ![end] = t]
  /\ end' = Advance(end)
  /\ reply' = Reply("put", TRUE, t)
  /\ UNCHANGED <<capacity, start, live>>

PutRefused(t) ==
  /\ live
  /\ t = NoTask \/ Full
  /\ reply' = Reply("put", FALSE, t)
  /\ UNCHANGED <<capacity, start, end, data, live>>

Pop ==
  /\ live
  /\ ~Empty
  /\ reply' = Reply("pop", TRUE, data[start])
  /\ start' = Advance(start)
  /\ UNCHANGED <<capacity, end, data, live>>

PopRefused ==
  /\ live
  /\ Empty
  /\ reply' = Reply("pop", FALSE, NoTask)
  /\ UNCHANGED <<capacity, start, end, data, live>>

Destroy ==
  /\ live
  /\ live' = FALSE
  /\ UNCHANGED <<capacity, start, end, data, reply>>

Next ==
  \/ \E t \in Task \cup {NoTask} : Put(t) \/ PutRefused(t)
  \/ Pop
  \/ PopRefused
  \/ Destroy

Spec == Init /\ [][Next]_vars

-----------------------------------------------------------------------------
(* The queue the ring stands for.                                          *)

Size == IF start <= end THEN end - start ELSE (capacity - start) + end

Slot(i) == IF start + i <= capacity THEN start + i - 1
           ELSE (start + i - 1) - capacity

Contents == [i \in 1 .. Size |-> data[Slot(i)]]

-----------------------------------------------------------------------------

(* Both indices stay inside the allocated array, whatever was put and      *)
(* popped before, and the array never changes its length.                  *)
TypeOK ==
  /\ capacity = Capacity + 1
  /\ start \in 0 .. capacity - 1
  /\ end \in 0 .. capacity - 1
  /\ data \in [0 .. capacity - 1 -> Task \cup {NoTask}]
  /\ reply \in [call : {"init", "put", "pop"}, ok : BOOLEAN,
               task : Task \cup {NoTask}]
  /\ live \in BOOLEAN

(* taskqueue_full holds exactly when the queue holds as many tasks as the  *)
(* caller asked room for, and taskqueue_empty exactly when it holds none:  *)
(* the extra slot keeps the two apart at every position of the indices.    *)
FullAndEmptyExact ==
  /\ Full <=> Size = Capacity
  /\ Empty <=> Size = 0

(* The comment at src/src/yatpool.c:61 says that a circular buffer needs   *)
(* one slot more than the tasks it holds; the array taskqueue_init         *)
(* allocates has it.                                                       *)
ExtraSlot == capacity > Capacity

Fifo == INSTANCE BoundedFifo WITH items <- Contents

(* The ring implements the bounded first-in first-out queue.               *)
ImplementsFifo == Fifo!Spec
=============================================================================

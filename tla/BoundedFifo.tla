----------------------------- MODULE BoundedFifo -----------------------------
(***************************************************************************)
(* What a caller of the task queue of src/src/yatpool.c may rely on: a     *)
(* first-in first-out queue that holds at most Capacity tasks, whose put   *)
(* is refused exactly when it is full (or handed no task) and whose pop is *)
(* refused exactly when it is empty.  TaskQueue implements it.             *)
(***************************************************************************)
EXTENDS Naturals, Sequences

CONSTANTS
  Task,      (* the tasks that may be queued                               *)
  NoTask,    (* the null task pointer                                      *)
  Capacity   (* how many tasks the queue was asked to hold                 *)

VARIABLES
  items,     (* the queued tasks, oldest first                             *)
  reply,     (* the latest call, what it returned, and the task it was     *)
             (* given or handed out                                        *)
  live       (* FALSE once the queue has been destroyed                    *)

vars == <<items, reply, live>>

Reply(op, ok, t) == [call |-> op, ok |-> ok, task |-> t]

Init ==
  /\ items = <<>>
  /\ reply = Reply("init", TRUE, NoTask)
  /\ live = TRUE

Put(t) ==
  /\ live
  /\ t # NoTask
  /\ Len(items) < Capacity
  /\ items' = Append(items, t)
  /\ reply' = Reply("put", TRUE, t)
  /\ UNCHANGED live

PutRefused(t) ==
  /\ live
  /\ t = NoTask \/ Len(items) = Capacity
  /\ reply' = Reply("put", FALSE, t)
  /\ UNCHANGED <<items, live>>

Pop ==
  /\ live
  /\ items # <<>>
  /\ items' = Tail(items)
  /\ reply' = Reply("pop", TRUE, Head(items))
  /\ UNCHANGED live

PopRefused ==
  /\ live
  /\ items = <<>>
  /\ reply' = Reply("pop", FALSE, NoTask)
  /\ UNCHANGED <<items, live>>

Destroy ==
  /\ live
  /\ live' = FALSE
  /\ UNCHANGED <<items, reply>>

Next ==
  \/ \E t \in Task \cup {NoTask} : Put(t) \/ PutRefused(t)
  \/ Pop
  \/ PopRefused
  \/ Destroy

Spec == Init /\ [][Next]_vars
=============================================================================

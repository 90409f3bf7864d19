----------------------------- MODULE PoolContract -----------------------------
(***************************************************************************)
(* What the callers of src/src/yatpool.h rely on, with the threads of the  *)
(* pool, its lock and its condition variables left out.                    *)
(*                                                                         *)
(*   - a task that yatpool_put accepts is handed to the workers once, in   *)
(*     the order of acceptance, and then finishes;                         *)
(*   - yatpool_wait returns at a moment when no accepted task is queued or *)
(*     running;                                                            *)
(*   - yatpool_destroy frees the pool only when no task runs any more, and *)
(*     everything accepted has finished.  A task may be dropped instead,   *)
(*     or left behind in the freed queue, only if puts are allowed to      *)
(*     overlap the shutdown;                                               *)
(*   - no more tasks wait than the queue has slots, and no more run than   *)
(*     the pool has threads: beyond that yatpool_put blocks.               *)
(***************************************************************************)
EXTENDS Naturals, Sequences, FiniteSets

CONSTANTS
  Task,      (* the tasks that callers submit                              *)
  Client,    (* the threads that call yatpool_wait                         *)
  Slots,     (* the queue_size passed to yatpool_init                      *)
  Width,     (* the num_threads passed to yatpool_init                     *)
  MayDrop    (* whether calls may overlap yatpool_destroy                  *)

VARIABLES
  accepted,  (* every task whose put was accepted                          *)
  backlog,   (* the accepted tasks that have not started, oldest first     *)
  active,    (* the tasks a worker holds                                   *)
  finished,  (* the tasks that have run to completion                      *)
  waiting,   (* the clients inside yatpool_wait                            *)
  closed,    (* yatpool_destroy has begun                                  *)
  gone       (* the pool has been freed                                    *)

vars == <<accepted, backlog, active, finished, waiting, closed, gone>>

Init ==
  /\ accepted = {}
  /\ backlog = <<>>
  /\ active = {}
  /\ finished = {}
  /\ waiting = {}
  /\ closed = FALSE
  /\ gone = FALSE

Outstanding == backlog # <<>> \/ active # {}

Accept(t) ==
  /\ t \notin accepted
  /\ Len(backlog) < Slots
  /\ accepted' = accepted \cup {t}
  /\ backlog' = Append(backlog, t)
  /\ UNCHANGED <<active, finished, waiting, closed, gone>>

Start ==
  /\ backlog # <<>>
  /\ Head(backlog) \notin active \cup finished
  /\ Cardinality(active) < Width
  /\ active' = active \cup {Head(backlog)}
  /\ backlog' = Tail(backlog)
  /\ UNCHANGED <<accepted, finished, waiting, closed, gone>>

Finish(t) ==
  /\ t \in active
  /\ active' = active \ {t}
  /\ finished' = finished \cup {t}
  /\ UNCHANGED <<accepted, backlog, waiting, closed, gone>>

BeginWait(c) ==
  /\ c \notin waiting
  /\ waiting' = waiting \cup {c}
  /\ UNCHANGED <<accepted, backlog, active, finished, closed, gone>>

EndWait(c) ==
  /\ c \in waiting
  /\ ~Outstanding
  /\ waiting' = waiting \ {c}
  /\ UNCHANGED <<accepted, backlog, active, finished, closed, gone>>

Close ==
  /\ ~closed
  /\ closed' = TRUE
  /\ UNCHANGED <<accepted, backlog, active, finished, waiting, gone>>

Drop ==
  /\ MayDrop /\ closed /\ active = {}
  /\ backlog # <<>>
  /\ backlog' = Tail(backlog)
  /\ UNCHANGED <<accepted, active, finished, waiting, closed, gone>>

Release ==
  /\ closed
  /\ active = {}
  /\ backlog = <<>> \/ MayDrop
  /\ gone' = TRUE
  /\ UNCHANGED <<accepted, backlog, active, finished, waiting, closed>>

Next ==
  /\ ~gone
  /\ \/ \E t \in Task : Accept(t) \/ Finish(t)
     \/ \E c \in Client : BeginWait(c) \/ EndWait(c)
     \/ Start \/ Close \/ Drop \/ Release

Spec == Init /\ [][Next]_vars
=============================================================================

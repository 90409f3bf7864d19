------------------------------ MODULE EchoServer ------------------------------
(***************************************************************************)
(* The echo server of src/examples/multithreaded_server.c: the accept loop *)
(* of main, the handler that a worker of the pool runs for each            *)
(* connection, the peers at the other end, and the SIGINT that asks the    *)
(* server to stop.  src/examples/tcp_server_multithreaded.c is the same    *)
(* program.                                                                *)
(*                                                                         *)
(* The pool is used through its contract, and a task is a connection.      *)
(*                                                                         *)
(* Data is counted in chunks, a chunk being what one call of read returns. *)
(* SIGINT arrives any number of times.  Whichever thread the kernel picks  *)
(* runs the handler; as it is installed without SA_RESTART, a blocked      *)
(* accept, read or write of that thread then returns early.                *)
(*                                                                         *)
(* A peer need not read what is echoed to it: a write of more than the     *)
(* buffers on the way have room for blocks until the peer reads, or until  *)
(* the connection is reset.                                                *)
(***************************************************************************)
EXTENDS Integers, Sequences, FiniteSets

CONSTANTS
  Conns,      (* the connections that peers may make                       *)
  NoConn,     (* no connection                                             *)
  Slots,      (* QUEUE_SIZE                                                *)
  Width,      (* NUM_THREADS                                               *)
  MaxChunks,  (* bound: how many chunks a peer sends                       *)
  SizeMod     (* 2^64, the number of values of size_t                      *)

ASSUME ServerAssumption ==
  /\ IsFiniteSet(Conns) /\ NoConn \notin Conns
  /\ Slots \in Nat \ {0} /\ Width \in Nat \ {0}
  /\ MaxChunks \in Nat /\ SizeMod \in Nat /\ SizeMod > MaxChunks + 1

VARIABLES
  accepted, backlog, active, finished, closed, gone,  (* see PoolContract  *)
  mpc,              (* where main is                                       *)
  g_shutdown_flag,
  client_socket,    (* the connection main has accepted and not yet put    *)
  peer,             (* what the peer of each connection has done           *)
  sent,             (* the chunks of each peer that reach the server       *)
  hpc,              (* where the handler of each connection is             *)
  bytes_read,       (* the handler's size_t variable                       *)
  received,         (* the chunks each handler has read                    *)
  echoed,           (* the chunks each handler has written                 *)
  interrupted       (* the connections whose handlers ran handle_sigint    *)

Pool == INSTANCE PoolContract WITH
          Task <- Conns, Client <- {}, MayDrop <- FALSE, waiting <- {}

poolVars == <<accepted, backlog, active, finished, closed, gone>>
mainVars == <<mpc, g_shutdown_flag, client_socket>>
handlerVars == <<hpc, bytes_read, received, echoed>>
vars == <<poolVars, mainVars, peer, sent, handlerVars, interrupted>>

Alive == mpc \notin {"exited", "killed"}

Init ==
  /\ Pool!Init
  /\ mpc = "setup"
  /\ g_shutdown_flag = 0
  /\ client_socket = NoConn
  /\ peer = [c \in Conns |-> "absent"]
  /\ sent = [c \in Conns |-> 0]
  /\ hpc = [c \in Conns |-> "none"]
  /\ bytes_read = [c \in Conns |-> 0]
  /\ received = [c \in Conns |-> 0]
  /\ echoed = [c \in Conns |-> 0]
  /\ interrupted = {}

-----------------------------------------------------------------------------
(* main                                                                    *)

MainGoto(from, to) == mpc = from /\ mpc' = to

\* The signal handler is installed, the socket listens, the pool is there;
\* or one of these fails and check ends the program.
Setup ==
  /\ MainGoto("setup", "test") \/ MainGoto("setup", "exited")
  /\ UNCHANGED <<poolVars, g_shutdown_flag, client_socket, peer, sent,
                 handlerVars, interrupted>>

KeepServing == g_shutdown_flag = 0

\* From the test of the flag to the call of accept.
TestFlag ==
  /\ MainGoto("test", IF KeepServing THEN "call" ELSE "destroy")
  /\ UNCHANGED <<poolVars, g_shutdown_flag, client_socket, peer, sent,
                 handlerVars, interrupted>>

EnterAccept ==
  /\ MainGoto("call", "accept")
  /\ UNCHANGED <<poolVars, g_shutdown_flag, client_socket, peer, sent,
                 handlerVars, interrupted>>

AcceptConn(c) ==
  /\ MainGoto("accept", "put")
  /\ peer[c] = "knocking"
  /\ peer' = [peer EXCEPT ![c] = "open"]
  /\ client_socket' = c
  /\ UNCHANGED <<poolVars, g_shutdown_flag, sent, handlerVars, interrupted>>

\* An error other than EINTR: shut down.
AcceptFails ==
  /\ MainGoto("accept", "destroy")
  /\ UNCHANGED <<poolVars, g_shutdown_flag, client_socket, peer, sent,
                 handlerVars, interrupted>>

\* Blocks while the queue is full.
PutConn ==
  /\ MainGoto("put", "test")
  /\ Pool!Accept(client_socket)
  /\ client_socket' = NoConn
  /\ UNCHANGED <<g_shutdown_flag, peer, sent, handlerVars, interrupted>>

BeginDestroy ==
  /\ MainGoto("destroy", "join")
  /\ Pool!Close
  /\ UNCHANGED <<g_shutdown_flag, client_socket, peer, sent, handlerVars,
                 interrupted>>

\* Mutant: the pool is not destroyed before the program ends.
DestroyedWithoutJoin == UNCHANGED poolVars

Destroyed == Pool!Release

Exit ==
  /\ MainGoto("join", "exited")
  /\ Destroyed
  /\ UNCHANGED <<g_shutdown_flag, client_socket, peer, sent, handlerVars,
                 interrupted>>

-----------------------------------------------------------------------------
(* handle_connection                                                       *)

StartHandler ==
  /\ Pool!Start
  /\ hpc' = [hpc EXCEPT ![Head(backlog)] = "read"]
  /\ UNCHANGED <<mainVars, peer, sent, bytes_read, received, echoed, interrupted>>

\* Mutant: the result of read is kept in an ssize_t.
AsSizeSigned(n) == n

\* What ssize_t n becomes in a size_t: -1 is the largest of them.
AsSize(n) == n % SizeMod

\* Mutant: a count of one is taken for the end of the connection.
ReadMoreOffByOne(n) == n > 1

\* Mutant: >= 0 for > 0, which every size_t satisfies.
ReadMoreAlways(n) == n >= 0

\* The loop condition, on a size_t.
ReadMore(n) == n > 0

\* read returns n to the handler of c.
ReadReturns(c, n) ==
  /\ bytes_read' = [bytes_read EXCEPT ![c] = AsSize(n)]
  /\ hpc' = [hpc EXCEPT ![c] = IF ReadMore(AsSize(n)) THEN "write" ELSE "close"]

Read(c) ==
  /\ hpc[c] = "read"
  /\ received[c] < sent[c]
  /\ ReadReturns(c, 1)
  /\ received' = [received EXCEPT ![c] = @ + 1]
  /\ UNCHANGED <<poolVars, mainVars, peer, sent, echoed, interrupted>>

ReadEnd(c) ==
  /\ hpc[c] = "read"
  /\ received[c] = sent[c] /\ peer[c] \in {"finished", "gone"}
  /\ ReadReturns(c, 0)
  /\ UNCHANGED <<poolVars, mainVars, peer, sent, received, echoed, interrupted>>

\* The error of a reset connection is reported once.
ReadFails(c) ==
  /\ hpc[c] = "read"
  /\ received[c] = sent[c] /\ peer[c] = "reset"
  /\ peer' = [peer EXCEPT ![c] = "gone"]
  /\ ReadReturns(c, -1)
  /\ UNCHANGED <<poolVars, mainVars, sent, received, echoed, interrupted>>

\* A count that is more than any buffer holds is refused by write.
Refused(c) == bytes_read[c] > 1

Written(c) ==
  /\ peer[c] \in {"open", "finished"}
  /\ echoed' = [echoed EXCEPT ![c] = @ + bytes_read[c]]
  /\ hpc' = [hpc EXCEPT ![c] = "read"]
  /\ UNCHANGED <<poolVars, mainVars, peer, sent, bytes_read, received, interrupted>>

\* The buffers have room for what is written.
Write(c) ==
  /\ hpc[c] = "write" /\ ~Refused(c)
  /\ Written(c)

\* They have not, and write blocks.
WriteBlocks(c) ==
  /\ hpc[c] = "write" /\ ~Refused(c)
  /\ peer[c] \in {"open", "finished"}
  /\ hpc' = [hpc EXCEPT ![c] = "stuck"]
  /\ UNCHANGED <<poolVars, mainVars, peer, sent, bytes_read, received, echoed,
                 interrupted>>

\* The result of write is not looked at.
WriteFails(c) ==
  /\ hpc[c] \in {"write", "stuck"}
  /\ \/ Refused(c) /\ UNCHANGED peer
     \/ ~Refused(c) /\ peer[c] = "reset" /\ peer' = [peer EXCEPT ![c] = "gone"]
  /\ hpc' = [hpc EXCEPT ![c] = "read"]
  /\ UNCHANGED <<poolVars, mainVars, sent, bytes_read, received, echoed, interrupted>>

\* A write to a connection that is gone raises SIGPIPE, which ends the program.
KilledBySigpipe(c) ==
  /\ hpc[c] \in {"write", "stuck"} /\ ~Refused(c)
  /\ peer[c] = "gone"
  /\ mpc' = "killed"
  /\ UNCHANGED <<poolVars, g_shutdown_flag, client_socket, peer, sent,
                 handlerVars, interrupted>>

\* The socket is closed and the task returns.
CloseConn(c) ==
  /\ hpc[c] = "close"
  /\ Pool!Finish(c)
  /\ hpc' = [hpc EXCEPT ![c] = "closed"]
  /\ UNCHANGED <<mainVars, peer, sent, bytes_read, received, echoed, interrupted>>

-----------------------------------------------------------------------------
(* SIGINT, run by main, by the worker that handles c, or by another one    *)

HandleSigint == g_shutdown_flag' = 1

\* accept returns with EINTR and main goes back to its test.
SigintAtMain ==
  /\ HandleSigint
  /\ mpc' = IF mpc = "accept" THEN "test" ELSE mpc
  /\ UNCHANGED <<poolVars, client_socket, peer, sent, handlerVars, interrupted>>

\* A handler blocked in read gets -1, one blocked in write may write nothing.
SigintAtHandler(c) ==
  /\ HandleSigint
  /\ interrupted' = interrupted \cup {c}
  /\ \/ /\ hpc[c] = "read" /\ peer[c] = "open" /\ received[c] = sent[c]
        /\ ReadReturns(c, -1)
     \/ /\ hpc[c] = "stuck" /\ peer[c] \in {"open", "finished"}
        /\ hpc' = [hpc EXCEPT ![c] = "read"]
        /\ UNCHANGED bytes_read
  /\ UNCHANGED <<poolVars, mpc, client_socket, peer, sent, received, echoed>>

\* The worker was idle, or in no call that a signal interrupts.
SigintAtWorker ==
  /\ mpc # "setup"
  /\ HandleSigint
  /\ UNCHANGED <<poolVars, mpc, client_socket, peer, sent, handlerVars, interrupted>>

-----------------------------------------------------------------------------
(* The peers                                                               *)

Connect(c) ==
  /\ mpc # "setup" /\ peer[c] = "absent"
  /\ peer' = [peer EXCEPT ![c] = "knocking"]
  /\ UNCHANGED <<poolVars, mainVars, sent, handlerVars, interrupted>>

Send(c) ==
  /\ peer[c] = "open" /\ sent[c] < MaxChunks
  /\ sent' = [sent EXCEPT ![c] = @ + 1]
  /\ UNCHANGED <<poolVars, mainVars, peer, handlerVars, interrupted>>

FinishSending(c) ==
  /\ peer[c] = "open"
  /\ peer' = [peer EXCEPT ![c] = "finished"]
  /\ UNCHANGED <<poolVars, mainVars, sent, handlerVars, interrupted>>

\* The peer reads, and so makes room for what its handler is writing.
PeerReads(c) ==
  /\ hpc[c] = "stuck"
  /\ Written(c)

\* What was still on its way is lost.  A reset that follows the end of the
\* connection is seen by writes only.
Reset(c) ==
  /\ \/ peer[c] = "open" /\ peer' = [peer EXCEPT ![c] = "reset"]
     \/ peer[c] = "finished" /\ peer' = [peer EXCEPT ![c] = "gone"]
  /\ \E n \in received[c] .. sent[c] : sent' = [sent EXCEPT ![c] = n]
  /\ UNCHANGED <<poolVars, mainVars, handlerVars, interrupted>>

-----------------------------------------------------------------------------

MainStep ==
  \/ Setup \/ TestFlag \/ EnterAccept \/ PutConn \/ BeginDestroy \/ Exit
  \/ \E c \in Conns : AcceptConn(c)

HandlerStep(c) ==
  \/ Read(c) \/ ReadEnd(c) \/ ReadFails(c)
  \/ Write(c) \/ WriteBlocks(c) \/ WriteFails(c) \/ KilledBySigpipe(c) \/ CloseConn(c)

PeerStep(c) == Connect(c) \/ Send(c) \/ FinishSending(c) \/ Reset(c)

\* handle_connection is running.
Handling == {"read", "write", "stuck", "close"}

Sigint ==
  \/ SigintAtMain \/ SigintAtWorker
  \/ \E c \in Conns : SigintAtHandler(c)

Terminated == ~Alive /\ UNCHANGED vars

Next ==
  \/ /\ Alive
     /\ \/ MainStep \/ AcceptFails \/ StartHandler \/ Sigint
        \/ \E c \in Conns : HandlerStep(c) \/ PeerReads(c) \/ PeerStep(c)
  \/ Terminated

Spec == Init /\ [][Next]_vars

\* Threads are scheduled, the pool starts what is queued, and every peer reads
\* what it is sent and ends its connection at some time.  The last two are
\* assumptions about the peers, not about this code.  Nobody need connect, and
\* no signal need come.
Fairness ==
  /\ WF_vars(Alive /\ MainStep)
  /\ WF_vars(Alive /\ StartHandler)
  /\ \A c \in Conns :
       /\ WF_vars(Alive /\ HandlerStep(c))
       /\ WF_vars(Alive /\ PeerReads(c))
       /\ WF_vars(Alive /\ FinishSending(c))

FairSpec == Spec /\ Fairness

-----------------------------------------------------------------------------

(* The connection main holds is open and not yet a task; a connection has  *)
(* a handler exactly while its task is active.                             *)
TypeOK ==
  /\ mpc \in {"setup", "test", "call", "accept", "put", "destroy", "join",
              "exited", "killed"}
  /\ g_shutdown_flag \in {0, 1}
  /\ client_socket \in (Conns \ accepted) \cup {NoConn}
  /\ peer \in [Conns -> {"absent", "knocking", "open", "finished", "reset", "gone"}]
  /\ sent \in [Conns -> 0 .. MaxChunks]
  /\ hpc \in [Conns -> Handling \cup {"none", "closed"}]
  /\ active = {c \in Conns : hpc[c] \in Handling}
  /\ bytes_read \in [Conns -> 0 .. SizeMod - 1]
  /\ received \in [Conns -> 0 .. MaxChunks]
  /\ echoed \in [Conns -> Nat]
  /\ interrupted \subseteq Conns

(* Every connection that main accepted has been served and its socket      *)
(* closed when the server exits, whether after SIGINT or after a failed    *)
(* accept: yatpool_destroy runs the handlers that are still queued.        *)
ExitServesEveryone ==
  mpc = "exited" =>
    \A c \in Conns : peer[c] \notin {"absent", "knocking"} => hpc[c] = "closed"

(* A connection that was neither reset nor met by a signal has had         *)
(* everything its peer sent echoed when it is closed.                      *)
EchoComplete ==
  \A c \in Conns :
    hpc[c] = "closed" /\ peer[c] = "finished" /\ c \notin interrupted =>
      echoed[c] = sent[c]

-----------------------------------------------------------------------------
(* Liveness, under FairSpec                                                *)

(* Every accepted connection is served and closed once its peer has read   *)
(* what it was sent and ended it, unless the program is killed.            *)
AcceptedIsClosed ==
  \A c \in Conns : client_socket = c ~> hpc[c] = "closed" \/ mpc = "killed"

BlockedInAccept ==
  mpc = "accept" /\ \A c \in Conns : peer[c] # "knocking"

(* The server shuts down after SIGINT, also from a full put and with       *)
(* handlers blocked in read or write, unless main is in accept, nobody     *)
(* connects any more and no further signal reaches main.                   *)
InterruptSeenOutsideAccept ==
  g_shutdown_flag = 1 ~> ~Alive \/ BlockedInAccept

(* "Press CTRL+C to shutdown" (src/examples/multithreaded_server.c:100).   *)
InterruptShutsDown == g_shutdown_flag = 1 ~> ~Alive
=============================================================================

---------------------------- MODULE EchoServerProofs ----------------------------
(***************************************************************************)
(* Proofs about EchoServer, for any connections, any number of chunks and  *)
(* any pool.                                                               *)
(***************************************************************************)
EXTENDS EchoServer, ExampleLemmas

USE DEF Handling

\* The accepted connections whose handlers have not ended.
Pending == Range(backlog) \cup active

(* The pool has what was put, and a connection is done with when its       *)
(* handler has closed it.                                                  *)
PoolKept ==
  /\ backlog \in Seq(Conns) /\ active \subseteq Conns
  /\ finished = {c \in Conns : hpc[c] = "closed"}
  /\ accepted = Pending \cup finished

(* A connection that was established is a task of the pool, or main is     *)
(* about to put it.                                                        *)
NoneForgotten ==
  /\ {c \in Conns : peer[c] \notin {"absent", "knocking"}}
       = accepted \cup ({client_socket} \ {NoConn})
  /\ mpc # "killed" => (client_socket # NoConn <=> mpc = "put")

(* Nothing is outstanding before the start and after the end.              *)
IdleOutside == mpc \in {"setup", "exited"} => Pending = {}

(* How far the handler of a connection is, whose peer has not reset it and *)
(* whom no signal met: it owes its peer the chunk it is about to write.    *)
Owed(c) ==
  /\ hpc[c] \in {"none", "read"} => echoed[c] = received[c]
  /\ hpc[c] \in {"write", "stuck"} => received[c] = echoed[c] + 1 /\ bytes_read[c] = 1
  /\ hpc[c] \in {"close", "closed"} =>
       echoed[c] = received[c] /\ received[c] = sent[c] /\ peer[c] = "finished"

EchoedSoFar ==
  \A c \in Conns :
    /\ received[c] <= sent[c]
    /\ c \notin interrupted /\ peer[c] \notin {"reset", "gone"} => Owed(c)

IInv == TypeOK /\ PoolKept /\ NoneForgotten /\ IdleOutside /\ EchoedSoFar

-----------------------------------------------------------------------------
(* The steps.                                                              *)

\* The steps of main that neither accept nor put a connection.
MainOther ==
  Setup \/ TestFlag \/ EnterAccept \/ AcceptFails \/ BeginDestroy \/ Exit

(* The steps of the program.                                               *)
LEMMA Steps ==
  ASSUME [Next]_vars
  PROVE  \/ Alive /\ MainOther
         \/ Alive /\ (PutConn \/ StartHandler \/ SigintAtMain \/ SigintAtWorker)
         \/ \E c \in Conns :
              Alive /\ (\/ AcceptConn(c) \/ HandlerStep(c) \/ SigintAtHandler(c)
                       \/ PeerReads(c) \/ PeerStep(c))
         \/ UNCHANGED vars
BY DEF Next, MainStep, MainOther, Sigint, Terminated

(* Where the steps of main lead, and what they leave alone.                *)
LEMMA MainOtherMoves ==
  ASSUME MainOther
  PROVE  /\ UNCHANGED <<accepted, backlog, active, finished, g_shutdown_flag, client_socket,
                        peer, sent, handlerVars, interrupted>>
         /\ \/ MainGoto("setup", "test") \/ MainGoto("setup", "exited")
            \/ MainGoto("test", "call") \/ MainGoto("test", "destroy")
            \/ MainGoto("call", "accept") \/ MainGoto("accept", "destroy")
            \/ MainGoto("destroy", "join")
            \/ MainGoto("join", "exited") /\ ~ Pool!Outstanding
<1>1. CASE Setup \/ TestFlag \/ EnterAccept \/ AcceptFails
  BY <1>1 DEF Setup, TestFlag, EnterAccept, AcceptFails, poolVars, MainGoto
<1>2. CASE BeginDestroy \/ Exit
  BY <1>2 DEF BeginDestroy, Exit, Destroyed, Pool!Close, Pool!Release, Pool!Outstanding
<1>. QED BY <1>1, <1>2 DEF MainOther

(* The parameters.                                                         *)
LEMMA Parameters ==
  /\ NoConn \notin Conns /\ MaxChunks \in Nat /\ SizeMod \in Nat /\ SizeMod >= 2
  /\ AsSize(0) = 0 /\ AsSize(1) = 1 /\ AsSize(-1) \in 0 .. SizeMod - 1
<1>1. NoConn \notin Conns /\ MaxChunks \in Nat /\ SizeMod \in Nat /\ SizeMod >= 2
  BY ServerAssumption
<1>2. 0 % SizeMod = 0 /\ 1 % SizeMod = 1 /\ (-1) % SizeMod \in 0 .. SizeMod - 1
  BY <1>1
<1>. QED BY <1>1, <1>2 DEF AsSize

(* What read returns decides how the handler goes on.                      *)
LEMMA ReadLeads ==
  ASSUME TypeOK, NEW c \in Conns, NEW n \in {-1, 0, 1}, ReadReturns(c, n)
  PROVE  /\ bytes_read' \in [Conns -> 0 .. SizeMod - 1]
         /\ hpc' \in [Conns -> Handling \cup {"none", "closed"}]
         /\ hpc'[c] \in {"write", "close"}
         /\ n = 1 => hpc'[c] = "write" /\ bytes_read'[c] = 1
         /\ n = 0 => hpc'[c] = "close"
         /\ \A d \in Conns : d # c => hpc'[d] = hpc[d] /\ bytes_read'[d] = bytes_read[d]
<1>1. AsSize(n) \in 0 .. SizeMod - 1
  BY Parameters
<1>2. bytes_read' = [bytes_read EXCEPT ![c] = AsSize(n)]
  BY DEF ReadReturns
<1>3. hpc' = [hpc EXCEPT ![c] = IF ReadMore(AsSize(n)) THEN "write" ELSE "close"]
  BY DEF ReadReturns
<1>4. (n = 1 => ReadMore(AsSize(n)) /\ AsSize(n) = 1) /\ (n = 0 => ~ReadMore(AsSize(n)))
  BY Parameters DEF ReadMore
<1>5. /\ bytes_read \in [Conns -> 0 .. SizeMod - 1]
      /\ hpc \in [Conns -> Handling \cup {"none", "closed"}]
  BY DEF TypeOK
<1>. QED BY <1>1, <1>2, <1>3, <1>4, <1>5

\* The steps of a handler between its start and end, with those that a signal
\* or its reading peer causes.
HandlerMoves(c) ==
  \/ Read(c) \/ ReadEnd(c) \/ ReadFails(c)
  \/ Write(c) \/ WriteBlocks(c) \/ PeerReads(c) \/ WriteFails(c)
  \/ KilledBySigpipe(c) \/ SigintAtHandler(c)

(* A running handler goes on running.                                      *)
LEMMA HandlerRuns ==
  ASSUME TypeOK, NEW c \in Conns, HandlerMoves(c)
  PROVE  /\ hpc' \in [Conns -> Handling \cup {"none", "closed"}]
         /\ hpc[c] \in {"read", "write", "stuck"} /\ hpc'[c] \in Handling
         /\ \A d \in Conns : d # c => hpc'[d] = hpc[d]
         /\ UNCHANGED <<poolVars, client_socket, sent>>
         /\ bytes_read' \in [Conns -> 0 .. SizeMod - 1]
<1>1. CASE Read(c)
  BY <1>1, ReadLeads DEF Read, mainVars, TypeOK
<1>2. CASE ReadEnd(c)
  BY <1>2, ReadLeads DEF ReadEnd, mainVars, TypeOK
<1>3. CASE ReadFails(c)
  BY <1>3, ReadLeads DEF ReadFails, mainVars, TypeOK
<1>4. CASE Write(c) \/ WriteBlocks(c) \/ PeerReads(c) \/ WriteFails(c)
  BY <1>4 DEF Write, Written, WriteBlocks, PeerReads, WriteFails, mainVars, TypeOK
<1>5. CASE KilledBySigpipe(c)
  BY <1>5 DEF KilledBySigpipe, handlerVars, TypeOK
<1>6. CASE SigintAtHandler(c)
  <2>1. UNCHANGED <<poolVars, client_socket, sent>>
    BY <1>6 DEF SigintAtHandler
  <2>2. CASE hpc[c] = "read" /\ ReadReturns(c, -1)
    BY <2>1, <2>2, ReadLeads
  <2>3. CASE hpc[c] = "stuck" /\ hpc' = [hpc EXCEPT ![c] = "read"] /\ UNCHANGED bytes_read
    BY <2>1, <2>3 DEF TypeOK
  <2>. QED BY <1>6, <2>2, <2>3 DEF SigintAtHandler
<1>. QED BY <1>1, <1>2, <1>3, <1>4, <1>5, <1>6 DEF HandlerMoves

-----------------------------------------------------------------------------
(* The pool.                                                               *)

(* What is pending when the backlog and the active tasks are none.         *)
LEMMA IdleEmpty ==
  ASSUME PoolKept
  PROVE  ~ Pool!Outstanding <=> Pending = {}
BY RangeNothing DEF PoolKept, Pending, Pool!Outstanding

(* The pool is kept, and idle where it should be, by each step.            *)
LEMMA PoolStep ==
  ASSUME TypeOK, PoolKept, NoneForgotten, IdleOutside, [Next]_vars
  PROVE  PoolKept' /\ IdleOutside'
<1>1. CASE MainOther
  <2>1. UNCHANGED <<accepted, backlog, active, finished, hpc>>
    BY <1>1, MainOtherMoves DEF handlerVars
  <2>2. PoolKept' /\ Pending' = Pending
    BY <2>1 DEF PoolKept, Pending
  <2>3. mpc' = "exited" => mpc = "setup" \/ ~ Pool!Outstanding
    BY <1>1, MainOtherMoves DEF MainGoto
  <2>4. mpc' # "setup"
    BY <1>1, MainOtherMoves DEF MainGoto
  <2>. QED BY <2>2, <2>3, <2>4, IdleEmpty DEF IdleOutside
<1>2. CASE PutConn
  <2>1. mpc = "put" /\ mpc' = "test" /\ client_socket \in Conns
    BY <1>2 DEF PutConn, MainGoto, NoneForgotten, TypeOK
  <2>2. /\ accepted' = accepted \cup {client_socket} /\ backlog' = Append(backlog, client_socket)
        /\ UNCHANGED <<active, finished, hpc>>
    BY <1>2 DEF PutConn, Pool!Accept, handlerVars
  <2>3. /\ backlog' \in Seq(Conns) /\ Range(backlog') = Range(backlog) \cup {client_socket}
    BY <2>1, <2>2, RangeAppend DEF PoolKept
  <2>. QED BY <2>1, <2>2, <2>3 DEF PoolKept, Pending, IdleOutside
<1>3. CASE StartHandler
  <2>. DEFINE c == Head(backlog)
  <2>1. /\ backlog # <<>> /\ c \notin active \cup finished
        /\ active' = active \cup {c} /\ backlog' = Tail(backlog)
        /\ UNCHANGED <<accepted, finished, mpc>> /\ hpc' = [hpc EXCEPT ![c] = "read"]
    BY <1>3 DEF StartHandler, Pool!Start, mainVars
  <2>2. /\ c \in Conns /\ Tail(backlog) \in Seq(Conns)
        /\ Range(backlog) = {c} \cup Range(Tail(backlog))
    BY <2>1, RangeTail DEF PoolKept
  <2>. HIDE DEF c
  <2>3. Pending' = Pending /\ active' \subseteq Conns
    BY <2>1, <2>2 DEF Pending, PoolKept
  <2>4. finished' = {d \in Conns : hpc'[d] = "closed"}
    BY <2>1, <2>2 DEF PoolKept, TypeOK
  <2>. QED BY <2>1, <2>2, <2>3, <2>4 DEF PoolKept, IdleOutside
<1>4. ASSUME NEW c \in Conns, CloseConn(c)
      PROVE  PoolKept' /\ IdleOutside'
  <2>1. /\ c \in active /\ active' = active \ {c} /\ finished' = finished \cup {c}
        /\ UNCHANGED <<accepted, backlog, mpc>> /\ hpc' = [hpc EXCEPT ![c] = "closed"]
    BY <1>4 DEF CloseConn, Pool!Finish, mainVars
  <2>2. finished' = {d \in Conns : hpc'[d] = "closed"}
    BY <2>1 DEF PoolKept, TypeOK
  <2>. QED BY <2>1, <2>2 DEF PoolKept, Pending, IdleOutside
<1>5. ASSUME NEW c \in Conns, Alive, HandlerMoves(c)
      PROVE  PoolKept' /\ IdleOutside'
  <2>1. finished = {d \in Conns : hpc'[d] = "closed"}
    BY <1>5, HandlerRuns DEF PoolKept
  <2>2. UNCHANGED <<accepted, backlog, active, finished>>
    BY <1>5, HandlerRuns DEF poolVars
  <2>3. PoolKept' /\ Pending' = Pending
    BY <2>1, <2>2 DEF PoolKept, Pending
  <2>4. mpc' \in {mpc, "killed"}
    BY <1>5 DEF HandlerMoves, Read, ReadEnd, ReadFails, Write, Written, WriteBlocks,
           PeerReads, WriteFails, KilledBySigpipe,
           SigintAtHandler, mainVars
  <2>. QED BY <2>3, <2>4 DEF IdleOutside
<1>6. CASE /\ UNCHANGED <<poolVars, hpc>>
           /\ mpc' \in {"setup", "exited"} => mpc \in {"setup", "exited"}
  BY <1>6 DEF PoolKept, Pending, IdleOutside, poolVars
<1>7. ASSUME NEW c \in Conns, AcceptConn(c) \/ PeerStep(c)
      PROVE  PoolKept' /\ IdleOutside'
  BY <1>6, <1>7 DEF AcceptConn, PeerStep, Connect, Send, FinishSending, Reset,
         MainGoto, mainVars, handlerVars
<1>8. CASE SigintAtMain \/ SigintAtWorker \/ UNCHANGED vars
  BY <1>6, <1>8 DEF SigintAtMain, SigintAtWorker, vars, mainVars, handlerVars
<1>. QED BY <1>1, <1>2, <1>3, <1>4, <1>5, <1>7, <1>8, Steps DEF HandlerStep, HandlerMoves

-----------------------------------------------------------------------------
(* Connections and their handlers.                                         *)

(* What the peer of a connection does.                                     *)
LEMMA PeerMoves ==
  ASSUME TypeOK, EchoedSoFar, NEW c \in Conns, PeerStep(c)
  PROVE  /\ peer' \in [Conns -> {"absent", "knocking", "open", "finished", "reset", "gone"}]
         /\ sent' \in [Conns -> 0 .. MaxChunks]
         /\ peer'[c] \in {"absent", "knocking"} <=> peer[c] \in {"absent", "knocking"}
         /\ received[c] <= sent'[c]
         /\ peer'[c] \notin {"reset", "gone"} => peer[c] \in {"absent", "open"}
         /\ \A d \in Conns : d # c => peer'[d] = peer[d] /\ sent'[d] = sent[d]
         /\ UNCHANGED <<poolVars, mainVars, handlerVars, interrupted>>
<1>1. /\ sent[c] \in 0 .. MaxChunks /\ received[c] \in 0 .. MaxChunks /\ MaxChunks \in Nat
      /\ received[c] <= sent[c]
  BY Parameters DEF TypeOK, EchoedSoFar
<1>2. CASE Connect(c)
  BY <1>1, <1>2 DEF Connect, TypeOK
<1>3. CASE Send(c)
  BY <1>1, <1>3 DEF Send, TypeOK
<1>4. CASE FinishSending(c)
  BY <1>1, <1>4 DEF FinishSending, TypeOK
<1>5. CASE Reset(c)
  <2>1. PICK n \in received[c] .. sent[c] : sent' = [sent EXCEPT ![c] = n]
    BY <1>5 DEF Reset
  <2>2. n \in 0 .. MaxChunks /\ received[c] <= n
    BY <1>1, <2>1
  <2>3. /\ sent' \in [Conns -> 0 .. MaxChunks] /\ received[c] <= sent'[c]
        /\ \A d \in Conns : d # c => sent'[d] = sent[d]
    BY <2>1, <2>2 DEF TypeOK
  <2>4. /\ peer[c] \in {"open", "finished"} /\ peer'[c] \in {"reset", "gone"}
        /\ peer' \in [Conns -> {"absent", "knocking", "open", "finished", "reset", "gone"}]
        /\ \A d \in Conns : d # c => peer'[d] = peer[d]
    BY <1>5 DEF Reset, TypeOK
  <2>. QED BY <1>5, <2>3, <2>4 DEF Reset
<1>. QED BY <1>2, <1>3, <1>4, <1>5 DEF PeerStep

(* The types are kept by each step.                                        *)
LEMMA TypeStep ==
  ASSUME TypeOK, PoolKept, NoneForgotten, EchoedSoFar, [Next]_vars
  PROVE  TypeOK'
<1>1. CASE MainOther
  <2>1. /\ UNCHANGED <<accepted, active, g_shutdown_flag, client_socket, peer, sent,
                       hpc, bytes_read, received, echoed, interrupted>>
        /\ mpc' \in {"test", "exited", "call", "destroy", "accept", "join"}
    BY <1>1, MainOtherMoves DEF handlerVars, MainGoto
  <2>. QED BY <2>1 DEF TypeOK
<1>2. CASE PutConn
  BY <1>2 DEF PutConn, MainGoto, Pool!Accept, handlerVars, TypeOK
<1>3. CASE StartHandler
  <2>. DEFINE c == Head(backlog)
  <2>1. /\ backlog # <<>> /\ active' = active \cup {c} /\ accepted' = accepted
        /\ hpc' = [hpc EXCEPT ![c] = "read"]
        /\ UNCHANGED <<mpc, g_shutdown_flag, client_socket, peer, sent, bytes_read,
                       received, echoed, interrupted>>
    BY <1>3 DEF StartHandler, Pool!Start, mainVars
  <2>2. c \in Conns
    BY <2>1, RangeTail DEF PoolKept
  <2>. HIDE DEF c
  <2>3. /\ hpc' \in [Conns -> Handling \cup {"none", "closed"}]
        /\ active' = {d \in Conns : hpc'[d] \in Handling}
    BY <2>1, <2>2 DEF TypeOK
  <2>. QED BY <2>1, <2>3 DEF TypeOK
<1>4. ASSUME NEW c \in Conns, CloseConn(c)
      PROVE  TypeOK'
  <2>1. /\ active' = active \ {c} /\ accepted' = accepted /\ hpc' = [hpc EXCEPT ![c] = "closed"]
        /\ UNCHANGED <<mpc, g_shutdown_flag, client_socket, peer, sent, bytes_read,
                       received, echoed, interrupted>>
    BY <1>4 DEF CloseConn, Pool!Finish, mainVars
  <2>2. /\ hpc' \in [Conns -> Handling \cup {"none", "closed"}]
        /\ active' = {d \in Conns : hpc'[d] \in Handling}
    BY <2>1 DEF TypeOK
  <2>. QED BY <2>1, <2>2 DEF TypeOK
<1>5. ASSUME NEW c \in Conns, HandlerMoves(c)
      PROVE  TypeOK'
  <2>1. /\ hpc' \in [Conns -> Handling \cup {"none", "closed"}]
        /\ active' = active /\ accepted' = accepted /\ bytes_read' \in [Conns -> 0 .. SizeMod - 1]
        /\ UNCHANGED <<client_socket, sent>>
    BY <1>5, HandlerRuns DEF poolVars
  <2>2. active' = {d \in Conns : hpc'[d] \in Handling}
    BY <1>5, <2>1, HandlerRuns DEF TypeOK
  <2>3. /\ mpc' \in {mpc, "killed"} /\ g_shutdown_flag' \in {g_shutdown_flag, 1}
        /\ interrupted' \in {interrupted, interrupted \cup {c}}
    BY <1>5 DEF HandlerMoves, Read, ReadEnd, ReadFails, Write, Written, WriteBlocks,
           PeerReads, WriteFails, KilledBySigpipe,
           SigintAtHandler, HandleSigint, mainVars
  <2>4. peer' \in [Conns -> {"absent", "knocking", "open", "finished", "reset", "gone"}]
    BY <1>5 DEF HandlerMoves, Read, ReadEnd, ReadFails, Write, Written, WriteBlocks,
           PeerReads, WriteFails, KilledBySigpipe,
           SigintAtHandler, TypeOK
  <2>5. received' \in [Conns -> 0 .. MaxChunks]
    <3>1. CASE Read(c)
      <4>1. received[c] + 1 \in 0 .. MaxChunks
        <5>1. received[c] \in 0 .. MaxChunks /\ sent[c] \in 0 .. MaxChunks /\ received[c] < sent[c]
          BY <3>1 DEF Read, TypeOK
        <5>. QED BY <5>1, Parameters
      <4>. QED BY <3>1, <4>1 DEF Read, TypeOK
    <3>2. CASE UNCHANGED received
      BY <3>2 DEF TypeOK
    <3>. QED BY <1>5, <3>1, <3>2 DEF HandlerMoves, ReadEnd, ReadFails, Write, Written,
             WriteBlocks, PeerReads, WriteFails, KilledBySigpipe, SigintAtHandler, handlerVars
  <2>6. echoed' \in [Conns -> Nat]
    <3>1. CASE Write(c) \/ PeerReads(c)
      <4>1. echoed[c] + bytes_read[c] \in Nat
        BY Parameters DEF TypeOK
      <4>. QED BY <3>1, <4>1 DEF Write, PeerReads, Written, TypeOK
    <3>2. CASE UNCHANGED echoed
      BY <3>2 DEF TypeOK
    <3>. QED BY <1>5, <3>1, <3>2 DEF HandlerMoves, Read, ReadEnd, ReadFails, WriteBlocks, WriteFails,
             KilledBySigpipe, SigintAtHandler, handlerVars
  <2>. QED BY <2>1, <2>2, <2>3, <2>4, <2>5, <2>6 DEF TypeOK
<1>6. ASSUME NEW c \in Conns, AcceptConn(c)
      PROVE  TypeOK'
  <2>1. c \notin accepted
    BY <1>6 DEF AcceptConn, NoneForgotten
  <2>. QED BY <1>6, <2>1 DEF AcceptConn, MainGoto, TypeOK, poolVars, handlerVars
<1>7. ASSUME NEW c \in Conns, PeerStep(c)
      PROVE  TypeOK'
  <2>1. /\ peer' \in [Conns -> {"absent", "knocking", "open", "finished", "reset", "gone"}]
        /\ sent' \in [Conns -> 0 .. MaxChunks]
        /\ UNCHANGED <<accepted, active, mpc, g_shutdown_flag, client_socket,
                       hpc, bytes_read, received, echoed, interrupted>>
    BY <1>7, PeerMoves DEF poolVars, mainVars, handlerVars
  <2>. QED BY <2>1 DEF TypeOK
<1>8. CASE SigintAtMain \/ SigintAtWorker \/ UNCHANGED vars
  BY <1>8 DEF SigintAtMain, SigintAtWorker, HandleSigint, vars, poolVars, mainVars, handlerVars, TypeOK
<1>. QED BY <1>1, <1>2, <1>3, <1>4, <1>5, <1>6, <1>7, <1>8, Steps DEF HandlerStep, HandlerMoves

(* A connection that main has accepted stays with it or with the pool.     *)
LEMMA NoneForgottenStep ==
  ASSUME TypeOK, PoolKept, NoneForgotten, EchoedSoFar, [Next]_vars
  PROVE  NoneForgotten'
<1>. DEFINE Met == {c \in Conns : peer[c] \notin {"absent", "knocking"}}
<1>1. CASE MainOther
  BY <1>1, MainOtherMoves DEF NoneForgotten, MainGoto
<1>2. CASE PutConn
  <2>1. client_socket \in Conns /\ client_socket # NoConn
    BY <1>2, Parameters DEF PutConn, MainGoto, NoneForgotten, TypeOK
  <2>. QED BY <1>2, <2>1 DEF PutConn, MainGoto, Pool!Accept, NoneForgotten
<1>3. CASE StartHandler
  BY <1>3 DEF StartHandler, Pool!Start, mainVars, NoneForgotten
<1>4. ASSUME NEW c \in Conns, CloseConn(c)
      PROVE  NoneForgotten'
  BY <1>4 DEF CloseConn, Pool!Finish, mainVars, NoneForgotten
<1>5. ASSUME NEW c \in Conns, Alive, HandlerMoves(c)
      PROVE  NoneForgotten'
  <2>1. accepted' = accepted /\ client_socket' = client_socket
    BY <1>5, HandlerRuns DEF poolVars
  <2>2. mpc' \in {mpc, "killed"}
    BY <1>5 DEF HandlerMoves, Read, ReadEnd, ReadFails, Write, Written, WriteBlocks,
           PeerReads, WriteFails, KilledBySigpipe,
           SigintAtHandler, mainVars
  <2>3. \A d \in Conns : peer'[d] \in {"absent", "knocking"} <=> peer[d] \in {"absent", "knocking"}
    BY <1>5 DEF HandlerMoves, Read, ReadEnd, ReadFails, Write, Written, WriteBlocks,
           PeerReads, WriteFails, KilledBySigpipe,
           SigintAtHandler, TypeOK
  <2>. QED BY <1>5, <2>1, <2>2, <2>3 DEF NoneForgotten, Alive
<1>6. ASSUME NEW c \in Conns, AcceptConn(c)
      PROVE  NoneForgotten'
  <2>1. /\ mpc = "accept" /\ mpc' = "put" /\ peer' = [peer EXCEPT ![c] = "open"]
        /\ client_socket' = c /\ accepted' = accepted
    BY <1>6 DEF AcceptConn, MainGoto, poolVars
  <2>2. client_socket = NoConn /\ c # NoConn
    BY <2>1, Parameters DEF NoneForgotten
  <2>3. {d \in Conns : peer'[d] \notin {"absent", "knocking"}}
          = {d \in Conns : peer[d] \notin {"absent", "knocking"}} \cup {c}
    BY <2>1 DEF TypeOK
  <2>. QED BY <2>1, <2>2, <2>3 DEF NoneForgotten
<1>7. ASSUME NEW c \in Conns, PeerStep(c)
      PROVE  NoneForgotten'
  <2>1. /\ \A d \in Conns : peer'[d] \in {"absent", "knocking"} <=> peer[d] \in {"absent", "knocking"}
        /\ UNCHANGED <<accepted, mpc, client_socket>>
    BY <1>7, PeerMoves DEF poolVars, mainVars
  <2>. QED BY <2>1 DEF NoneForgotten
<1>8. CASE SigintAtMain \/ SigintAtWorker \/ UNCHANGED vars
  BY <1>8 DEF SigintAtMain, SigintAtWorker, vars, poolVars, mainVars, NoneForgotten
<1>. QED BY <1>1, <1>2, <1>3, <1>4, <1>5, <1>6, <1>7, <1>8, Steps DEF HandlerStep, HandlerMoves

(* What a handler owes its peer is kept by each step.                      *)
LEMMA EchoStep ==
  ASSUME TypeOK, PoolKept, EchoedSoFar, [Next]_vars
  PROVE  EchoedSoFar'
<1>. DEFINE Met(c) == received[c] <= sent[c]
            Plain(c) == c \notin interrupted /\ peer[c] \notin {"reset", "gone"}
<1>0. /\ \A c \in Conns : Met(c) /\ (Plain(c) => Owed(c))
      /\ \A c \in Conns : received[c] \in Nat /\ sent[c] \in Nat /\ echoed[c] \in Nat
                          /\ bytes_read[c] \in Nat
  BY Parameters DEF EchoedSoFar, TypeOK
<1>1. CASE UNCHANGED <<peer, sent, hpc, bytes_read, received, echoed, interrupted>>
           /\ g_shutdown_flag' \in {g_shutdown_flag, 1}
  BY <1>1 DEF EchoedSoFar, Owed
<1>2. CASE MainOther
  BY <1>1, <1>2, MainOtherMoves DEF handlerVars
<1>3. CASE PutConn \/ SigintAtMain \/ SigintAtWorker \/ UNCHANGED vars
  BY <1>1, <1>3 DEF PutConn, SigintAtMain, SigintAtWorker, HandleSigint, vars, mainVars, handlerVars
<1>4. CASE StartHandler
  <2>. DEFINE c == Head(backlog)
  <2>1. /\ backlog # <<>> /\ c \notin active \cup finished /\ hpc' = [hpc EXCEPT ![c] = "read"]
        /\ UNCHANGED <<g_shutdown_flag, peer, sent, bytes_read, received, echoed, interrupted>>
    BY <1>4 DEF StartHandler, Pool!Start, mainVars
  <2>2. c \in Conns
    BY <2>1, RangeTail DEF PoolKept
  <2>. HIDE DEF c
  <2>3. hpc[c] = "none" /\ hpc'[c] = "read" /\ \A d \in Conns : d # c => hpc'[d] = hpc[d]
    BY <2>1, <2>2 DEF PoolKept, TypeOK
  <2>. QED BY <2>1, <2>3 DEF EchoedSoFar, Owed
<1>5. ASSUME NEW c \in Conns, CloseConn(c)
      PROVE  EchoedSoFar'
  <2>1. /\ hpc[c] = "close" /\ hpc' = [hpc EXCEPT ![c] = "closed"]
        /\ UNCHANGED <<g_shutdown_flag, peer, sent, bytes_read, received, echoed, interrupted>>
    BY <1>5 DEF CloseConn, mainVars
  <2>2. hpc'[c] = "closed" /\ \A d \in Conns : d # c => hpc'[d] = hpc[d]
    BY <2>1 DEF TypeOK
  <2>. QED BY <2>1, <2>2 DEF EchoedSoFar, Owed
<1>6. ASSUME NEW c \in Conns, Read(c)
      PROVE  EchoedSoFar'
  <2>1. /\ hpc[c] = "read" /\ received[c] < sent[c] /\ hpc'[c] = "write" /\ bytes_read'[c] = 1
        /\ \A d \in Conns : d # c => hpc'[d] = hpc[d] /\ bytes_read'[d] = bytes_read[d]
    BY <1>6, ReadLeads DEF Read
  <2>2. /\ received'[c] = received[c] + 1
        /\ \A d \in Conns : d # c => received'[d] = received[d]
        /\ UNCHANGED <<g_shutdown_flag, peer, sent, echoed, interrupted>>
    BY <1>6 DEF Read, mainVars, TypeOK
  <2>. QED BY <1>0, <2>1, <2>2 DEF EchoedSoFar, Owed
<1>7. ASSUME NEW c \in Conns, ReadEnd(c)
      PROVE  EchoedSoFar'
  <2>1. /\ hpc[c] = "read" /\ received[c] = sent[c] /\ peer[c] \in {"finished", "gone"}
        /\ hpc'[c] = "close"
        /\ \A d \in Conns : d # c => hpc'[d] = hpc[d] /\ bytes_read'[d] = bytes_read[d]
    BY <1>7, ReadLeads DEF ReadEnd
  <2>2. UNCHANGED <<g_shutdown_flag, peer, sent, received, echoed, interrupted>>
    BY <1>7 DEF ReadEnd, mainVars
  <2>. QED BY <2>1, <2>2 DEF EchoedSoFar, Owed
<1>8. ASSUME NEW c \in Conns, ReadFails(c)
      PROVE  EchoedSoFar'
  <2>1. \A d \in Conns : d # c => hpc'[d] = hpc[d] /\ bytes_read'[d] = bytes_read[d]
    BY <1>8, ReadLeads DEF ReadFails
  <2>2. /\ peer'[c] = "gone" /\ \A d \in Conns : d # c => peer'[d] = peer[d]
        /\ UNCHANGED <<g_shutdown_flag, sent, received, echoed, interrupted>>
    BY <1>8 DEF ReadFails, mainVars, TypeOK
  <2>. QED BY <2>1, <2>2 DEF EchoedSoFar, Owed
<1>9. ASSUME NEW c \in Conns, Write(c) \/ PeerReads(c)
      PROVE  EchoedSoFar'
  <2>1. /\ hpc[c] \in {"write", "stuck"} /\ hpc'[c] = "read" /\ echoed'[c] = echoed[c] + bytes_read[c]
        /\ \A d \in Conns : d # c => hpc'[d] = hpc[d] /\ echoed'[d] = echoed[d]
        /\ UNCHANGED <<g_shutdown_flag, peer, sent, received, bytes_read, interrupted>>
    BY <1>9 DEF Write, PeerReads, Written, mainVars, TypeOK
  <2>. QED BY <1>0, <2>1 DEF EchoedSoFar, Owed
<1>10. ASSUME NEW c \in Conns, WriteFails(c)
       PROVE  EchoedSoFar'
  <2>1. /\ hpc[c] \in {"write", "stuck"} /\ (Refused(c) \/ peer'[c] = "gone")
        /\ \A d \in Conns : d # c => hpc'[d] = hpc[d] /\ peer'[d] = peer[d]
        /\ UNCHANGED <<g_shutdown_flag, sent, received, echoed, bytes_read, interrupted>>
        /\ peer'[c] \in {peer[c], "gone"}
    BY <1>10 DEF WriteFails, mainVars, TypeOK
  <2>2. Plain(c) => ~ Refused(c)
    BY <1>0, <1>10 DEF Owed, Refused, WriteFails
  <2>. QED BY <1>0, <2>1, <2>2 DEF EchoedSoFar, Owed
<1>11. ASSUME NEW c \in Conns, KilledBySigpipe(c)
       PROVE  EchoedSoFar'
  BY <1>1, <1>11 DEF KilledBySigpipe, handlerVars
<1>12. ASSUME NEW c \in Conns, SigintAtHandler(c)
       PROVE  EchoedSoFar'
  <2>1. /\ g_shutdown_flag' = 1 /\ interrupted' = interrupted \cup {c}
        /\ UNCHANGED <<peer, sent, received, echoed>>
    BY <1>12 DEF SigintAtHandler, HandleSigint
  <2>2. \A d \in Conns : d # c => hpc'[d] = hpc[d] /\ bytes_read'[d] = bytes_read[d]
    <3>1. CASE ReadReturns(c, -1)
      BY <3>1, ReadLeads
    <3>2. CASE hpc' = [hpc EXCEPT ![c] = "read"] /\ UNCHANGED bytes_read
      BY <3>2 DEF TypeOK
    <3>. QED BY <1>12, <3>1, <3>2 DEF SigintAtHandler
  <2>. QED BY <2>1, <2>2 DEF EchoedSoFar, Owed
<1>13. ASSUME NEW c \in Conns, WriteBlocks(c)
       PROVE  EchoedSoFar'
  <2>1. /\ hpc[c] = "write" /\ hpc'[c] = "stuck" /\ \A d \in Conns : d # c => hpc'[d] = hpc[d]
        /\ UNCHANGED <<peer, sent, received, echoed, bytes_read, interrupted>>
    BY <1>13 DEF WriteBlocks, mainVars, TypeOK
  <2>. QED BY <2>1 DEF EchoedSoFar, Owed
<1>14. ASSUME NEW c \in Conns, AcceptConn(c)
       PROVE  EchoedSoFar'
  <2>1. /\ peer[c] = "knocking" /\ peer'[c] = "open" /\ \A d \in Conns : d # c => peer'[d] = peer[d]
        /\ UNCHANGED <<g_shutdown_flag, sent, hpc, bytes_read, received, echoed, interrupted>>
    BY <1>14 DEF AcceptConn, handlerVars, TypeOK
  <2>. QED BY <2>1 DEF EchoedSoFar, Owed
<1>15. ASSUME NEW c \in Conns, PeerStep(c)
       PROVE  EchoedSoFar'
  <2>1. /\ peer'[c] \notin {"reset", "gone"} => peer[c] \in {"absent", "open"}
        /\ received[c] <= sent'[c]
        /\ \A d \in Conns : d # c => peer'[d] = peer[d] /\ sent'[d] = sent[d]
        /\ UNCHANGED <<g_shutdown_flag, hpc, bytes_read, received, echoed, interrupted>>
    BY <1>15, PeerMoves DEF mainVars, handlerVars
  <2>. QED BY <2>1 DEF EchoedSoFar, Owed
<1>. QED BY <1>2, <1>3, <1>4, <1>5, <1>6, <1>7, <1>8, <1>9, <1>10, <1>11, <1>12, <1>13,
            <1>14, <1>15, Steps DEF HandlerStep

-----------------------------------------------------------------------------
(* The theorems.                                                           *)

(* The invariant holds at the start.                                       *)
LEMMA InvInit == Init => IInv
<1>. SUFFICES ASSUME Init PROVE IInv
  OBVIOUS
<1>1. accepted = {} /\ backlog = <<>> /\ active = {} /\ finished = {}
  BY DEF Init, Pool!Init
<1>2. TypeOK
  <2>1. 0 \in 0 .. MaxChunks /\ 0 \in 0 .. SizeMod - 1 /\ 0 \in Nat
    BY Parameters
  <2>. QED BY <1>1, <2>1 DEF Init, TypeOK
<1>3. PoolKept /\ Pending = {}
  <2>1. backlog \in Seq(Conns) /\ Range(backlog) = {}
    BY <1>1 DEF Range
  <2>. QED BY <1>1, <2>1 DEF Init, PoolKept, Pending
<1>4. NoneForgotten
  BY <1>1 DEF Init, NoneForgotten
<1>5. EchoedSoFar
  BY DEF Init, EchoedSoFar, Owed
<1>. QED BY <1>2, <1>3, <1>4, <1>5 DEF IInv, IdleOutside

(* The invariant is inductive.                                             *)
LEMMA InvAlways == Spec => []IInv
<1>1. IInv /\ [Next]_vars => IInv'
  BY TypeStep, PoolStep, NoneForgottenStep, EchoStep DEF IInv
<1>. QED BY <1>1, InvInit, PTL DEF Spec

(* A connection has a handler exactly while its task is active, main never *)
(* holds one that the pool has, and no handler reads more than was sent.   *)
THEOREM Typing == Spec => []TypeOK
<1>1. IInv => TypeOK
  BY DEF IInv
<1>. QED BY <1>1, InvAlways, PTL

(* No connection is left open when the server exits: yatpool_destroy, with *)
(* which main ends, runs the handlers that are still queued                *)
(* (multithreaded_server.c:111-117, 129-132).                              *)
THEOREM Served == Spec => []ExitServesEveryone
<1>1. IInv => ExitServesEveryone
  <2>. SUFFICES ASSUME IInv, mpc = "exited", NEW c \in Conns, peer[c] \notin {"absent", "knocking"}
                PROVE  hpc[c] = "closed"
    BY DEF ExitServesEveryone
  <2>1. client_socket = NoConn
    BY DEF IInv, NoneForgotten
  <2>2. c \in accepted
    BY <2>1 DEF IInv, NoneForgotten
  <2>3. Pending = {}
    BY DEF IInv, IdleOutside
  <2>. QED BY <2>2, <2>3 DEF IInv, PoolKept
<1>. QED BY <1>1, InvAlways, PTL

(* What a peer sent is echoed in full before its connection is closed, if  *)
(* the peer ended it and no signal met its handler, although the handler   *)
(* keeps what read returns in a size_t (multithreaded_server.c:46-61).     *)
THEOREM Echoes == Spec => []EchoComplete
<1>1. IInv => EchoComplete
  BY DEF IInv, EchoedSoFar, Owed, EchoComplete
<1>. QED BY <1>1, InvAlways, PTL
=============================================================================

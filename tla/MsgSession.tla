------------------------------ MODULE MsgSession ------------------------------
(***************************************************************************)
(* The client session of libmsgexchange: MsgSession on top of              *)
(* MsgConnection, MsgThread and MsgCondition.  Application threads         *)
(* (Callers) call Open, Close, Terminate and TransmitMessage; one worker   *)
(* thread reads packets from the socket and hands them either to the       *)
(* waiting transmitter or to OnNotification.                               *)
(*                                                                         *)
(* A packet is a number: n > 0 is the response to the request with UID n,  *)
(* 0 is a packet the server sent on its own account.  A socket is the      *)
(* number of the connection it belongs to, 0 stands for -1 (closed).       *)
(* Heap addresses of MsgResponseCondition objects are explicit, because    *)
(* the worker keeps such a pointer across the release of m_mutex.          *)
(***************************************************************************)
EXTENDS Integers, Sequences, FiniteSets

CONSTANTS
  Callers,      \* application threads
  Terminators,  \* the callers that use Terminate() directly
  Worker,       \* the thread started by MsgThread::Start
  NoThread,     \* "mutex is free"
  Addrs,        \* addresses the allocator can give to a condition object
  NoAddr,       \* nullptr
  MaxUid,       \* bound: number of requests
  MaxConn,      \* bound: number of successful connects
  MaxWire       \* bound: packets in the receive buffer of the socket

ASSUME ThreadAssumption ==
  /\ Terminators \subseteq Callers
  /\ Worker \notin Callers
  /\ NoThread \notin Callers \cup {Worker}

ASSUME AddrAssumption == NoAddr \notin Addrs

ASSUME BoundAssumption ==
  /\ MaxUid \in Nat
  /\ MaxConn \in Nat
  /\ MaxWire \in Nat

Threads == Callers \cup {Worker}

Uids == 1 .. MaxUid

Conns == 1 .. MaxConn

NoSocket == 0       \* m_socket == -1

Notification == 0   \* a packet that answers no request

NoPacket == -1      \* ReadResponse returned false

Packets == {Notification} \cup Uids

VARIABLES
  \* MsgConnection
  socket,           \* m_socket
  connectionlost,   \* m_connectionlost
  aborting,         \* m_aborting
  connMutex,        \* MsgConnection::m_mutex: its holder
  \* MsgThread
  running,          \* m_running
  stopped,          \* m_stopped
  threadMutex,      \* MsgThread::m_mutex: its holder
  \* MsgSession
  mutexTransmit,    \* m_mutexTransmit: its holder
  queue,            \* m_queue: UID -> address of the waiting condition
  \* heap of MsgResponseCondition objects
  live,             \* allocated addresses
  signaled,         \* m_signaled of the object at an address
  packet,           \* UID in the response packet the object points to
  \* thread-local state
  pc,               \* where each thread is
  fd,               \* the socket a thread passed to read() or write()
  uid,              \* the request a caller is transmitting
  cond,             \* q in TransmitMessage
  rc,               \* rc in TransmitMessage
  wpacket,          \* p in Run, NoPacket when ReadResponse failed
  wcond,            \* c in Run
  \* the peer and the process
  globalUID,        \* the last UID handed out
  conns,            \* connections made so far
  wire,             \* bytes the server sent on the current connection
  pending,          \* requests the server has received and not answered
  peerOpen,         \* the server still holds its end of the connection
  shut,             \* shutdown() was called on the current socket
  \* history
  session,          \* the connection of the last Open() that returned true
  dangled           \* a condition was deleted while the worker held it in c

connVars == <<socket, connectionlost, aborting, connMutex>>
threadVars == <<running, stopped, threadMutex>>
heapVars == <<queue, live, signaled, packet>>
callVars == <<uid, cond, rc>>
workVars == <<wpacket, wcond>>
histVars == <<session, dangled>>
netVars == <<conns, wire, pending, peerOpen, shut>>
vars == <<connVars, threadVars, mutexTransmit, heapVars, pc, fd, callVars,
          workVars, globalUID, netVars, histVars>>

Transmitting == {"t_add", "t_send", "t_write", "t_fail", "t_wait", "t_erase"}
Opening == {"o_conn", "o_connect", "o_start", "o_started"}
Closing == {"x_abort", "x_stop", "x_join", "x_close"}
Losing == {"l_check", "l_set", "l_abort", "l_close", "l_callback"}
Working == {"startup", "loop", "read", "recv", "after", "find", "copy",
            "signal", "notify", "clear", "exit", "exited"}

CallerLabels == {"idle"} \cup Transmitting \cup Opening \cup Closing \cup Losing
WorkerLabels == {"none"} \cup Working \cup Losing

Free(mutex) == mutex = NoThread

Goto(t, label) == pc' = [pc EXCEPT ![t] = label]

(***************************************************************************)
(* The call of c returns; the lock_guard on m_mutexTransmit, if c has one, *)
(* goes out of scope.                                                      *)
(***************************************************************************)
Return(c) ==
  /\ Goto(c, "idle")
  /\ mutexTransmit' = IF mutexTransmit = c THEN NoThread ELSE mutexTransmit

\* std::lock_guard lock(m_mutexTransmit) at the start of a call
LockTransmit(c, label) ==
  /\ pc[c] = "idle"
  /\ Free(mutexTransmit)
  /\ mutexTransmit' = c
  /\ Goto(c, label)

IsOpen == socket # NoSocket

emptyQueue == \A u \in Uids : queue[u] = NoAddr

\* shutdown(m_socket, SHUT_RDWR) together with m_aborting = true
Abort ==
  /\ aborting' = TRUE
  /\ shut' = (shut \/ IsOpen)

(***************************************************************************)
(* MsgConnection::Close.  The body runs under the connection mutex; the    *)
(* flag m_aborting survives when there was no socket to close.             *)
(***************************************************************************)
ConnectionClose ==
  /\ Free(connMutex)
  /\ socket' = NoSocket
  /\ aborting' = IF IsOpen THEN FALSE ELSE aborting
  /\ wire' = <<>>
  /\ pending' = {}
  /\ peerOpen' = FALSE
  /\ shut' = FALSE

-------------------------------------------------------------------------------
\* mutant: the worker goes on in the code of the transmitter
MutAfterLoss(t) == "t_fail"

(***************************************************************************)
(* SetConnectionLost, run by the transmitter after a failed write and by   *)
(* the worker after the end of the stream.  It takes no lock around its    *)
(* check, so both may be in it.                                            *)
(***************************************************************************)
AfterLoss(t) == IF t = Worker THEN "after" ELSE "t_fail"

LostCheck(t) ==
  /\ pc[t] = "l_check"
  /\ Goto(t, IF connectionlost \/ aborting THEN AfterLoss(t) ELSE "l_set")
  /\ UNCHANGED <<connVars, threadVars, mutexTransmit, heapVars, fd, callVars,
                 workVars, globalUID, netVars, histVars>>

LostSet(t) ==
  /\ pc[t] = "l_set"
  /\ connectionlost' = TRUE
  /\ Goto(t, "l_abort")
  /\ UNCHANGED <<socket, aborting, connMutex, threadVars, mutexTransmit,
                 heapVars, fd, callVars, workVars, globalUID, netVars, histVars>>

LostAbort(t) ==
  /\ pc[t] = "l_abort"
  /\ Abort
  /\ Goto(t, "l_close")
  /\ UNCHANGED <<socket, connectionlost, connMutex, threadVars, mutexTransmit,
                 heapVars, fd, callVars, workVars, globalUID, conns, wire,
                 pending, peerOpen, histVars>>

LostClose(t) ==
  /\ pc[t] = "l_close"
  /\ ConnectionClose
  /\ Goto(t, "l_callback")
  /\ UNCHANGED <<connectionlost, connMutex, threadVars, mutexTransmit, heapVars,
                 fd, callVars, workVars, globalUID, conns, histVars>>

\* OnDisconnect(): the listener of the session is told
LostCallback(t) ==
  /\ pc[t] = "l_callback"
  /\ Goto(t, AfterLoss(t))
  /\ UNCHANGED <<connVars, threadVars, mutexTransmit, heapVars, fd, callVars,
                 workVars, globalUID, netVars, histVars>>

SetConnectionLost(t) ==
  \/ LostCheck(t)
  \/ LostSet(t)
  \/ LostAbort(t)
  \/ LostClose(t)
  \/ LostCallback(t)

-------------------------------------------------------------------------------
(***************************************************************************)
(* Open                                                                    *)
(***************************************************************************)
Open(c) ==
  /\ LockTransmit(c, "o_conn")
  /\ UNCHANGED <<connVars, threadVars, heapVars, fd, callVars, workVars,
                 globalUID, netVars, histVars>>

\* MsgConnection::Open: lock, and give up when there is a socket already
OpenConnection(c) ==
  /\ pc[c] = "o_conn"
  /\ Free(connMutex)
  /\ \/ /\ IsOpen
        /\ Return(c)
        /\ UNCHANGED connMutex
     \/ /\ ~IsOpen
        /\ connMutex' = c
        /\ Goto(c, "o_connect")
        /\ UNCHANGED mutexTransmit
  /\ UNCHANGED <<socket, connectionlost, aborting, threadVars, heapVars, fd,
                 callVars, workVars, globalUID, netVars, histVars>>

\* connect() fails or times out
OpenUnreachable(c) ==
  /\ pc[c] = "o_connect"
  /\ connMutex' = NoThread
  /\ Return(c)
  /\ UNCHANGED <<socket, connectionlost, aborting, threadVars, heapVars, fd,
                 callVars, workVars, globalUID, netVars, histVars>>

\* mutant: m_aborting keeps its value
MutOpenConnected(c) ==
  /\ pc[c] = "o_connect"
  /\ conns < MaxConn
  /\ conns' = conns + 1
  /\ socket' = conns + 1
  /\ connectionlost' = FALSE
  /\ connMutex' = NoThread
  /\ wire' = <<>>
  /\ pending' = {}
  /\ peerOpen' = TRUE
  /\ shut' = FALSE
  /\ Goto(c, "o_start")
  /\ UNCHANGED <<aborting, threadVars, mutexTransmit, heapVars, fd, callVars,
                 workVars, globalUID, histVars>>

OpenConnected(c) ==
  /\ pc[c] = "o_connect"
  /\ conns < MaxConn
  /\ conns' = conns + 1
  /\ socket' = conns + 1
  /\ connectionlost' = FALSE
  /\ aborting' = FALSE
  /\ connMutex' = NoThread
  /\ wire' = <<>>
  /\ pending' = {}
  /\ peerOpen' = TRUE
  /\ shut' = FALSE
  /\ Goto(c, "o_start")
  /\ UNCHANGED <<threadVars, mutexTransmit, heapVars, fd, callVars, workVars,
                 globalUID, histVars>>

(***************************************************************************)
(* MsgThread::Start.  A worker that ended by itself and was not joined by  *)
(* Stop() leaves m_stopped false: Open() then fails although it connected. *)
(***************************************************************************)
OpenStart(c) ==
  /\ pc[c] = "o_start"
  /\ Free(threadMutex)
  /\ \/ /\ ~stopped
        /\ Return(c)
        /\ UNCHANGED <<stopped, threadMutex>>
     \/ /\ stopped
        /\ stopped' = FALSE
        /\ threadMutex' = c
        /\ pc' = [pc EXCEPT ![c] = "o_started", ![Worker] = "startup"]
        /\ UNCHANGED mutexTransmit
  /\ UNCHANGED <<connVars, running, heapVars, fd, callVars, workVars,
                 globalUID, netVars, histVars>>

\* m_startup.Wait() returns once the worker has signalled
OpenStarted(c) ==
  /\ pc[c] = "o_started"
  /\ pc[Worker] # "startup"
  /\ threadMutex' = NoThread
  /\ session' = socket
  /\ Return(c)
  /\ UNCHANGED <<connVars, running, stopped, heapVars, fd, callVars, workVars,
                 globalUID, netVars, dangled>>

-------------------------------------------------------------------------------
(***************************************************************************)
(* Close and Terminate                                                     *)
(***************************************************************************)
Close(c) ==
  /\ LockTransmit(c, "x_abort")
  /\ UNCHANGED <<connVars, threadVars, heapVars, fd, callVars, workVars,
                 globalUID, netVars, histVars>>

Terminate(c) ==
  /\ c \in Terminators
  /\ pc[c] = "idle"
  /\ Goto(c, "x_abort")
  /\ UNCHANGED <<connVars, threadVars, mutexTransmit, heapVars, fd, callVars,
                 workVars, globalUID, netVars, histVars>>

CloseAbort(c) ==
  /\ pc[c] = "x_abort"
  /\ Abort
  /\ Goto(c, "x_stop")
  /\ UNCHANGED <<socket, connectionlost, connMutex, threadVars, mutexTransmit,
                 heapVars, fd, callVars, workVars, globalUID, conns, wire,
                 pending, peerOpen, histVars>>

\* mutant: the worker is told to stop and not joined
MutCloseStopNoJoin(c) ==
  /\ pc[c] = "x_stop"
  /\ Free(threadMutex)
  /\ running' = FALSE
  /\ Goto(c, "x_close")
  /\ UNCHANGED <<connVars, stopped, threadMutex, mutexTransmit, heapVars, fd,
                 callVars, workVars, globalUID, netVars, histVars>>

\* mutant: the worker is joined and not told to stop
MutCloseStopRunning(c) ==
  /\ pc[c] = "x_stop"
  /\ Free(threadMutex)
  /\ threadMutex' = IF stopped THEN threadMutex ELSE c
  /\ Goto(c, IF stopped THEN "x_close" ELSE "x_join")
  /\ UNCHANGED <<connVars, running, stopped, mutexTransmit, heapVars, fd,
                 callVars, workVars, globalUID, netVars, histVars>>

\* MsgThread::Stop up to m_worker.join()
CloseStop(c) ==
  /\ pc[c] = "x_stop"
  /\ Free(threadMutex)
  /\ \/ /\ stopped
        /\ Goto(c, "x_close")
        /\ UNCHANGED <<running, threadMutex>>
     \/ /\ ~stopped
        /\ running' = FALSE
        /\ threadMutex' = c
        /\ Goto(c, "x_join")
  /\ UNCHANGED <<connVars, stopped, mutexTransmit, heapVars, fd, callVars,
                 workVars, globalUID, netVars, histVars>>

CloseJoin(c) ==
  /\ pc[c] = "x_join"
  /\ pc[Worker] = "exited"
  /\ stopped' = TRUE
  /\ threadMutex' = NoThread
  /\ pc' = [pc EXCEPT ![c] = "x_close", ![Worker] = "none"]
  /\ UNCHANGED <<connVars, running, mutexTransmit, heapVars, fd, callVars,
                 workVars, globalUID, netVars, histVars>>

CloseConnection(c) ==
  /\ pc[c] = "x_close"
  /\ ConnectionClose
  /\ Return(c)
  /\ UNCHANGED <<connectionlost, connMutex, threadVars, heapVars, fd, callVars,
                 workVars, globalUID, conns, histVars>>

-------------------------------------------------------------------------------
\* mutant: m_mutexTransmit is not locked
MutTransmitMessage(c) ==
  /\ pc[c] = "idle"
  /\ globalUID < MaxUid
  /\ globalUID' = globalUID + 1
  /\ (IsOpen /\ ~aborting) \/ connectionlost
  /\ uid' = [uid EXCEPT ![c] = globalUID + 1]
  /\ Goto(c, "t_add")
  /\ UNCHANGED <<connVars, threadVars, mutexTransmit, heapVars, fd, cond, rc,
                 workVars, netVars, histVars>>

(***************************************************************************)
(* TransmitMessage                                                         *)
(***************************************************************************)
TransmitMessage(c) ==
  /\ pc[c] = "idle"
  /\ Free(mutexTransmit)
  /\ globalUID < MaxUid
  /\ globalUID' = globalUID + 1
  /\ \/ /\ (~IsOpen \/ aborting) /\ ~connectionlost
        /\ UNCHANGED <<pc, mutexTransmit, uid>>
     \/ /\ (IsOpen /\ ~aborting) \/ connectionlost
        /\ uid' = [uid EXCEPT ![c] = globalUID + 1]
        /\ mutexTransmit' = c
        /\ Goto(c, "t_add")
  /\ UNCHANGED <<connVars, threadVars, heapVars, fd, cond, rc, workVars,
                 netVars, histVars>>

\* new MsgResponseCondition(response), m_queue[uid] = q
TransmitAdd(c) ==
  /\ pc[c] = "t_add"
  /\ \E a \in Addrs \ live :
       /\ live' = live \cup {a}
       /\ signaled' = [signaled EXCEPT ![a] = FALSE]
       /\ packet' = [packet EXCEPT ![a] = NoPacket]
       /\ queue' = [queue EXCEPT ![uid[c]] = a]
       /\ cond' = [cond EXCEPT ![c] = a]
  /\ Goto(c, "t_send")
  /\ UNCHANGED <<connVars, threadVars, mutexTransmit, fd, uid, rc, workVars,
                 globalUID, netVars, histVars>>

\* SendRequest up to the evaluation of m_socket
TransmitSend(c) ==
  /\ pc[c] = "t_send"
  /\ IF aborting \/ connectionlost
     THEN Goto(c, "t_fail") /\ UNCHANGED fd
     ELSE Goto(c, "t_write") /\ fd' = [fd EXCEPT ![c] = socket]
  /\ UNCHANGED <<connVars, threadVars, mutexTransmit, heapVars, callVars,
                 workVars, globalUID, netVars, histVars>>

(***************************************************************************)
(* request->write(): the kernel takes the packet, which need not mean that *)
(* the server gets it, or the write fails.                                 *)
(***************************************************************************)
TransmitWrite(c) ==
  /\ pc[c] = "t_write"
  /\ \/ /\ fd[c] = socket /\ IsOpen /\ ~shut
        /\ pending' = IF peerOpen THEN pending \cup {uid[c]} ELSE pending
        /\ Goto(c, "t_wait")
     \/ /\ Goto(c, "l_check")
        /\ UNCHANGED pending
  /\ UNCHANGED <<connVars, threadVars, mutexTransmit, heapVars, fd, callVars,
                 workVars, globalUID, conns, wire, peerOpen, shut, histVars>>

\* mutant: the entry stays in m_queue
MutEraseAndDelete(c) ==
  /\ live' = live \ {cond[c]}
  /\ dangled' = (dangled \/ wcond = cond[c])
  /\ Return(c)
  /\ UNCHANGED <<queue, callVars, fd>>

\* m_queue.erase(uid), delete q, under the mutex of the queue, and return:
\* the local variables of the call are gone
EraseAndDelete(c) ==
  /\ queue' = [queue EXCEPT ![uid[c]] = NoAddr]
  /\ live' = live \ {cond[c]}
  /\ dangled' = (dangled \/ wcond = cond[c])
  /\ uid' = [uid EXCEPT ![c] = 0]
  /\ cond' = [cond EXCEPT ![c] = NoAddr]
  /\ rc' = [rc EXCEPT ![c] = FALSE]
  /\ fd' = [fd EXCEPT ![c] = NoSocket]
  /\ Return(c)

TransmitFail(c) ==
  /\ pc[c] = "t_fail"
  /\ EraseAndDelete(c)
  /\ UNCHANGED <<connVars, threadVars, signaled, packet, workVars, globalUID,
                 netVars, session>>

\* mutant: the wait has no timeout
MutTransmitWait(c) ==
  /\ pc[c] = "t_wait"
  /\ signaled[cond[c]]
  /\ rc' = [rc EXCEPT ![c] = TRUE]
  /\ signaled' = [signaled EXCEPT ![cond[c]] = FALSE]
  /\ Goto(c, "t_erase")
  /\ UNCHANGED <<connVars, threadVars, mutexTransmit, queue, live, packet, fd,
                 uid, cond, workVars, globalUID, netVars, histVars>>

\* q->Wait(m_timeout): signalled, or the time is over
TransmitWait(c) ==
  /\ pc[c] = "t_wait"
  /\ rc' = [rc EXCEPT ![c] = signaled[cond[c]]]
  /\ signaled' = [signaled EXCEPT ![cond[c]] = FALSE]
  /\ Goto(c, "t_erase")
  /\ UNCHANGED <<connVars, threadVars, mutexTransmit, queue, live, packet, fd,
                 uid, cond, workVars, globalUID, netVars, histVars>>

TransmitErase(c) ==
  /\ pc[c] = "t_erase"
  /\ EraseAndDelete(c)
  /\ UNCHANGED <<connVars, threadVars, signaled, packet, workVars, globalUID,
                 netVars, session>>

-------------------------------------------------------------------------------
\* mutant: m_running is not set
MutWorkerStartup ==
  /\ pc[Worker] = "startup"
  /\ Goto(Worker, "loop")
  /\ UNCHANGED <<connVars, threadVars, mutexTransmit, heapVars, fd, callVars,
                 workVars, globalUID, netVars, histVars>>

(***************************************************************************)
(* The worker: MsgThread::ThreadWorker around MsgSession::Run              *)
(***************************************************************************)
WorkerStartup ==
  /\ pc[Worker] = "startup"
  /\ running' = TRUE
  /\ Goto(Worker, "loop")
  /\ UNCHANGED <<connVars, stopped, threadMutex, mutexTransmit, heapVars, fd,
                 callVars, workVars, globalUID, netVars, histVars>>

\* while(IsRunning() || !emptyQueue())
WorkerLoop ==
  /\ pc[Worker] = "loop"
  /\ Goto(Worker, IF running \/ ~emptyQueue THEN "read" ELSE "clear")
  /\ UNCHANGED <<connVars, threadVars, mutexTransmit, heapVars, fd, callVars,
                 workVars, globalUID, netVars, histVars>>

\* ReadResponse up to the evaluation of m_socket
WorkerRead ==
  /\ pc[Worker] = "read"
  /\ wpacket' = NoPacket
  /\ IF aborting \/ connectionlost
     THEN Goto(Worker, "after") /\ UNCHANGED fd
     ELSE Goto(Worker, "recv") /\ fd' = [fd EXCEPT ![Worker] = socket]
  /\ UNCHANGED <<connVars, threadVars, mutexTransmit, heapVars, callVars,
                 wcond, globalUID, netVars, histVars>>

\* the socket the worker reads from is still the one of the connection
Current == fd[Worker] # NoSocket /\ fd[Worker] = socket

\* MsgPacket::read returns a packet
WorkerReceive ==
  /\ pc[Worker] = "recv"
  /\ Current
  /\ wire # <<>>
  /\ wpacket' = Head(wire)
  /\ wire' = Tail(wire)
  /\ Goto(Worker, "after")
  /\ UNCHANGED <<connVars, threadVars, mutexTransmit, heapVars, fd, callVars,
                 wcond, globalUID, conns, pending, peerOpen, shut, histVars>>

\* a packet that is cut off by the timeout or fails a checksum is dropped
WorkerGarbled ==
  /\ pc[Worker] = "recv"
  /\ Current
  /\ wire # <<>>
  /\ wire' = Tail(wire)
  /\ Goto(Worker, "after")
  /\ UNCHANGED <<connVars, threadVars, mutexTransmit, heapVars, fd, callVars,
                 workVars, globalUID, conns, pending, peerOpen, shut, histVars>>

\* no data within m_timeout, or the descriptor is no longer valid
WorkerNothing ==
  /\ pc[Worker] = "recv"
  /\ Current => wire = <<>> /\ peerOpen /\ ~shut
  /\ Goto(Worker, "after")
  /\ UNCHANGED <<connVars, threadVars, mutexTransmit, heapVars, fd, callVars,
                 workVars, globalUID, netVars, histVars>>

\* mutant: the end of the stream is taken for a timeout
MutWorkerClosed ==
  /\ pc[Worker] = "recv"
  /\ fd[Worker] # NoSocket
  /\ Current => ~peerOpen \/ (shut /\ wire = <<>>)
  /\ Goto(Worker, "after")
  /\ UNCHANGED <<connVars, threadVars, mutexTransmit, heapVars, fd, callVars,
                 workVars, globalUID, netVars, histVars>>

\* end of the stream: bClosed
WorkerClosed ==
  /\ pc[Worker] = "recv"
  /\ fd[Worker] # NoSocket
  /\ Current => ~peerOpen \/ (shut /\ wire = <<>>)
  /\ Goto(Worker, "l_check")
  /\ UNCHANGED <<connVars, threadVars, mutexTransmit, heapVars, fd, callVars,
                 workVars, globalUID, netVars, histVars>>

\* GetConnectionLost() after the read, then !rc; the read is over
WorkerAfterRead ==
  /\ pc[Worker] = "after"
  /\ Goto(Worker, IF connectionlost THEN "clear"
                  ELSE IF wpacket = NoPacket THEN "loop" ELSE "find")
  /\ fd' = [fd EXCEPT ![Worker] = NoSocket]
  /\ UNCHANGED <<connVars, threadVars, mutexTransmit, heapVars, callVars,
                 workVars, globalUID, netVars, histVars>>

\* mutant: any response is given to whoever waits
MutFound ==
  IF emptyQueue \/ wpacket = Notification THEN NoAddr
  ELSE queue[CHOOSE u \in Uids : queue[u] # NoAddr]

\* find(p): the key holds the type, so a notification has no entry
Found == IF wpacket \in Uids THEN queue[wpacket] ELSE NoAddr

\* find and erase under the mutex of the queue, which is then released
WorkerFind ==
  /\ pc[Worker] = "find"
  /\ wcond' = Found
  /\ queue' = [u \in Uids |-> IF u = wpacket THEN NoAddr ELSE queue[u]]
  /\ Goto(Worker, IF Found = NoAddr THEN "notify" ELSE "copy")
  /\ UNCHANGED <<connVars, threadVars, mutexTransmit, live, signaled, packet,
                 fd, callVars, wpacket, globalUID, netVars, histVars>>

(***************************************************************************)
(* MsgResponseCondition::Signal(p) without the mutex.  When the object was *)
(* deleted meanwhile, its memory may already belong to the condition of    *)
(* the next request; the writes go there.                                  *)
(***************************************************************************)
WorkerCopy ==
  /\ pc[Worker] = "copy"
  /\ packet' = [packet EXCEPT ![wcond] = wpacket]
  /\ Goto(Worker, "signal")
  /\ UNCHANGED <<connVars, threadVars, mutexTransmit, queue, live, signaled,
                 fd, callVars, workVars, globalUID, netVars, histVars>>

WorkerSignal ==
  /\ pc[Worker] = "signal"
  /\ signaled' = [signaled EXCEPT ![wcond] = TRUE]
  /\ wcond' = NoAddr
  /\ Goto(Worker, "loop")
  /\ UNCHANGED <<connVars, threadVars, mutexTransmit, queue, live, packet, fd,
                 callVars, wpacket, globalUID, netVars, histVars>>

\* OnNotification(p)
WorkerNotify ==
  /\ pc[Worker] = "notify"
  /\ Goto(Worker, "loop")
  /\ UNCHANGED <<connVars, threadVars, mutexTransmit, heapVars, fd, callVars,
                 workVars, globalUID, netVars, histVars>>

\* m_queue.clear() at the end of Run, without the mutex
WorkerClear ==
  /\ pc[Worker] = "clear"
  /\ queue' = [u \in Uids |-> NoAddr]
  /\ Goto(Worker, "exit")
  /\ UNCHANGED <<connVars, threadVars, mutexTransmit, live, signaled, packet,
                 fd, callVars, workVars, globalUID, netVars, histVars>>

\* m_running = false at the end of ThreadWorker
WorkerExit ==
  /\ pc[Worker] = "exit"
  /\ running' = FALSE
  /\ Goto(Worker, "exited")
  /\ UNCHANGED <<connVars, stopped, threadMutex, mutexTransmit, heapVars, fd,
                 callVars, workVars, globalUID, netVars, histVars>>

-------------------------------------------------------------------------------
(***************************************************************************)
(* The server and the network                                              *)
(***************************************************************************)
ServerRespond ==
  /\ peerOpen
  /\ Len(wire) < MaxWire
  /\ \E u \in pending :
       /\ wire' = Append(wire, u)
       /\ pending' = pending \ {u}
  /\ UNCHANGED <<connVars, threadVars, mutexTransmit, heapVars, pc, fd,
                 callVars, workVars, globalUID, conns, peerOpen, shut, histVars>>

ServerNotify ==
  /\ peerOpen
  /\ Len(wire) < MaxWire
  /\ wire' = Append(wire, Notification)
  /\ UNCHANGED <<connVars, threadVars, mutexTransmit, heapVars, pc, fd,
                 callVars, workVars, globalUID, conns, pending, peerOpen, shut,
                 histVars>>

\* the server ends or crashes, or keepalive gives up
ServerGone ==
  /\ peerOpen
  /\ peerOpen' = FALSE
  /\ UNCHANGED <<connVars, threadVars, mutexTransmit, heapVars, pc, fd,
                 callVars, workVars, globalUID, conns, wire, pending, shut,
                 histVars>>

-------------------------------------------------------------------------------
Init ==
  /\ socket = NoSocket
  /\ connectionlost = FALSE
  /\ aborting = FALSE
  /\ connMutex = NoThread
  /\ running = FALSE
  /\ stopped = TRUE
  /\ threadMutex = NoThread
  /\ mutexTransmit = NoThread
  /\ queue = [u \in Uids |-> NoAddr]
  /\ live = {}
  /\ signaled = [a \in Addrs |-> FALSE]
  /\ packet = [a \in Addrs |-> NoPacket]
  /\ pc = [t \in Threads |-> IF t = Worker THEN "none" ELSE "idle"]
  /\ fd = [t \in Threads |-> NoSocket]
  /\ uid = [c \in Callers |-> 0]
  /\ cond = [c \in Callers |-> NoAddr]
  /\ rc = [c \in Callers |-> FALSE]
  /\ wpacket = NoPacket
  /\ wcond = NoAddr
  /\ globalUID = 0
  /\ conns = 0
  /\ wire = <<>>
  /\ pending = {}
  /\ peerOpen = FALSE
  /\ shut = FALSE
  /\ session = NoSocket
  /\ dangled = FALSE

\* the calls an application thread may make
CallerStarts(c) ==
  \/ Open(c)
  \/ Close(c)
  \/ Terminate(c)
  \/ TransmitMessage(c)

\* a call in progress goes on
CallerStep(c) ==
  \/ OpenConnection(c)
  \/ OpenUnreachable(c)
  \/ OpenConnected(c)
  \/ OpenStart(c)
  \/ OpenStarted(c)
  \/ CloseAbort(c)
  \/ CloseStop(c)
  \/ CloseJoin(c)
  \/ CloseConnection(c)
  \/ TransmitAdd(c)
  \/ TransmitSend(c)
  \/ TransmitWrite(c)
  \/ TransmitFail(c)
  \/ TransmitWait(c)
  \/ TransmitErase(c)
  \/ SetConnectionLost(c)

WorkerStep ==
  \/ WorkerStartup
  \/ WorkerLoop
  \/ WorkerRead
  \/ WorkerReceive
  \/ WorkerGarbled
  \/ WorkerNothing
  \/ WorkerClosed
  \/ WorkerAfterRead
  \/ WorkerFind
  \/ WorkerCopy
  \/ WorkerSignal
  \/ WorkerNotify
  \/ WorkerClear
  \/ WorkerExit
  \/ SetConnectionLost(Worker)

Server ==
  \/ ServerRespond
  \/ ServerNotify
  \/ ServerGone

Next ==
  \/ \E c \in Callers : CallerStarts(c) \/ CallerStep(c)
  \/ WorkerStep
  \/ Server

Spec == Init /\ [][Next]_vars

(***************************************************************************)
(* The threads of the process are scheduled, every blocking call of theirs *)
(* has a timeout, and a thread that waits for a mutex which is released    *)
(* again and again gets it (a caller's step is disabled only while it      *)
(* waits for a mutex or for the worker, so strong fairness says no more).  *)
(* Nothing is assumed of the server or of when the application calls.      *)
(***************************************************************************)
FairSpec ==
  /\ Spec
  /\ \A c \in Callers : SF_vars(CallerStep(c))
  /\ SF_vars(WorkerStep)

-------------------------------------------------------------------------------
ConnTypeOK ==
  /\ socket \in Conns \cup {NoSocket}
  /\ connectionlost \in BOOLEAN
  /\ aborting \in BOOLEAN
  /\ connMutex \in Callers \cup {NoThread}

ThreadTypeOK ==
  /\ running \in BOOLEAN
  /\ stopped \in BOOLEAN
  /\ threadMutex \in Callers \cup {NoThread}
  /\ mutexTransmit \in Callers \cup {NoThread}

HeapTypeOK ==
  /\ queue \in [Uids -> Addrs \cup {NoAddr}]
  /\ live \in SUBSET Addrs
  /\ signaled \in [Addrs -> BOOLEAN]
  /\ packet \in [Addrs -> Packets \cup {NoPacket}]

PcTypeOK ==
  /\ pc \in [Threads -> CallerLabels \cup WorkerLabels]
  /\ \A c \in Callers : pc[c] \in CallerLabels
  /\ pc[Worker] \in WorkerLabels

LocalTypeOK ==
  /\ fd \in [Threads -> Conns \cup {NoSocket}]
  /\ uid \in [Callers -> Uids \cup {0}]
  /\ cond \in [Callers -> Addrs \cup {NoAddr}]
  /\ rc \in [Callers -> BOOLEAN]
  /\ wpacket \in Packets \cup {NoPacket}
  /\ wcond \in Addrs \cup {NoAddr}

NetTypeOK ==
  /\ globalUID \in 0 .. MaxUid
  /\ conns \in 0 .. MaxConn
  /\ wire \in Seq(Packets)
  /\ pending \in SUBSET Packets
  /\ peerOpen \in BOOLEAN
  /\ shut \in BOOLEAN

HistTypeOK ==
  /\ session \in Conns \cup {NoSocket}
  /\ dangled \in BOOLEAN

\* Callers and the worker stay in the code that is theirs, and every variable
\* keeps its type.
TypeOK ==
  /\ ConnTypeOK
  /\ ThreadTypeOK
  /\ HeapTypeOK
  /\ PcTypeOK
  /\ LocalTypeOK
  /\ NetTypeOK
  /\ HistTypeOK

(***************************************************************************)
(* Safety                                                                  *)
(***************************************************************************)

\* Threads between the decision of SetConnectionLost that the connection is
\* lost and the end of its Close().
TearingDown(t) == pc[t] \in {"l_set", "l_abort", "l_close"}

\* The connection of the last successful Open() has not been closed since.
Established == session # NoSocket /\ socket = session

\* c has created its condition and not yet deleted it
HasCondition == {"t_send", "t_write", "t_fail", "t_wait", "t_erase"} \cup Losing

Waiting(c) == pc[c] \in HasCondition

(***************************************************************************)
(* TransmitMessage keeps m_mutexTransmit for the whole call, so m_queue    *)
(* never holds an entry but that of the caller that has the lock, and that *)
(* entry points to a condition which has not been deleted.                 *)
(***************************************************************************)
QueueOwned ==
  \A u \in Uids : queue[u] # NoAddr =>
    \E c \in Callers :
      /\ mutexTransmit = c
      /\ Waiting(c)
      /\ uid[c] = u
      /\ cond[c] = queue[u]
      /\ queue[u] \in live

(***************************************************************************)
(* As long as no condition was deleted under the worker's hands, a         *)
(* TransmitMessage that returns true returns the response to its own       *)
(* request, whatever late responses and notifications came in between.     *)
(***************************************************************************)
ResponseMatches ==
  \A c \in Callers :
    pc[c] = "t_erase" /\ rc[c] /\ ~dangled => packet[cond[c]] = uid[c]

(***************************************************************************)
(* After Open() returned true, the worker reads the connection until the   *)
(* connection is lost or somebody closes it.                               *)
(***************************************************************************)
SessionServed ==
  Established =>
    \/ pc[Worker] \notin {"none", "clear", "exit", "exited"}
    \/ connectionlost
    \/ \E c \in Callers : pc[c] \in {"x_join", "x_close"}

(***************************************************************************)
(* After Open() returned true, the flags m_aborting and m_connectionlost,  *)
(* which earlier failures may have left set, never bar the connection from *)
(* use, unless a thread is tearing it down.                                *)
(***************************************************************************)
SessionUsable ==
  Established /\ (aborting \/ connectionlost) =>
    \/ \E c \in Callers : pc[c] \in Closing
    \/ \E t \in Threads : TearingDown(t)

(***************************************************************************)
(* The end of a stream or a failed write that belongs to an earlier        *)
(* connection never tears down a connection Open() has returned true for:  *)
(* the threads in SetConnectionLost failed on that very socket.            *)
(***************************************************************************)
LossIsOfThisSession ==
  Established => \A t \in Threads : TearingDown(t) => fd[t] = session

(***************************************************************************)
(* When Close() returns there is no worker that could call the listener,   *)
(* no socket, and nobody left in m_queue.                                  *)
(***************************************************************************)
CloseLeavesNothing ==
  [][\A c \in Callers :
       pc[c] = "x_close" /\ mutexTransmit = c /\ pc'[c] = "idle"
         => pc'[Worker] = "none" /\ socket' = NoSocket /\ emptyQueue']_vars

(***************************************************************************)
(* What makes QueueOwned and ResponseMatches inductive.                    *)
(***************************************************************************)

\* m_mutexTransmit is held throughout TransmitMessage and Open
Locked == Transmitting \cup Opening \cup Losing

TransmitLocked ==
  \A c \in Callers : pc[c] \in Locked => mutexTransmit = c

\* MsgThread believes itself stopped only when its thread has been joined
WorkerJoined == stopped => pc[Worker] = "none"

\* a transmitter's condition is allocated from t_send to its deletion
CondAllocated ==
  \A c \in Callers :
    /\ pc[c] = "t_add" \/ Waiting(c) => uid[c] \in Uids
    /\ Waiting(c) => cond[c] \in live

\* the pointer c of Run belongs to the transmitter whose response it holds,
\* unless that transmitter has deleted it
PointerValid ==
  /\ wcond # NoAddr <=> pc[Worker] \in {"copy", "signal"}
  /\ wcond # NoAddr /\ ~dangled =>
       /\ \E c \in Callers : Waiting(c) /\ cond[c] = wcond /\ uid[c] = wpacket
       /\ pc[Worker] = "signal" => packet[wcond] = wpacket

\* a condition is signalled with the response its transmitter waits for
SignalOfResponse ==
  ~dangled => \A c \in Callers :
    /\ Waiting(c) /\ signaled[cond[c]] => packet[cond[c]] = uid[c]
    /\ pc[c] = "t_erase" /\ rc[c] => packet[cond[c]] = uid[c]

DeliveryInv ==
  /\ TypeOK
  /\ TransmitLocked
  /\ WorkerJoined
  /\ CondAllocated
  /\ QueueOwned
  /\ PointerValid
  /\ SignalOfResponse

(***************************************************************************)
(* Liveness, under FairSpec                                                *)
(***************************************************************************)

\* Every TransmitMessage returns, answered or not, lost connection or not.
TransmitReturns ==
  \A c \in Callers : pc[c] \in Transmitting ~> pc[c] = "idle"

\* Close() and Terminate() return: the join of the worker ends.
CloseReturns ==
  \A c \in Callers : pc[c] \in Closing ~> pc[c] = "idle"

(***************************************************************************)
(* When the server goes away during an established session, the client     *)
(* notices: the socket does not stay open with nobody reporting the loss.  *)
(***************************************************************************)
LossNoticed ==
  (Established /\ ~peerOpen) ~> ~Established

(***************************************************************************)
(* What the documentation says                                             *)
(***************************************************************************)

\* msgconnection.h: Open returns "true on success / false if the server is
\* unreachable"; here the connection is made and the worker must start.
OpenFailsOnlyIfUnreachable ==
  \A c \in Callers : pc[c] = "o_start" => stopped

\* msgconnection.h: "Sends a message to the server and receives the response
\* from the server."
ResponseIsOfRequest ==
  \A c \in Callers :
    pc[c] = "t_erase" /\ rc[c] => packet[cond[c]] = uid[c]

===============================================================================

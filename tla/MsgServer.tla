------------------------------- MODULE MsgServer -------------------------------
(***************************************************************************)
(* The message server: the application thread that calls Start, Stop and   *)
(* SetPort, the accept thread that runs MsgServer::Run, the reaper thread  *)
(* that runs MsgThreadQueue::Run, and the handlers they create and delete. *)
(*                                                                         *)
(* Connections are numbered; the handler created for connection k has the  *)
(* name k.  File descriptors are explicit, because a handler closes its    *)
(* descriptor in Stop() and once more in its destructor.  What a handler   *)
(* does with its packets, and how it falls asleep, is in MsgHandler; here  *)
(* it reads, notices the end of the stream, and is parked or ends.         *)
(***************************************************************************)
EXTENDS Integers, FiniteSets

CONSTANTS
  Clients,      \* addresses of clients
  Ports,        \* ports the application uses
  Fds,          \* file descriptors, positive numbers
  MaxConn,      \* bound: number of connections
  MaxCalls,     \* bound: number of calls of the application
  NoClient      \* client id 0

ASSUME ServerAssumption ==
  /\ NoClient \notin Clients
  /\ 0 \notin Ports
  /\ Fds \subseteq Nat \ {0}
  /\ MaxConn \in Nat
  /\ MaxCalls \in Nat

Conns == 1 .. MaxConn

NoFd == 0       \* -1
NoConn == 0

\* what a descriptor refers to
Nothing == [kind |-> "free"]
Listening(p) == [kind |-> "listen", port |-> p]
Shut(p) == [kind |-> "shut", port |-> p]
Stream(k) == [kind |-> "conn", conn |-> k]
Objects == {Nothing} \cup {Listening(p) : p \in Ports} \cup {Shut(p) : p \in Ports}
             \cup {Stream(k) : k \in Conns}

VARIABLES
  \* the kernel and the clients
  desc,         \* descriptor -> what it refers to
  from,         \* connection -> address of its client
  link,         \* connection -> state of the connection
  backlog,      \* connection -> port it waits at to be accepted, or 0
  \* MsgServer
  mutex,        \* MsgServer::m_mutex: "main", "acceptor" or "none"
  server,       \* m_server
  port,         \* m_port
  persistance,  \* m_persistance = PERSIST_CONNECTION_IP
  running,      \* m_running of the accept thread
  stopped,      \* m_stopped of the accept thread
  \* MsgThreadQueue m_handlers
  handlers,     \* the set of threads
  qmutex,       \* its m_mutex: "main", "acceptor", "reaper" or "none"
  rrunning,     \* m_running of the reaper
  rstopped,     \* m_stopped of the reaper
  \* the handlers
  hpc,          \* where the handler thread is, "deleted" after the delete
  hrunning,     \* m_running
  hid,          \* m_id
  hpersist,     \* m_persistance # PERSIST_CONNECTION_NONE
  hsock,        \* m_sock
  hdisconnected,\* m_disconnected
  \* where the threads are, and their local variables
  apc, afd, aid, ah,      \* the accept thread: fd, clientid, h
  rpc, rh,                \* the reaper and the thread it deletes
  mpc, mh, mport,         \* the application: handler it stops, port to set
  \* history
  calls,        \* calls of the application so far
  clobbered     \* a descriptor was closed that its closer no longer owned

kernelVars == <<desc, from, link, backlog>>
serverVars == <<server, port, persistance, running, stopped>>
queueVars == <<handlers, rrunning, rstopped>>
handlerVars == <<hpc, hrunning, hid, hpersist, hsock, hdisconnected>>
acceptVars == <<apc, afd, aid, ah>>
reapVars == <<rpc, rh>>
mainVars == <<mpc, mh, mport>>
histVars == <<calls, clobbered>>
vars == <<kernelVars, mutex, serverVars, queueVars, qmutex, handlerVars,
          acceptVars, reapVars, mainVars, histVars>>

-------------------------------------------------------------------------------
(***************************************************************************)
(* The kernel                                                              *)
(***************************************************************************)
FreeFds == {f \in Fds : desc[f] = Nothing}

\* a new descriptor is the lowest free one
LowestFd == CHOOSE f \in FreeFds : \A g \in FreeFds : f <= g

IsStream(f) == f \in Fds /\ desc[f].kind = "conn"

IsListener(f) == f \in Fds /\ desc[f].kind \in {"listen", "shut"}

(***************************************************************************)
(* close(f), after shutdown(f) for a stream: the connection is over, and   *)
(* so are those that wait at a listening socket.                           *)
(***************************************************************************)
CloseFd(f) ==
  /\ desc' = IF f \in Fds THEN [desc EXCEPT ![f] = Nothing] ELSE desc
  /\ link' = [k \in Conns |->
                IF \/ IsStream(f) /\ desc[f].conn = k
                   \/ IsListener(f) /\ backlog[k] = desc[f].port
                THEN "over" ELSE link[k]]
  /\ backlog' = [k \in Conns |->
                   IF IsListener(f) /\ backlog[k] = desc[f].port
                   THEN 0 ELSE backlog[k]]

\* the descriptor of handler h refers to a connection that is not h's
NotOwn(h) ==
  \/ IsListener(hsock[h])
  \/ IsStream(hsock[h]) /\ \/ afd = hsock[h]
                           \/ \E g \in Conns \ {h} :
                                hpc[g] # "none" /\ hpc[g] # "deleted"
                                  /\ hsock[g] = hsock[h]

ListensOn(p) == \E f \in Fds : desc[f] = Listening(p)

\* a client connects to a port somebody listens on
Connect(k, c, p) ==
  /\ link[k] = "none"
  /\ \A j \in Conns : j < k => link[j] # "none"
  /\ ListensOn(p)
  /\ link' = [link EXCEPT ![k] = "up"]
  /\ from' = [from EXCEPT ![k] = c]
  /\ backlog' = [backlog EXCEPT ![k] = p]
  /\ UNCHANGED <<desc, mutex, serverVars, queueVars, qmutex, handlerVars,
                 acceptVars, reapVars, mainVars, histVars>>

\* a client closes its end, or the connection is reset
ClientGone(k) ==
  /\ link[k] = "up"
  /\ link' \in {[link EXCEPT ![k] = "closed"], [link EXCEPT ![k] = "reset"]}
  /\ UNCHANGED <<desc, from, backlog, mutex, serverVars, queueVars, qmutex,
                 handlerVars, acceptVars, reapVars, mainVars, histVars>>

-------------------------------------------------------------------------------
(***************************************************************************)
(* The handler threads                                                     *)
(***************************************************************************)
Handlers == Conns

\* MsgPacket::read reports the end of the stream: m_disconnected = true.
\* A descriptor that is closed or of another kind gives other errors.
HandlerLost(h) ==
  /\ hpc[h] = "read"
  /\ hrunning[h]
  /\ IsStream(hsock[h])
  /\ link[desc[hsock[h]].conn] # "up"
  /\ hdisconnected' = [hdisconnected EXCEPT ![h] = TRUE]
  /\ hpc' = [hpc EXCEPT ![h] = "lost"]
  /\ UNCHANGED <<kernelVars, mutex, serverVars, queueVars, qmutex, hrunning, hid,
                 hpersist, hsock, acceptVars, reapVars, mainVars, histVars>>

\* mutant: m_running stays set when the thread ends
MutHandlerPark(h) ==
  /\ hpc[h] = "lost"
  /\ hpc' = [hpc EXCEPT ![h] = IF hpersist[h] /\ hrunning[h]
                               THEN "asleep" ELSE "ended"]
  /\ UNCHANGED <<kernelVars, mutex, serverVars, queueVars, qmutex, hrunning, hid,
                 hpersist, hsock, hdisconnected, acceptVars, reapVars, mainVars,
                 histVars>>

\* a persistent handler sleeps, any other one ends
HandlerPark(h) ==
  /\ hpc[h] = "lost"
  /\ hpc' = [hpc EXCEPT ![h] = IF hpersist[h] /\ hrunning[h]
                               THEN "asleep" ELSE "ended"]
  /\ hrunning' = [hrunning EXCEPT ![h] = hpersist[h] /\ hrunning[h]]
  /\ UNCHANGED <<kernelVars, mutex, serverVars, queueVars, qmutex, hid, hpersist,
                 hsock, hdisconnected, acceptVars, reapVars, mainVars, histVars>>

\* while(IsRunning())
HandlerEnd(h) ==
  /\ hpc[h] = "read"
  /\ ~hrunning[h]
  /\ hpc' = [hpc EXCEPT ![h] = "ended"]
  /\ UNCHANGED <<kernelVars, mutex, serverVars, queueVars, qmutex, hrunning, hid,
                 hpersist, hsock, hdisconnected, acceptVars, reapVars, mainVars,
                 histVars>>

\* delete h: the object is gone
DeleteHandler(h) ==
  /\ handlers' = handlers \ {h}
  /\ hpc' = [hpc EXCEPT ![h] = "deleted"]
  /\ hrunning' = [hrunning EXCEPT ![h] = FALSE]
  /\ hid' = [hid EXCEPT ![h] = NoClient]
  /\ hpersist' = [hpersist EXCEPT ![h] = FALSE]
  /\ hsock' = [hsock EXCEPT ![h] = NoFd]
  /\ hdisconnected' = [hdisconnected EXCEPT ![h] = FALSE]

-------------------------------------------------------------------------------
(***************************************************************************)
(* The accept thread: MsgServer::Run                                       *)
(***************************************************************************)

\* the connections that wait at the socket m_server
Incoming ==
  {k \in Conns : server \in Fds /\ desc[server].kind = "listen"
                   /\ backlog[k] = desc[server].port}

\* mutant: a connection is taken for the end of the timeout
MutAcceptPoll ==
  /\ apc = "poll"
  /\ ~running
  /\ apc' = "exit"
  /\ UNCHANGED <<kernelVars, mutex, serverVars, queueVars, qmutex, handlerVars,
                 afd, aid, ah, reapVars, mainVars, histVars>>

\* while(IsRunning()), pollfd
AcceptPoll ==
  /\ apc = "poll"
  /\ \/ ~running /\ apc' = "exit"
     \/ running /\ Incoming # {} /\ apc' = "accept"
  /\ UNCHANGED <<kernelVars, mutex, serverVars, queueVars, qmutex, handlerVars,
                 afd, aid, ah, reapVars, mainVars, histVars>>

\* if(!IsRunning()) break; accept()
Accept ==
  /\ apc = "accept"
  /\ \/ /\ ~running
        /\ apc' = "exit"
        /\ UNCHANGED <<desc, backlog, afd, ah>>
     \/ /\ running
        /\ Incoming = {} \/ FreeFds = {}
        /\ apc' = "poll"
        /\ UNCHANGED <<desc, backlog, afd, ah>>
     \/ /\ running
        /\ FreeFds # {}
        /\ \E k \in Incoming :
             /\ desc' = [desc EXCEPT ![LowestFd] = Stream(k)]
             /\ backlog' = [backlog EXCEPT ![k] = 0]
             /\ ah' = k
        /\ afd' = LowestFd
        /\ apc' = "accepted"
  /\ UNCHANGED <<from, link, mutex, serverVars, queueVars, qmutex, handlerVars,
                 aid, reapVars, mainVars, histVars>>

\* if(!IsRunning()) break, which leaves the new descriptor open
AcceptCheck ==
  /\ apc = "accepted"
  /\ apc' = IF running THEN "lock" ELSE "exit"
  /\ afd' = IF running THEN afd ELSE NoFd
  /\ ah' = IF running THEN ah ELSE NoConn
  /\ UNCHANGED <<kernelVars, mutex, serverVars, queueVars, qmutex, handlerVars,
                 aid, reapVars, mainVars, histVars>>

\* lock_guard lock(m_mutex); getpeername fails after a reset
AcceptLock ==
  /\ apc = "lock"
  /\ mutex = "none"
  /\ mutex' = "acceptor"
  /\ aid' = IF IsStream(afd) /\ link[desc[afd].conn] # "reset"
            THEN from[desc[afd].conn] ELSE NoClient
  /\ apc' = "find"
  /\ UNCHANGED <<kernelVars, serverVars, queueVars, qmutex, handlerVars, afd, ah,
                 reapVars, mainVars, histVars>>

\* mutant: a handler without a client is not looked at
MutWithId == {h \in handlers : hid[h] = aid /\ ~hdisconnected[h]}

(***************************************************************************)
(* FindHandlerByID.  ah is the connection just accepted, and so the name   *)
(* of the handler to create, until a handler with the id was found; the    *)
(* order of the set, and so the one found, is that of the addresses.       *)
(***************************************************************************)
WithId == {h \in handlers : hid[h] = aid}

AcceptFind ==
  /\ apc = "find"
  /\ qmutex = "none"
  /\ \/ /\ WithId = {}
        /\ apc' = "create"
        /\ UNCHANGED ah
     \/ \E h \in WithId :
          /\ apc' = IF ~hdisconnected[h] /\ hpersist[h] THEN "clone" ELSE "reuse"
          /\ ah' = IF ~hdisconnected[h] /\ hpersist[h] THEN ah ELSE h
  /\ UNCHANGED <<kernelVars, mutex, serverVars, queueVars, qmutex, handlerVars,
                 afd, aid, reapVars, mainVars, histVars>>

\* a handler for descriptor afd is created and its thread started
NewHandler(persist, id) ==
  /\ hpc' = [hpc EXCEPT ![ah] = "read"]
  /\ hrunning' = [hrunning EXCEPT ![ah] = TRUE]
  /\ hid' = [hid EXCEPT ![ah] = id]
  /\ hpersist' = [hpersist EXCEPT ![ah] = persist]
  /\ hsock' = [hsock EXCEPT ![ah] = afd]
  /\ hdisconnected' = [hdisconnected EXCEPT ![ah] = FALSE]

\* CreateHandler, SetPersistance, SetClientID and Start
AcceptCreate ==
  /\ apc = "create"
  /\ NewHandler(persistance, IF persistance THEN aid ELSE NoClient)
  /\ apc' = "add"
  /\ UNCHANGED <<kernelVars, mutex, serverVars, queueVars, qmutex, afd, aid, ah,
                 reapVars, mainVars, histVars>>

\* Clone, SetClientID(0), SetPersistance(NONE) and Start
AcceptClone ==
  /\ apc = "clone"
  /\ NewHandler(FALSE, NoClient)
  /\ apc' = "add"
  /\ UNCHANGED <<kernelVars, mutex, serverVars, queueVars, qmutex, afd, aid, ah,
                 reapVars, mainVars, histVars>>

\* the loop goes on, and its local variables with it
EndOfBody ==
  /\ afd' = NoFd
  /\ aid' = NoClient
  /\ ah' = NoConn
  /\ apc' = "poll"

\* MsgThreadQueue::add, the end of the loop body
AcceptAdd ==
  /\ apc = "add"
  /\ qmutex = "none"
  /\ handlers' = handlers \cup {ah}
  /\ mutex' = "none"
  /\ EndOfBody
  /\ UNCHANGED <<kernelVars, serverVars, rrunning, rstopped, qmutex, handlerVars,
                 reapVars, mainVars, histVars>>

\* mutant: SetSocket closes the new descriptor
MutAcceptReuseNew ==
  /\ apc = "reuse"
  /\ hpc[ah] = "asleep"
  /\ CloseFd(afd)
  /\ hdisconnected' = [hdisconnected EXCEPT ![ah] = FALSE]
  /\ hpc' = [hpc EXCEPT ![ah] = "read"]
  /\ mutex' = "none"
  /\ EndOfBody
  /\ UNCHANGED <<from, serverVars, queueVars, qmutex, hrunning, hid, hpersist,
                 hsock, reapVars, mainVars, histVars>>

\* mutant: the handler is not woken
MutAcceptReuseAsleep ==
  /\ apc = "reuse"
  /\ hpc[ah] = "asleep"
  /\ CloseFd(hsock[ah])
  /\ hsock' = [hsock EXCEPT ![ah] = afd]
  /\ hdisconnected' = [hdisconnected EXCEPT ![ah] = FALSE]
  /\ mutex' = "none"
  /\ EndOfBody
  /\ UNCHANGED <<from, serverVars, queueVars, qmutex, hpc, hrunning, hid,
                 hpersist, reapVars, mainVars, histVars>>

\* while(!h->IsSleeping()), then SetSocket and Awake
AcceptReuse ==
  /\ apc = "reuse"
  /\ hpc[ah] = "asleep"
  /\ CloseFd(hsock[ah])
  /\ hsock' = [hsock EXCEPT ![ah] = afd]
  /\ hdisconnected' = [hdisconnected EXCEPT ![ah] = FALSE]
  /\ hpc' = [hpc EXCEPT ![ah] = "read"]
  /\ mutex' = "none"
  /\ EndOfBody
  /\ clobbered' = (clobbered \/ NotOwn(ah))
  /\ UNCHANGED <<from, serverVars, queueVars, qmutex, hrunning, hid, hpersist,
                 reapVars, mainVars, calls>>

\* m_running = false at the end of ThreadWorker
AcceptExit ==
  /\ apc = "exit"
  /\ running' = FALSE
  /\ apc' = "exited"
  /\ UNCHANGED <<kernelVars, mutex, server, port, persistance, stopped,
                 queueVars, qmutex,
                 handlerVars, afd, aid, ah, reapVars, mainVars, histVars>>

-------------------------------------------------------------------------------
(***************************************************************************)
(* The reaper: MsgThreadQueue::Run                                         *)
(***************************************************************************)

\* while(IsRunning() || !empty()) Sleep(100), then lock
ReapLoop ==
  /\ rpc = "loop"
  /\ qmutex = "none"
  /\ \/ /\ rrunning \/ handlers # {}
        /\ qmutex' = "reaper"
        /\ rpc' = "scan"
     \/ /\ ~rrunning /\ handlers = {}
        /\ rpc' = "exited"
        /\ UNCHANGED qmutex
  /\ UNCHANGED <<kernelVars, mutex, serverVars, queueVars, handlerVars,
                 acceptVars, rh, mainVars, histVars>>

\* mutant: a thread is removed whether it has ended or not
MutReapStop ==
  /\ rpc = "scan"
  /\ \E h \in handlers : rh' = h /\ CloseFd(hsock[h])
  /\ rpc' = "delete"
  /\ UNCHANGED <<from, mutex, serverVars, queueVars, qmutex, handlerVars,
                 acceptVars, mainVars, histVars>>

\* Stop() of a thread that has ended: the join returns at once, close
ReapStop ==
  /\ rpc = "scan"
  /\ \E h \in handlers :
       /\ ~hrunning[h]
       /\ hpc[h] = "ended"
       /\ rh' = h
       /\ CloseFd(hsock[h])
       /\ clobbered' = (clobbered \/ NotOwn(h))
  /\ rpc' = "delete"
  /\ UNCHANGED <<from, mutex, serverVars, queueVars, qmutex, handlerVars,
                 acceptVars, mainVars, calls>>

\* delete: the destructor closes m_sock again
ReapDelete ==
  /\ rpc = "delete"
  /\ CloseFd(hsock[rh])
  /\ clobbered' = (clobbered \/ NotOwn(rh))
  /\ DeleteHandler(rh)
  /\ rh' = NoConn
  /\ rpc' = "scan"
  /\ UNCHANGED <<from, mutex, serverVars, rrunning, rstopped, qmutex, acceptVars,
                 mainVars, calls>>

ReapDone ==
  /\ rpc = "scan"
  /\ qmutex' = "none"
  /\ rpc' = "loop"
  /\ UNCHANGED <<kernelVars, mutex, serverVars, queueVars, handlerVars,
                 acceptVars, rh, mainVars, histVars>>

-------------------------------------------------------------------------------
(***************************************************************************)
(* The application: Start, Stop and SetPort                                *)
(***************************************************************************)

\* the rest of Start() under its mutex, for the port p
StartOn(p) ==
  /\ mutex = "none"
  /\ \/ /\ ListensOn(p) \/ FreeFds = {}
        /\ server' = NoFd
        /\ UNCHANGED <<desc, running, stopped, rrunning, rstopped, rpc, apc>>
     \/ /\ ~ListensOn(p) /\ FreeFds # {}
        /\ server' = LowestFd
        /\ desc' = [desc EXCEPT ![LowestFd] = Listening(p)]
        /\ rrunning' = TRUE
        /\ rstopped' = FALSE
        /\ rpc' = IF rstopped THEN "loop" ELSE rpc
        /\ running' = IF stopped THEN TRUE ELSE running
        /\ stopped' = FALSE
        /\ apc' = IF stopped THEN "poll" ELSE apc

Call ==
  /\ mpc = "idle"
  /\ calls < MaxCalls
  /\ calls' = calls + 1

Start ==
  /\ Call
  /\ StartOn(port)
  /\ UNCHANGED <<from, link, backlog, mutex, port, persistance, handlers,
                 qmutex, handlerVars,
                 afd, aid, ah, rh, mainVars, clobbered>>

\* SetPersistance, to the other of the two methods, without a lock
SetPersistance ==
  /\ Call
  /\ persistance' = ~persistance
  /\ UNCHANGED <<kernelVars, mutex, server, port, running, stopped, queueVars,
                 qmutex, handlerVars, acceptVars, reapVars, mainVars, clobbered>>

\* Stop() is called and waits for m_mutex
Stop ==
  /\ Call
  /\ mpc' = "lock"
  /\ UNCHANGED <<kernelVars, mutex, serverVars, queueVars, qmutex, handlerVars,
                 acceptVars, reapVars, mh, mport, clobbered>>

\* lock_guard lock(m_mutex); shutdown(m_server)
StopLock ==
  /\ mpc = "lock"
  /\ mutex = "none"
  /\ mutex' = "main"
  /\ desc' = IF server \in Fds /\ desc[server].kind = "listen"
             THEN [desc EXCEPT ![server] = Shut(desc[server].port)]
             ELSE desc
  /\ mpc' = "stop"
  /\ UNCHANGED <<from, link, backlog, serverVars, queueVars, qmutex, handlerVars,
                 acceptVars, reapVars, mh, mport, histVars>>

\* MsgThread::Stop of the accept thread
StopThread ==
  /\ mpc = "stop"
  /\ IF stopped
     THEN mpc' = "all" /\ UNCHANGED running
     ELSE mpc' = "join" /\ running' = FALSE
  /\ UNCHANGED <<kernelVars, mutex, server, port, persistance, stopped,
                 queueVars, qmutex,
                 handlerVars, acceptVars, reapVars, mh, mport, histVars>>

StopJoin ==
  /\ mpc = "join"
  /\ apc = "exited"
  /\ apc' = "none"
  /\ stopped' = TRUE
  /\ mpc' = "all"
  /\ UNCHANGED <<kernelVars, mutex, server, port, persistance, running,
                 queueVars, qmutex,
                 handlerVars, afd, aid, ah, reapVars, mh, mport, histVars>>

\* MsgThreadQueue::StopAll
StopAll ==
  /\ mpc = "all"
  /\ qmutex = "none"
  /\ qmutex' = "main"
  /\ mpc' = "each"
  /\ UNCHANGED <<kernelVars, mutex, serverVars, queueVars, handlerVars,
                 acceptVars, reapVars, mh, mport, histVars>>

\* mutant: Stop() of a handler does not wake it
MutStopHandler ==
  /\ mpc = "each"
  /\ \E h \in handlers :
       /\ mh' = h
       /\ hrunning' = [hrunning EXCEPT ![h] = FALSE]
  /\ mpc' = "hjoin"
  /\ UNCHANGED <<kernelVars, mutex, serverVars, queueVars, qmutex, hpc, hid,
                 hpersist, hsock, hdisconnected, acceptVars, reapVars, mport,
                 histVars>>

\* MsgHandlerBase::Stop up to the join: shutdown, m_running = false, Awake
StopHandler ==
  /\ mpc = "each"
  /\ \E h \in handlers :
       /\ mh' = h
       /\ link' = IF IsStream(hsock[h])
                  THEN [link EXCEPT ![desc[hsock[h]].conn] = "over"] ELSE link
       /\ hrunning' = [hrunning EXCEPT ![h] = FALSE]
       /\ hpc' = [hpc EXCEPT ![h] = IF @ = "asleep" THEN "read" ELSE @]
       /\ clobbered' = (clobbered \/ NotOwn(h))
  /\ mpc' = "hjoin"
  /\ UNCHANGED <<desc, from, backlog, mutex, serverVars, queueVars, qmutex, hid,
                 hpersist, hsock, hdisconnected, acceptVars, reapVars, mport,
                 calls>>

\* the rest of MsgHandlerBase::Stop, and delete: m_sock is closed twice, and
\* nobody who could obtain a descriptor in between is running
StopDelete ==
  /\ mpc = "hjoin"
  /\ hpc[mh] = "ended"
  /\ CloseFd(hsock[mh])
  /\ DeleteHandler(mh)
  /\ mh' = NoConn
  /\ mpc' = "each"
  /\ UNCHANGED <<from, mutex, serverVars, rrunning, rstopped, qmutex, acceptVars,
                 reapVars, mport, histVars>>

\* mutant: StopAll leaves the threads to the reaper
MutStopAllDone ==
  /\ mpc = "each"
  /\ qmutex' = "none"
  /\ mpc' = "close"
  /\ UNCHANGED <<kernelVars, mutex, serverVars, queueVars, handlerVars,
                 acceptVars, reapVars, mh, mport, histVars>>

StopAllDone ==
  /\ mpc = "each"
  /\ handlers = {}
  /\ qmutex' = "none"
  /\ mpc' = "reaper"
  /\ UNCHANGED <<kernelVars, mutex, serverVars, queueVars, handlerVars,
                 acceptVars, reapVars, mh, mport, histVars>>

\* m_handlers.Stop()
StopReaper ==
  /\ mpc = "reaper"
  /\ IF rstopped
     THEN mpc' = "close" /\ UNCHANGED rrunning
     ELSE mpc' = "rjoin" /\ rrunning' = FALSE
  /\ UNCHANGED <<kernelVars, mutex, serverVars, handlers, rstopped, qmutex,
                 handlerVars, acceptVars, reapVars, mh, mport, histVars>>

StopReaperJoin ==
  /\ mpc = "rjoin"
  /\ rpc = "exited"
  /\ rpc' = "none"
  /\ rstopped' = TRUE
  /\ mpc' = "close"
  /\ UNCHANGED <<kernelVars, mutex, serverVars, handlers, rrunning, qmutex,
                 handlerVars, acceptVars, rh, mh, mport, histVars>>

\* close(m_server); SetPort goes on
StopClose ==
  /\ mpc = "close"
  /\ CloseFd(server)
  /\ mutex' = "none"
  /\ mpc' = IF mport = 0 THEN "idle" ELSE "restart"
  /\ UNCHANGED <<from, serverVars, queueVars, qmutex, handlerVars, acceptVars,
                 reapVars, mh, mport, histVars>>

(***************************************************************************)
(* SetPort.  Nothing is locked between the look at the queue and Stop().   *)
(***************************************************************************)
SetPort(p) ==
  /\ Call
  /\ qmutex = "none"
  /\ \/ /\ p = port \/ handlers # {}
        /\ UNCHANGED <<port, mpc, mport>>
     \/ /\ p # port /\ handlers = {} /\ ~running
        /\ port' = p
        /\ UNCHANGED <<mpc, mport>>
     \/ /\ p # port /\ handlers = {} /\ running
        /\ mport' = p
        /\ mpc' = "lock"
        /\ UNCHANGED port
  /\ UNCHANGED <<kernelVars, mutex, server, persistance, running, stopped,
                 queueVars, qmutex,
                 handlerVars, acceptVars, reapVars, mh, clobbered>>

SetPortStart ==
  /\ mpc = "restart"
  /\ port' = mport
  /\ StartOn(mport)
  /\ mport' = 0
  /\ mpc' = "idle"
  /\ UNCHANGED <<from, link, backlog, mutex, persistance, handlers, qmutex,
                 handlerVars, afd, aid, ah, rh, mh, histVars>>

-------------------------------------------------------------------------------
Init ==
  /\ desc = [f \in Fds |-> Nothing]
  /\ from = [k \in Conns |-> NoClient]
  /\ link = [k \in Conns |-> "none"]
  /\ backlog = [k \in Conns |-> 0]
  /\ mutex = "none"
  /\ server = NoFd
  /\ port \in Ports
  /\ persistance = FALSE
  /\ running = FALSE
  /\ stopped = TRUE
  /\ handlers = {}
  /\ qmutex = "none"
  /\ rrunning = TRUE      \* the constructor of MsgThreadQueue calls Start()
  /\ rstopped = FALSE
  /\ hpc = [h \in Handlers |-> "none"]
  /\ hrunning = [h \in Handlers |-> FALSE]
  /\ hid = [h \in Handlers |-> NoClient]
  /\ hpersist = [h \in Handlers |-> FALSE]
  /\ hsock = [h \in Handlers |-> NoFd]
  /\ hdisconnected = [h \in Handlers |-> FALSE]
  /\ apc = "none"
  /\ afd = NoFd
  /\ aid = NoClient
  /\ ah = NoConn
  /\ rpc = "loop"
  /\ rh = NoConn
  /\ mpc = "idle"
  /\ mh = NoConn
  /\ mport = 0
  /\ calls = 0
  /\ clobbered = FALSE

Network ==
  \/ \E k \in Conns, c \in Clients, p \in Ports : Connect(k, c, p)
  \/ \E k \in Conns : ClientGone(k)

HandlerStep(h) == HandlerLost(h) \/ HandlerPark(h) \/ HandlerEnd(h)

AcceptStep ==
  \/ AcceptPoll
  \/ Accept
  \/ AcceptCheck
  \/ AcceptLock
  \/ AcceptFind
  \/ AcceptCreate
  \/ AcceptClone
  \/ AcceptAdd
  \/ AcceptReuse
  \/ AcceptExit

ReapStep == ReapLoop \/ ReapStop \/ ReapDelete \/ ReapDone

Calls ==
  \/ Start
  \/ Stop
  \/ SetPersistance
  \/ \E p \in Ports : SetPort(p)

MainStep ==
  \/ StopLock
  \/ StopThread
  \/ StopJoin
  \/ StopAll
  \/ StopHandler
  \/ StopDelete
  \/ StopAllDone
  \/ StopReaper
  \/ StopReaperJoin
  \/ StopClose
  \/ SetPortStart

Next ==
  \/ Network
  \/ \E h \in Handlers : HandlerStep(h)
  \/ AcceptStep
  \/ ReapStep
  \/ Calls
  \/ MainStep

Spec == Init /\ [][Next]_vars

(***************************************************************************)
(* Every thread is scheduled, a mutex that is free again and again is      *)
(* obtained, and the reaper, which wakes up every 100 ms, does not pass    *)
(* over the same ended thread for ever.  Nothing is assumed of the clients *)
(* and of when the application calls.                                      *)
(***************************************************************************)
FairSpec ==
  /\ Spec
  /\ \A h \in Handlers : WF_vars(HandlerStep(h))
  /\ SF_vars(AcceptStep)
  /\ SF_vars(MainStep)
  /\ SF_vars(ReapStep)
  /\ SF_vars(ReapStop)

-------------------------------------------------------------------------------
TypeOK ==
  /\ desc \in [Fds -> Objects]
  /\ from \in [Conns -> Clients \cup {NoClient}]
  /\ link \in [Conns -> {"none", "up", "closed", "reset", "over"}]
  /\ backlog \in [Conns -> Ports \cup {0}]
  /\ mutex \in {"none", "main", "acceptor"}
  /\ server \in Fds \cup {NoFd}
  /\ port \in Ports
  /\ persistance \in BOOLEAN
  /\ running \in BOOLEAN /\ stopped \in BOOLEAN
  /\ handlers \in SUBSET Handlers
  /\ qmutex \in {"none", "main", "reaper"}
  /\ rrunning \in BOOLEAN /\ rstopped \in BOOLEAN
  /\ hpc \in [Handlers -> {"none", "read", "lost", "asleep", "ended", "deleted"}]
  /\ hrunning \in [Handlers -> BOOLEAN]
  /\ hid \in [Handlers -> Clients \cup {NoClient}]
  /\ hpersist \in [Handlers -> BOOLEAN]
  /\ hsock \in [Handlers -> Fds \cup {NoFd}]
  /\ hdisconnected \in [Handlers -> BOOLEAN]
  /\ apc \in {"none", "poll", "accept", "accepted", "lock", "find", "create",
              "clone", "add", "reuse", "exit", "exited"}
  /\ afd \in Fds \cup {NoFd}
  /\ aid \in Clients \cup {NoClient}
  /\ ah \in Handlers \cup {NoConn}
  /\ rpc \in {"none", "loop", "scan", "delete", "exited"}
  /\ rh \in Handlers \cup {NoConn}
  /\ mpc \in {"idle", "stop", "join", "all", "each", "hjoin", "reaper", "rjoin",
              "close", "lock", "restart"}
  /\ mh \in Handlers \cup {NoConn}
  /\ mport \in Ports \cup {0}
  /\ calls \in 0 .. MaxCalls
  /\ clobbered \in BOOLEAN

(***************************************************************************)
(* A client that comes back never gets a second persistent handler beside  *)
(* the one that is kept for it, so what the handler holds for the client   *)
(* is found again.                                                         *)
(***************************************************************************)
OneHandlerPerClient ==
  \A g, h \in handlers :
    g # h /\ hpersist[g] /\ hpersist[h] => hid[g] # hid[h]

(***************************************************************************)
(* The handler that FindHandlerByID returned is used without the lock of   *)
(* the queue; the reaper does not delete it meanwhile, provided that       *)
(* getpeername gave an address to look for.                                *)
(***************************************************************************)
FoundHandlerIsAlive ==
  apc = "reuse" /\ aid # NoClient => ah \in handlers /\ hpc[ah] # "deleted"

(***************************************************************************)
(* While no Stop() is in progress, the server ends the connection of a     *)
(* client that is still there only by closing a descriptor it does not own *)
(* any more.                                                               *)
(***************************************************************************)
ClientsKept ==
  [][\A k \in Conns :
       mpc \in {"idle", "lock"} /\ link[k] = "up" /\ link'[k] = "over"
         => clobbered']_vars

(***************************************************************************)
(* When Stop() returns the accept thread and the reaper have been joined,  *)
(* every handler has been deleted, and nobody holds a lock.                *)
(***************************************************************************)
StopLeavesNothing ==
  [][mpc = "close" /\ mpc' # "close" =>
       /\ apc = "none" /\ rpc = "none"
       /\ \A h \in Handlers : hpc[h] \in {"none", "deleted"}
       /\ mutex' = "none" /\ qmutex' = "none"]_vars

(***************************************************************************)
(* Liveness, under FairSpec                                                *)
(***************************************************************************)

\* Stop() waits for the accept thread, which waits for the mutex Stop() holds.
LockedOut == mpc = "join" /\ apc = "lock"

\* The accept thread waits, with the mutex, for a handler that never sleeps.
Spinning == apc = "reuse" /\ aid = NoClient

\* Start() was called on a running server: its bind failed, m_server is -1.
Deaf == running /\ server = NoFd

\* Stop() and SetPort() return, or the accept thread hangs in one of the two
\* places above.
StopReturnsUnlessHung ==
  mpc # "idle" ~> mpc = "idle" \/ LockedOut \/ Spinning

\* The handler h serves the connection k.
Serves(h, k) == hpc[h] = "read" /\ IsStream(hsock[h]) /\ desc[hsock[h]].conn = k

\* A client whose connection was accepted gets a handler of its own, unless
\* it goes away or the server is stopped.
AcceptedIsServed ==
  \A k \in Conns :
    (apc = "lock" /\ afd # NoFd /\ desc[afd] = Stream(k))
      ~> \/ \E h \in Handlers : Serves(h, k)
         \/ link[k] # "up"
         \/ LockedOut

\* A client that connects is accepted while the server runs, unless a second
\* Start() took its socket away or the accept thread hangs (which it does for
\* a third connection only: two are needed to make it hang).
IncomingAcceptedUnlessDeaf ==
  \A k \in Conns :
    k \in Incoming /\ running
      ~> backlog[k] = 0 \/ ~running \/ Deaf \/ Spinning

\* The reaper deletes every handler that has ended.
EndedIsReaped ==
  \A h \in Handlers :
    h \in handlers /\ hpc[h] = "ended" ~> hpc[h] = "deleted"

===============================================================================

---------------------------- MODULE MsgServerProofs ----------------------------
(***************************************************************************)
(* Proofs about MsgServer, for every number of clients, connections,       *)
(* descriptors and calls of the application.                               *)
(***************************************************************************)
EXTENDS MsgServer, TLAPS, WellFoundedInduction

USE DEF kernelVars, serverVars, queueVars, handlerVars, acceptVars, reapVars,
        mainVars, histVars, Handlers

-------------------------------------------------------------------------------
(***************************************************************************)
(* Who holds which lock, and which thread exists.                          *)
(***************************************************************************)
AcceptorLocked == {"find", "create", "clone", "add", "reuse"}
MainLocked == {"stop", "join", "all", "each", "hjoin", "reaper", "rjoin", "close"}
Joined == {"all", "each", "hjoin", "reaper", "rjoin", "close"}

LocksHeld ==
  /\ mutex = "acceptor" <=> apc \in AcceptorLocked
  /\ mutex = "main" <=> mpc \in MainLocked
  /\ qmutex = "main" <=> mpc \in {"each", "hjoin"}
  /\ qmutex = "reaper" <=> rpc \in {"scan", "delete"}

ThreadsJoined ==
  /\ rstopped <=> rpc = "none"
  /\ mpc \in Joined => stopped
  /\ mpc = "close" => rstopped
  /\ stopped /\ mpc \notin {"all", "each", "hjoin"} => handlers = {}
  /\ mpc \in Joined \union {"join", "restart"} => ~running
  /\ mpc \in {"idle", "lock", "stop"} => (running <=> ~stopped)
  /\ mpc = "restart" => stopped
  /\ apc \in {"exit", "exited"} => ~running

(***************************************************************************)
(* The handlers that exist are those in the queue, and the one the accept  *)
(* thread is about to add.                                                 *)
(***************************************************************************)
Live(h) == hpc[h] # "none" /\ hpc[h] # "deleted"

Fresh == {"accepted", "lock", "find", "create", "clone"}

Registered ==
  /\ \A h \in Handlers : Live(h) <=> h \in handlers \/ (apc = "add" /\ h = ah)
  /\ apc = "add" => ah \notin handlers
  /\ apc \in Fresh => hpc[ah] = "none"
  /\ mpc = "hjoin" => mh \in handlers
  /\ rpc = "delete" => rh \in handlers

\* A connection that nobody has accepted has no handler.
NewConnections ==
  /\ \A k \in Conns : backlog[k] # 0 =>
       /\ link[k] # "none"
       /\ hpc[k] = "none"
       /\ apc \in Fresh => ah # k
  /\ \A k \in Conns : link[k] = "none" =>
       /\ hpc[k] = "none"
       /\ apc \in Fresh => ah # k
  /\ \A f \in Fds, k \in Conns : desc[f] = Stream(k) => link[k] # "none"

\* The accept thread exists until it is joined, and holds a connection until it
\* has a handler for it.
AcceptThread ==
  /\ stopped <=> apc = "none"
  /\ IF apc \in Fresh \union {"add", "reuse"} THEN ah \in Handlers /\ afd \in Fds
                                             ELSE afd = NoFd

ServerInv == LocksHeld /\ ThreadsJoined /\ Registered /\ NewConnections

-------------------------------------------------------------------------------
(***************************************************************************)
(* Identities: one persistent handler per client, kept until it is stopped *)
(***************************************************************************)

\* A Stop() waits for the end of handler h.
Stopping(h) == mpc = "hjoin" /\ mh = h

\* A handler thread is told to stop only by the Stop() that waits for it.
OnlyStopStops ==
  \A h \in Handlers :
    hpc[h] \in {"read", "lost", "asleep"} /\ ~hrunning[h] => Stopping(h)

\* Only a persistent handler has a client, and it runs until it is stopped.
Persistent ==
  /\ \A h \in Handlers : hid[h] # NoClient => hpersist[h]
  /\ \A h \in Handlers : hpersist[h] /\ ~Stopping(h) =>
       hrunning[h] /\ hpc[h] \in {"read", "lost", "asleep"}
  /\ rpc = "delete" => ~hpersist[rh]

\* The handler to create has an id that none in the queue has.
NewIdentity ==
  /\ apc = "create" => \A h \in handlers : hid[h] # aid
  /\ apc = "add" /\ hpersist[ah] => \A h \in handlers : hid[h] # hid[ah]
  /\ apc = "reuse" /\ aid # NoClient => ah \in handlers /\ hid[ah] = aid

IdentityInv == OneHandlerPerClient /\ OnlyStopStops /\ Persistent /\ NewIdentity


(***************************************************************************)
(* A handler that has seen the end of its connection has a descriptor that *)
(* refers to nothing, to something that is over, or to somebody else's.    *)
(***************************************************************************)
Others(h) ==
  \/ afd = hsock[h] /\ ~(apc = "add" /\ ah = h)
  \/ \E g \in Handlers \ {h} : Live(g) /\ hsock[g] = hsock[h]

LossSeen ==
  running =>
    \A h \in Handlers : hpc[h] \in {"lost", "asleep", "ended"} =>
      \A k \in Conns :
        hsock[h] \in Fds /\ desc[hsock[h]] = Stream(k) /\ link[k] = "up" => Others(h)

\* A new handler has the descriptor that was accepted.
Handed == apc = "add" => hsock[ah] = afd

\* The reaper deletes a handler that has ended.
EndedFirst == rpc = "delete" => hpc[rh] = "ended"

-------------------------------------------------------------------------------
(***************************************************************************)
(* The kernel                                                              *)
(***************************************************************************)

\* What the fields of a kernel object are.
LEMMA Kinds ==
  ASSUME NEW o \in Objects
  PROVE  /\ o.kind = "free" <=> o = Nothing
         /\ o.kind = "conn" => \E k \in Conns : o = Stream(k) /\ o.conn = k
         /\ o.kind \in {"listen", "shut"} => o.port \in Ports
         /\ \A k : o = Stream(k) => o.kind = "conn" /\ o.conn = k
  BY DEF Objects, Nothing, Listening, Shut, Stream

\* A free descriptor is found if there is one.
LEMMA LowestIsFree ==
  ASSUME FreeFds # {}
  PROVE  LowestFd \in Fds /\ desc[LowestFd] = Nothing
  <1>1. FreeFds \subseteq Nat
    BY ServerAssumption DEF FreeFds
  <1>2. PICK f \in FreeFds : \A g \in FreeFds : ~ (<<g, f>> \in OpToRel(<, Nat))
    BY <1>1, NatLessThanWellFounded, WFMin
  <1>3. ASSUME NEW g \in FreeFds PROVE f <= g
    <2>1. f \in Nat /\ g \in Nat /\ <<g, f>> \in Nat \X Nat
      BY <1>1
    <2>2. ~(g < f)
      BY <1>2, <2>1 DEF OpToRel
    <2> QED
      BY <2>1, <2>2
  <1>4. LowestFd \in FreeFds
    BY <1>3 DEF LowestFd
  <1> QED
    BY <1>4 DEF FreeFds

\* close() frees its descriptor, and ends what it referred to.
LEMMA Closed ==
  ASSUME TypeOK, NEW f, CloseFd(f)
  PROVE  /\ desc' \in [Fds -> Objects]
         /\ link' \in [Conns -> {"none", "up", "closed", "reset", "over"}]
         /\ backlog' \in [Conns -> Ports \cup {0}]
         /\ \A g \in Fds : desc'[g] = IF g = f THEN Nothing ELSE desc[g]
         /\ \A k \in Conns :
              /\ link'[k] \in {link[k], "over"}
              /\ backlog'[k] \in {backlog[k], 0}
              /\ link'[k] # link[k] =>
                   IsListener(f) \/ (f \in Fds /\ desc[f] = Stream(k))
  <1>1. desc' \in [Fds -> Objects] /\ \A g \in Fds : desc'[g] = IF g = f THEN Nothing ELSE desc[g]
    BY DEF CloseFd, TypeOK, Objects
  <1>2. /\ link' \in [Conns -> {"none", "up", "closed", "reset", "over"}]
        /\ \A k \in Conns : link'[k] \in {link[k], "over"}
    BY DEF CloseFd, TypeOK
  <1>3. /\ backlog' \in [Conns -> Ports \cup {0}]
        /\ \A k \in Conns : backlog'[k] \in {backlog[k], 0}
    BY DEF CloseFd, TypeOK
  <1>4. ASSUME NEW k \in Conns, link'[k] # link[k], ~IsListener(f)
        PROVE  f \in Fds /\ desc[f] = Stream(k)
    <2>1. IsStream(f) /\ desc[f].conn = k
      BY <1>4 DEF CloseFd
    <2>2. desc[f] \in Objects /\ f \in Fds /\ desc[f].kind = "conn"
      BY <2>1 DEF TypeOK, IsStream
    <2> QED
      BY <2>1, <2>2, Kinds
  <1> QED
    BY <1>1, <1>2, <1>3, <1>4

-------------------------------------------------------------------------------
(***************************************************************************)
(* Types                                                                   *)
(***************************************************************************)

\* SetPort() starts the server again on the port it was given.
PortGiven == mpc = "restart" => mport # 0

TypeInv == TypeOK /\ PortGiven /\ AcceptThread

\* The initial states are typed.
LEMMA InitTyped == Init => TypeInv
  <1> SUFFICES ASSUME Init PROVE TypeInv
    OBVIOUS
  <1>1. running \in BOOLEAN /\ stopped \in BOOLEAN /\ persistance \in BOOLEAN
    BY Zenon DEF Init
  <1>2. rrunning \in BOOLEAN /\ rstopped \in BOOLEAN /\ clobbered \in BOOLEAN
    BY Zenon DEF Init
  <1>3. desc \in [Fds -> Objects] /\ calls \in 0 .. MaxCalls
    BY ServerAssumption DEF Init, Objects
  <1> QED
    BY <1>1, <1>2, <1>3 DEF Init, TypeInv, TypeOK, PortGiven, AcceptThread, Fresh, NoFd, NoConn

\* The variables Start() assigns keep their types.
LEMMA StartTyped ==
  ASSUME TypeOK, NEW p \in Ports, StartOn(p)
  PROVE  /\ desc' \in [Fds -> Objects] /\ server' \in Fds \cup {NoFd}
         /\ running' \in BOOLEAN /\ stopped' \in BOOLEAN
         /\ rrunning' \in BOOLEAN /\ rstopped' \in BOOLEAN
         /\ rpc' \in {"none", "loop", "scan", "delete", "exited"}
         /\ apc' \in {"none", "poll", "accept", "accepted", "lock", "find", "create",
                     "clone", "add", "reuse", "exit", "exited"}
  <1>1. running' \in BOOLEAN /\ stopped' \in BOOLEAN
    BY Zenon DEF TypeOK, StartOn
  <1>2. rrunning' \in BOOLEAN /\ rstopped' \in BOOLEAN
    BY Zenon DEF TypeOK, StartOn
  <1>3. Listening(p) \in Objects
    BY DEF Objects
  <1>4. desc' \in [Fds -> Objects] /\ server' \in Fds \cup {NoFd}
    BY <1>3, LowestIsFree DEF TypeOK, StartOn
  <1>5. /\ rpc' \in {"none", "loop", "scan", "delete", "exited"}
        /\ apc' \in {"none", "poll", "accept", "accepted", "lock", "find", "create",
                    "clone", "add", "reuse", "exit", "exited"}
    BY DEF TypeOK, StartOn
  <1> QED
    BY <1>1, <1>2, <1>4, <1>5

\* No step leaves the types.
LEMMA TypeKept ==
  ASSUME TypeInv, [Next]_vars
  PROVE  TypeInv'
  <1> TypeOK /\ PortGiven /\ AcceptThread
    BY DEF TypeInv
  <1> SUFFICES TypeOK' /\ PortGiven' /\ AcceptThread'
    BY DEF TypeInv
  <1> USE DEF PortGiven, AcceptThread, Fresh
  <1>1. CASE \E k \in Conns, c \in Clients, p \in Ports : Connect(k, c, p)
    BY <1>1 DEF TypeOK, Connect
  <1>2. CASE \E k \in Conns : ClientGone(k)
    BY <1>2 DEF TypeOK, ClientGone
  <1>3. CASE \E h \in Handlers : HandlerLost(h)
    BY <1>3 DEF TypeOK, HandlerLost
  <1>4. CASE \E h \in Handlers : HandlerPark(h)
    BY <1>4 DEF TypeOK, HandlerPark
  <1>5. CASE \E h \in Handlers : HandlerEnd(h)
    BY <1>5 DEF TypeOK, HandlerEnd
  <1>6. CASE AcceptPoll
    BY <1>6 DEF TypeOK, AcceptPoll
  <1>7. CASE Accept
    <2>1. afd' \in Fds \cup {NoFd} /\ ah' \in Handlers \cup {NoConn}
      BY <1>7, LowestIsFree DEF TypeOK, Accept, Incoming
    <2> AcceptThread'
      BY <1>7, LowestIsFree DEF Accept, Incoming
    <2>2. backlog' \in [Conns -> Ports \cup {0}]
      BY <1>7 DEF TypeOK, Accept, Incoming
    <2>3. desc' \in [Fds -> Objects]
      <3>1. \A k \in Conns : Stream(k) \in Objects
        BY DEF Objects
      <3> QED
        BY <1>7, <3>1 DEF TypeOK, Accept, Incoming
    <2> QED
      BY <1>7, <2>1, <2>2, <2>3 DEF TypeOK, Accept
  <1>8. CASE AcceptCheck
    BY <1>8 DEF TypeOK, AcceptCheck, NoFd, NoConn
  <1>9. CASE AcceptLock
    <2>1. IsStream(afd) => from[desc[afd].conn] \in Clients \cup {NoClient}
      <3>1. IsStream(afd) => desc[afd] \in Objects /\ desc[afd].kind = "conn"
        BY DEF TypeOK, IsStream
      <3> QED
        BY <3>1, Kinds DEF TypeOK
    <2> QED
      BY <1>9, <2>1 DEF TypeOK, AcceptLock
  <1>10. CASE AcceptFind
    <2>1. ah' \in Handlers \cup {NoConn} /\ apc' \in {"create", "clone", "reuse"}
      BY <1>10 DEF TypeOK, AcceptFind, WithId
    <2> QED
      BY <1>10, <2>1 DEF TypeOK, AcceptFind, WithId
  <1>11. CASE AcceptCreate
    <2>1. /\ hrunning' \in [Handlers -> BOOLEAN] /\ hpersist' \in [Handlers -> BOOLEAN]
          /\ hdisconnected' \in [Handlers -> BOOLEAN]
      BY <1>11 DEF TypeOK, AcceptCreate, NewHandler
    <2>2. hid' \in [Handlers -> Clients \cup {NoClient}]
      BY <1>11 DEF TypeOK, AcceptCreate, NewHandler
    <2> QED
      BY <1>11, <2>1, <2>2 DEF TypeOK, AcceptCreate, NewHandler
  <1>12. CASE AcceptClone
    <2>1. /\ hrunning' \in [Handlers -> BOOLEAN] /\ hpersist' \in [Handlers -> BOOLEAN]
          /\ hdisconnected' \in [Handlers -> BOOLEAN]
      BY <1>12 DEF TypeOK, AcceptClone, NewHandler
    <2>2. hid' \in [Handlers -> Clients \cup {NoClient}]
      BY <1>12 DEF TypeOK, AcceptClone, NewHandler
    <2> QED
      BY <1>12, <2>1, <2>2 DEF TypeOK, AcceptClone, NewHandler
  <1>13. CASE AcceptAdd
    <2>1. handlers' \in SUBSET Handlers
      BY <1>13 DEF TypeOK, AcceptAdd, NoConn
    <2> QED
      BY <1>13, <2>1 DEF TypeOK, AcceptAdd, EndOfBody
  <1>14. CASE AcceptReuse
    <2>1. /\ desc' \in [Fds -> Objects]
          /\ link' \in [Conns -> {"none", "up", "closed", "reset", "over"}]
          /\ backlog' \in [Conns -> Ports \cup {0}]
      BY <1>14, Closed DEF AcceptReuse
    <2>2. /\ hdisconnected' \in [Handlers -> BOOLEAN]
          /\ hsock' \in [Handlers -> Fds \cup {NoFd}]
          /\ hpc' \in [Handlers -> {"none", "read", "lost", "asleep", "ended", "deleted"}]
      BY <1>14 DEF TypeOK, AcceptReuse
    <2>3. clobbered' \in BOOLEAN
      BY <1>14, Zenon DEF AcceptReuse
    <2> QED
      BY <1>14, <2>1, <2>2, <2>3 DEF TypeOK, AcceptReuse, EndOfBody
  <1>15. CASE AcceptExit
    <2>1. running' \in BOOLEAN
      BY <1>15, Zenon DEF TypeOK, AcceptExit
    <2> QED
      BY <1>15, <2>1 DEF TypeOK, AcceptExit
  <1>16. CASE ReapLoop
    BY <1>16 DEF TypeOK, ReapLoop
  <1>17. CASE ReapStop
    BY <1>17, Closed DEF TypeOK, ReapStop
  <1>18. CASE ReapDelete
    <2>1. /\ desc' \in [Fds -> Objects]
          /\ link' \in [Conns -> {"none", "up", "closed", "reset", "over"}]
          /\ backlog' \in [Conns -> Ports \cup {0}]
      BY <1>18, Closed DEF ReapDelete
    <2>2. /\ hrunning' \in [Handlers -> BOOLEAN] /\ hpersist' \in [Handlers -> BOOLEAN]
          /\ hdisconnected' \in [Handlers -> BOOLEAN]
      BY <1>18 DEF TypeOK, ReapDelete, DeleteHandler
    <2>3. /\ hid' \in [Handlers -> Clients \cup {NoClient}]
          /\ hsock' \in [Handlers -> Fds \cup {NoFd}]
          /\ hpc' \in [Handlers -> {"none", "read", "lost", "asleep", "ended", "deleted"}]
          /\ handlers' \in SUBSET Handlers
      BY <1>18 DEF TypeOK, ReapDelete, DeleteHandler
    <2>4. clobbered' \in BOOLEAN
      BY <1>18, Zenon DEF TypeOK, ReapDelete
    <2> QED
      BY <1>18, <2>1, <2>2, <2>3, <2>4 DEF TypeOK, ReapDelete
  <1>19. CASE ReapDone
    BY <1>19 DEF TypeOK, ReapDone
  <1>20. CASE Start
    <2>1. StartOn(port)
      BY <1>20 DEF Start
    <2>2. /\ desc' \in [Fds -> Objects] /\ server' \in Fds \cup {NoFd}
          /\ running' \in BOOLEAN /\ stopped' \in BOOLEAN
          /\ rrunning' \in BOOLEAN /\ rstopped' \in BOOLEAN
          /\ rpc' \in {"none", "loop", "scan", "delete", "exited"}
          /\ apc' \in {"none", "poll", "accept", "accepted", "lock", "find", "create",
                      "clone", "add", "reuse", "exit", "exited"}
      BY <2>1, StartTyped DEF TypeOK
    <2>3. AcceptThread'
      <3>1. afd' = afd /\ ah' = ah
        BY <1>20 DEF Start
      <3>2. \/ stopped' = stopped /\ apc' = apc
            \/ ~stopped' /\ stopped /\ apc' = "poll"
            \/ ~stopped' /\ ~stopped /\ apc' = apc
        BY <2>1 DEF StartOn
      <3> QED
        BY <3>1, <3>2
    <2> HIDE DEF AcceptThread
    <2> QED
      BY <1>20, <2>2, <2>3, ServerAssumption DEF TypeOK, Start, Call
  <1>21. CASE Stop
    BY <1>21, ServerAssumption DEF TypeOK, Stop, Call
  <1>22. CASE SetPersistance
    BY <1>22, ServerAssumption DEF TypeOK, SetPersistance, Call
  <1>23. CASE \E p \in Ports : SetPort(p)
    BY <1>23, ServerAssumption DEF TypeOK, SetPort, Call
  <1>24. CASE StopLock
    <2>1. desc' \in [Fds -> Objects]
      <3>1. server \in Fds /\ desc[server].kind = "listen" => desc[server].port \in Ports
        BY Kinds DEF TypeOK
      <3> QED
        BY <1>24, <3>1 DEF TypeOK, StopLock, Objects
    <2> QED
      BY <1>24, <2>1 DEF TypeOK, StopLock
  <1>25. CASE StopThread
    <2>1. running' \in BOOLEAN
      BY <1>25, Zenon DEF TypeOK, StopThread
    <2> QED
      BY <1>25, <2>1 DEF TypeOK, StopThread
  <1>26. CASE StopJoin
    BY <1>26 DEF TypeOK, StopJoin
  <1>27. CASE StopAll
    BY <1>27 DEF TypeOK, StopAll
  <1>28. CASE StopHandler
    <2>1. PICK h \in handlers :
            /\ mh' = h
            /\ link' = IF IsStream(hsock[h])
                       THEN [link EXCEPT ![desc[hsock[h]].conn] = "over"] ELSE link
            /\ hrunning' = [hrunning EXCEPT ![h] = FALSE]
            /\ hpc' = [hpc EXCEPT ![h] = IF @ = "asleep" THEN "read" ELSE @]
            /\ clobbered' = (clobbered \/ NotOwn(h))
      BY <1>28 DEF StopHandler
    <2>2. h \in Handlers /\ clobbered' \in BOOLEAN
      BY <2>1, Zenon DEF TypeOK
    <2>3. /\ link' \in [Conns -> {"none", "up", "closed", "reset", "over"}]
          /\ hrunning' \in [Handlers -> BOOLEAN]
          /\ hpc' \in [Handlers -> {"none", "read", "lost", "asleep", "ended", "deleted"}]
      BY <2>1, <2>2 DEF TypeOK
    <2> QED
      BY <1>28, <2>1, <2>2, <2>3 DEF TypeOK, StopHandler
  <1>29. CASE StopDelete
    <2>1. /\ desc' \in [Fds -> Objects]
          /\ link' \in [Conns -> {"none", "up", "closed", "reset", "over"}]
          /\ backlog' \in [Conns -> Ports \cup {0}]
      BY <1>29, Closed DEF StopDelete
    <2>2. /\ hrunning' \in [Handlers -> BOOLEAN] /\ hpersist' \in [Handlers -> BOOLEAN]
          /\ hdisconnected' \in [Handlers -> BOOLEAN]
      BY <1>29 DEF TypeOK, StopDelete, DeleteHandler
    <2>3. /\ hid' \in [Handlers -> Clients \cup {NoClient}]
          /\ hsock' \in [Handlers -> Fds \cup {NoFd}]
          /\ hpc' \in [Handlers -> {"none", "read", "lost", "asleep", "ended", "deleted"}]
          /\ handlers' \in SUBSET Handlers
      BY <1>29 DEF TypeOK, StopDelete, DeleteHandler
    <2>4. clobbered' \in BOOLEAN
      BY <1>29, Zenon DEF TypeOK, StopDelete
    <2> QED
      BY <1>29, <2>1, <2>2, <2>3, <2>4 DEF TypeOK, StopDelete
  <1>30. CASE StopAllDone
    BY <1>30 DEF TypeOK, StopAllDone
  <1>31. CASE StopReaper
    <2>1. rrunning' \in BOOLEAN
      BY <1>31, Zenon DEF TypeOK, StopReaper
    <2> QED
      BY <1>31, <2>1 DEF TypeOK, StopReaper
  <1>32. CASE StopReaperJoin
    BY <1>32 DEF TypeOK, StopReaperJoin
  <1>33. CASE StopClose
    BY <1>33, Closed DEF TypeOK, StopClose
  <1>34. CASE SetPortStart
    <2>1. StartOn(mport)
      BY <1>34 DEF SetPortStart
    <2>2. /\ desc' \in [Fds -> Objects] /\ server' \in Fds \cup {NoFd}
          /\ running' \in BOOLEAN /\ stopped' \in BOOLEAN
          /\ rrunning' \in BOOLEAN /\ rstopped' \in BOOLEAN
          /\ rpc' \in {"none", "loop", "scan", "delete", "exited"}
          /\ apc' \in {"none", "poll", "accept", "accepted", "lock", "find", "create",
                      "clone", "add", "reuse", "exit", "exited"}
      BY <1>34, <2>1, StartTyped DEF TypeOK, SetPortStart
    <2>3. AcceptThread'
      <3>1. afd' = afd /\ ah' = ah
        BY <1>34 DEF SetPortStart
      <3>2. \/ stopped' = stopped /\ apc' = apc
            \/ ~stopped' /\ stopped /\ apc' = "poll"
            \/ ~stopped' /\ ~stopped /\ apc' = apc
        BY <2>1 DEF StartOn
      <3> QED
        BY <3>1, <3>2
    <2> HIDE DEF AcceptThread
    <2> QED
      BY <1>34, <2>2, <2>3 DEF TypeOK, SetPortStart
  <1>35. CASE UNCHANGED vars
    BY <1>35 DEF TypeOK, vars
  <1> QED
    BY <1>1, <1>2, <1>3, <1>4, <1>5, <1>6, <1>7, <1>8, <1>9, <1>10, <1>11, <1>12, <1>13, <1>14, <1>15, <1>16, <1>17, <1>18, <1>19, <1>20, <1>21, <1>22, <1>23, <1>24, <1>25, <1>26, <1>27, <1>28, <1>29, <1>30, <1>31, <1>32, <1>33, <1>34, <1>35
    DEF Next, Network, HandlerStep, AcceptStep, ReapStep, Calls, MainStep

-------------------------------------------------------------------------------
(***************************************************************************)
(* Locks and threads                                                       *)
(***************************************************************************)

\* What Start() does with the two threads.
LEMMA Started ==
  ASSUME NEW p, StartOn(p)
  PROVE  /\ mutex = "none"
         /\ \/ UNCHANGED <<running, stopped, apc>>
            \/ ~stopped' /\ stopped /\ running' /\ apc' = "poll"
            \/ ~stopped' /\ ~stopped /\ UNCHANGED <<running, apc>>
         /\ \/ UNCHANGED <<rstopped, rpc>>
            \/ ~rstopped' /\ rstopped /\ rpc' = "loop"
            \/ ~rstopped' /\ ~rstopped /\ UNCHANGED rpc
  BY DEF StartOn

\* The locks are held where the code holds them.
LEMMA LocksKept ==
  ASSUME TypeInv, LocksHeld, ThreadsJoined, [Next]_vars
  PROVE  LocksHeld'
  <1> USE DEF LocksHeld, AcceptorLocked, MainLocked
  <1>1. CASE Network
    BY <1>1 DEF Network, Connect, ClientGone
  <1>2. CASE \E h \in Handlers : HandlerStep(h)
    BY <1>2 DEF HandlerStep, HandlerLost, HandlerPark, HandlerEnd
  <1>3. CASE AcceptStep
    BY <1>3 DEF AcceptStep, AcceptPoll, Accept, AcceptCheck, AcceptLock, AcceptFind,
      AcceptCreate, AcceptClone, AcceptAdd, AcceptReuse, AcceptExit, EndOfBody
  <1>4. CASE ReapStep
    BY <1>4 DEF ReapStep, ReapLoop, ReapStop, ReapDelete, ReapDone
  <1>5. CASE Start
    <2>1. /\ mpc = "idle" /\ StartOn(port)
          /\ UNCHANGED <<mpc, mutex, qmutex>>
      BY <1>5 DEF Start, Call
    <2> QED
      BY <2>1, Started DEF TypeInv, AcceptThread, ThreadsJoined
  <1>6. CASE Stop \/ SetPersistance \/ \E p \in Ports : SetPort(p)
    BY <1>6 DEF Stop, SetPersistance, SetPort, Call
  <1>7. CASE SetPortStart
    <2>1. /\ mpc = "restart" /\ mpc' = "idle" /\ StartOn(mport)
          /\ UNCHANGED <<mutex, qmutex>>
      BY <1>7 DEF SetPortStart
    <2> QED
      BY <2>1, Started DEF TypeInv, AcceptThread, ThreadsJoined
  <1>8. CASE StopLock \/ StopThread \/ StopJoin \/ StopAll \/ StopHandler \/ StopDelete
    BY <1>8 DEF StopLock, StopThread, StopJoin, StopAll, StopHandler, StopDelete
  <1>9. CASE StopAllDone \/ StopReaper \/ StopReaperJoin \/ StopClose
    BY <1>9 DEF StopAllDone, StopReaper, StopReaperJoin, StopClose
  <1>10. CASE UNCHANGED vars
    BY <1>10 DEF vars
  <1> QED
    BY <1>1, <1>2, <1>3, <1>4, <1>5, <1>6, <1>7, <1>8, <1>9, <1>10
    DEF Next, Calls, MainStep

\* Stop() has joined what it says it has.
LEMMA ThreadsKept ==
  ASSUME TypeInv, LocksHeld, ThreadsJoined, [Next]_vars
  PROVE  ThreadsJoined'
  <1> USE DEF LocksHeld, AcceptorLocked, MainLocked, ThreadsJoined, Joined, TypeInv, AcceptThread
  <1>1. CASE Network
    BY <1>1 DEF Network, Connect, ClientGone
  <1>2. CASE \E h \in Handlers : HandlerStep(h)
    BY <1>2 DEF HandlerStep, HandlerLost, HandlerPark, HandlerEnd
  <1>3. CASE AcceptStep
    <2>1. CASE AcceptPoll \/ Accept \/ AcceptCheck \/ AcceptLock \/ AcceptFind
      BY <2>1 DEF AcceptPoll, Accept, AcceptCheck, AcceptLock, AcceptFind
    <2>2. CASE AcceptCreate \/ AcceptClone \/ AcceptReuse
      <3>1. /\ UNCHANGED <<running, stopped, rstopped, rpc, mpc, handlers>>
            /\ apc \in AcceptorLocked /\ apc' \in {"add", "poll"}
        BY <2>2 DEF AcceptCreate, AcceptClone, AcceptReuse, EndOfBody
      <3> QED
        BY <3>1
    <2>3. CASE AcceptAdd
      <3>1. ~stopped /\ ~stopped' /\ mpc' \notin MainLocked /\ apc' = "poll"
        BY <2>3 DEF AcceptAdd, EndOfBody
      <3> QED
        BY <2>3, <3>1 DEF AcceptAdd
    <2>4. CASE AcceptExit
      BY <2>4 DEF AcceptExit
    <2> QED
      BY <1>3, <2>1, <2>2, <2>3, <2>4 DEF AcceptStep
  <1>4. CASE ReapStep
    BY <1>4 DEF ReapStep, ReapLoop, ReapStop, ReapDelete, ReapDone, DeleteHandler
  <1>5. CASE Start
    <2>1. /\ mpc = "idle" /\ StartOn(port)
          /\ UNCHANGED <<mpc, mutex, qmutex, handlers>>
      BY <1>5 DEF Start, Call
    <2> QED
      BY <2>1, Started
  <1>6. CASE Stop \/ SetPersistance \/ \E p \in Ports : SetPort(p)
    BY <1>6 DEF Stop, SetPersistance, SetPort, Call
  <1>7. CASE SetPortStart
    <2>1. /\ mpc = "restart" /\ mpc' = "idle" /\ StartOn(mport)
          /\ UNCHANGED <<mutex, qmutex, handlers>>
      BY <1>7 DEF SetPortStart
    <2> QED
      BY <2>1, Started
  <1>8. CASE StopLock \/ StopThread \/ StopJoin \/ StopAll \/ StopHandler \/ StopDelete
    BY <1>8 DEF StopLock, StopThread, StopJoin, StopAll, StopHandler, StopDelete, DeleteHandler
  <1>9. CASE StopAllDone \/ StopReaper \/ StopReaperJoin \/ StopClose
    BY <1>9 DEF StopAllDone, StopReaper, StopReaperJoin, StopClose
  <1>10. CASE UNCHANGED vars
    BY <1>10 DEF vars
  <1> QED
    BY <1>1, <1>2, <1>3, <1>4, <1>5, <1>6, <1>7, <1>8, <1>9, <1>10
    DEF Next, Calls, MainStep

-------------------------------------------------------------------------------
(***************************************************************************)
(* The queue of the handlers                                               *)
(***************************************************************************)

\* What the fields of handler g are after it was made for afd.
LEMMA Created ==
  ASSUME TypeInv, apc \in Fresh, NEW persist, NEW id, NewHandler(persist, id)
  PROVE  /\ ah \in Handlers
         /\ hpc'[ah] = "read" /\ hrunning'[ah] = TRUE /\ hid'[ah] = id
         /\ hpersist'[ah] = persist /\ hsock'[ah] = afd
         /\ \A h \in Handlers \ {ah} :
              /\ hpc'[h] = hpc[h] /\ hrunning'[h] = hrunning[h] /\ hid'[h] = hid[h]
              /\ hpersist'[h] = hpersist[h] /\ hsock'[h] = hsock[h]
  BY DEF TypeInv, TypeOK, AcceptThread, NewHandler

\* What is left of a handler after its delete.
LEMMA Deleted ==
  ASSUME TypeOK, NEW g \in Handlers, DeleteHandler(g)
  PROVE  /\ handlers' = handlers \ {g}
         /\ hpc'[g] = "deleted" /\ hid'[g] = NoClient
         /\ ~hpersist'[g]
         /\ \A h \in Handlers \ {g} :
              /\ hpc'[h] = hpc[h] /\ hrunning'[h] = hrunning[h] /\ hid'[h] = hid[h]
              /\ hpersist'[h] = hpersist[h] /\ hsock'[h] = hsock[h]
  BY DEF TypeOK, DeleteHandler

\* The steps of handlers keep them alive.
LEMMA HandlerStepLive ==
  ASSUME TypeOK, NEW h \in Handlers, HandlerStep(h)
  PROVE  /\ hpc[h] \in {"read", "lost"} /\ hpc'[h] \in {"lost", "asleep", "ended"}
         /\ \A g \in Handlers \ {h} : hpc'[g] = hpc[g]
         /\ UNCHANGED <<desc, link, backlog, handlers, apc, ah, afd, mpc, mh, rpc, rh>>
  BY DEF TypeOK, HandlerStep, HandlerLost, HandlerPark, HandlerEnd

\* The handlers that exist are in the queue, or about to be.
LEMMA RegisteredKept ==
  ASSUME TypeInv, TypeOK', LocksHeld, ThreadsJoined, Registered, NewConnections, [Next]_vars
  PROVE  Registered'
  <1> TypeOK
    BY DEF TypeInv
  <1>1. CASE Network
    <2>1. UNCHANGED <<hpc, handlers, apc, ah, mpc, mh, rpc, rh>>
      BY <1>1 DEF Network, Connect, ClientGone
    <2> QED
      BY <2>1 DEF Registered, Live
  <1>2. CASE \E h \in Handlers : HandlerStep(h)
    <2>1. PICK h \in Handlers : HandlerStep(h)
      BY <1>2
    <2>2. /\ hpc[h] \in {"read", "lost"} /\ hpc'[h] \in {"lost", "asleep", "ended"}
          /\ \A g \in Handlers \ {h} : hpc'[g] = hpc[g]
          /\ UNCHANGED <<handlers, apc, ah, mpc, mh, rpc, rh>>
      BY <2>1, HandlerStepLive
    <2>3. \A g \in Handlers : Live(g)' <=> Live(g)
      BY <2>2 DEF Live
    <2>4. apc \in Fresh => ah \in Handlers
      BY DEF TypeInv, AcceptThread
    <2> QED
      BY <2>2, <2>3, <2>4 DEF Registered
  <1>3. CASE AcceptPoll \/ AcceptCheck \/ AcceptLock \/ AcceptFind \/ AcceptExit
    <2>1. /\ UNCHANGED <<hpc, handlers, mpc, mh, rpc, rh>>
          /\ apc # "add" /\ apc' # "add"
          /\ apc' \in Fresh => apc \in Fresh /\ ah' = ah
      BY <1>3 DEF AcceptPoll, AcceptCheck, AcceptLock, AcceptFind, AcceptExit, Fresh
    <2> QED
      BY <2>1 DEF Registered, Live
  <1>4. CASE Accept
    <2>1. /\ UNCHANGED <<hpc, handlers, mpc, mh, rpc, rh>>
          /\ apc = "accept" /\ apc' # "add"
          /\ apc' \in Fresh => ah' \in Incoming
      BY <1>4 DEF Accept, Fresh
    <2>2. \A k \in Incoming : hpc[k] = "none"
      BY Kinds, ServerAssumption DEF Incoming, NewConnections, TypeOK
    <2> QED
      BY <2>1, <2>2 DEF Registered, Live
  <1>5. CASE AcceptCreate \/ AcceptClone
    <2>1. /\ \E persist, id : NewHandler(persist, id)
          /\ UNCHANGED <<handlers, ah, mpc, mh, rpc, rh>>
          /\ apc \in Fresh /\ apc' = "add"
      BY <1>5 DEF AcceptCreate, AcceptClone, Fresh
    <2>2. /\ ah \in Handlers /\ hpc[ah] = "none" /\ hpc'[ah] = "read"
          /\ \A h \in Handlers \ {ah} : hpc'[h] = hpc[h]
      BY <2>1, Created DEF Registered
    <2>3. ah \notin handlers
      BY <2>2 DEF Registered, Live
    <2> QED
      BY <2>1, <2>2, <2>3 DEF Registered, Live, Fresh
  <1>6. CASE AcceptAdd
    <2>1. /\ UNCHANGED <<hpc, mpc, mh, rpc, rh>>
          /\ apc = "add" /\ apc' = "poll" /\ handlers' = handlers \union {ah}
      BY <1>6 DEF AcceptAdd, EndOfBody
    <2> QED
      BY <2>1 DEF Registered, Live, Fresh
  <1>7. CASE AcceptReuse
    <2>1. /\ UNCHANGED <<handlers, mpc, mh, rpc, rh>>
          /\ apc = "reuse" /\ apc' = "poll" /\ ah \in Handlers
          /\ hpc[ah] = "asleep" /\ hpc'[ah] = "read"
          /\ \A h \in Handlers \ {ah} : hpc'[h] = hpc[h]
      BY <1>7 DEF AcceptReuse, EndOfBody, TypeInv, TypeOK, AcceptThread
    <2> QED
      BY <2>1 DEF Registered, Live, Fresh
  <1>8. CASE ReapLoop \/ ReapStop \/ ReapDone
    <2>1. /\ UNCHANGED <<hpc, handlers, apc, ah, mpc, mh>>
          /\ rpc' = "delete" => rh' \in handlers
      BY <1>8 DEF ReapLoop, ReapStop, ReapDone
    <2> QED
      BY <2>1 DEF Registered, Live
  <1>9. CASE ReapDelete
    <2>1. /\ UNCHANGED <<apc, ah, mpc, mh>> /\ DeleteHandler(rh)
          /\ rpc = "delete" /\ rpc' = "scan" /\ mpc # "hjoin"
      BY <1>9 DEF ReapDelete, LocksHeld
    <2>2. PICK g \in handlers : g = rh /\ g \in Handlers
      BY <2>1 DEF Registered, TypeOK
    <2>3. /\ handlers' = handlers \ {g} /\ hpc'[g] = "deleted"
          /\ \A h \in Handlers \ {g} : hpc'[h] = hpc[h]
      BY <2>1, <2>2, Deleted
    <2>4. Live(g) /\ ~Live(g)' /\ \A h \in Handlers \ {g} : Live(h)' <=> Live(h)
      BY <2>2, <2>3 DEF Registered, Live
    <2>5. apc \in Fresh => hpc'[ah] = "none"
      <3>1. apc \in Fresh => ah \in Handlers
        BY DEF TypeInv, AcceptThread
      <3> QED
        BY <2>3, <2>4, <3>1 DEF Registered, Live
    <2> QED
      BY <2>1, <2>2, <2>3, <2>4, <2>5 DEF Registered
  <1>10. CASE Start \/ SetPortStart
    <2>1. /\ UNCHANGED <<hpc, handlers, ah, rh>> /\ \E p : StartOn(p)
          /\ mpc' # "hjoin"
      BY <1>10 DEF Start, SetPortStart, Call
    <2>2. apc' = apc \/ (apc = "none" /\ apc' = "poll")
      BY <2>1, Started DEF TypeInv, AcceptThread
    <2>3. rpc' = "delete" => rpc = "delete"
      BY <2>1, Started
    <2> QED
      BY <2>1, <2>2, <2>3 DEF Registered, Live, Fresh
  <1>11. CASE Stop \/ SetPersistance \/ \E p \in Ports : SetPort(p)
    <2>1. UNCHANGED <<hpc, handlers, apc, ah, rpc, rh>> /\ mpc' # "hjoin"
      BY <1>11 DEF Stop, SetPersistance, SetPort, Call
    <2> QED
      BY <2>1 DEF Registered, Live
  <1>12. CASE StopLock \/ StopThread \/ StopAll \/ StopAllDone \/ StopReaper \/ StopClose
    <2>1. UNCHANGED <<hpc, handlers, apc, ah, rpc, rh>> /\ mpc' # "hjoin"
      BY <1>12 DEF StopLock, StopThread, StopAll, StopAllDone, StopReaper, StopClose
    <2> QED
      BY <2>1 DEF Registered, Live
  <1>13. CASE StopJoin \/ StopReaperJoin
    <2>1. /\ UNCHANGED <<hpc, handlers, ah, rh>> /\ mpc' # "hjoin"
          /\ apc # "add" \/ apc' = apc
          /\ apc' \in {apc, "none"} /\ rpc' \in {rpc, "none"}
      BY <1>13 DEF StopJoin, StopReaperJoin
    <2> QED
      BY <2>1 DEF Registered, Live, Fresh
  <1>14. CASE StopHandler
    <2>1. /\ UNCHANGED <<handlers, apc, ah, rpc, rh>> /\ mh' \in handlers
          /\ \A h \in Handlers :
               hpc'[h] = hpc[h] \/ (hpc[h] = "asleep" /\ hpc'[h] = "read")
      BY <1>14 DEF StopHandler, TypeOK
    <2>2. /\ \A h \in Handlers : Live(h)' <=> Live(h)
          /\ \A h \in Handlers : hpc[h] = "none" => hpc'[h] = "none"
      BY <2>1 DEF Live
    <2> QED
      BY <2>1, <2>2 DEF Registered, Fresh, TypeInv, AcceptThread
  <1>15. CASE StopDelete
    <2>1. /\ UNCHANGED <<apc, ah, rpc, rh>> /\ DeleteHandler(mh)
          /\ mpc = "hjoin" /\ mpc' = "each" /\ rpc # "delete" /\ apc # "add"
      BY <1>15 DEF StopDelete, LocksHeld, MainLocked, AcceptorLocked
    <2>2. PICK g \in handlers : g = mh /\ g \in Handlers
      BY <2>1 DEF Registered, TypeOK
    <2>3. /\ handlers' = handlers \ {g} /\ hpc'[g] = "deleted"
          /\ \A h \in Handlers \ {g} : hpc'[h] = hpc[h]
      BY <2>1, <2>2, Deleted
    <2>4. Live(g) /\ ~Live(g)' /\ \A h \in Handlers \ {g} : Live(h)' <=> Live(h)
      BY <2>2, <2>3 DEF Registered, Live
    <2>5. apc \in Fresh => hpc'[ah] = "none"
      <3>1. apc \in Fresh => ah \in Handlers
        BY DEF TypeInv, AcceptThread
      <3> QED
        BY <2>3, <2>4, <3>1 DEF Registered, Live
    <2> QED
      BY <2>1, <2>2, <2>3, <2>4, <2>5 DEF Registered
  <1>16. CASE UNCHANGED vars
    BY <1>16 DEF vars, Registered, Live
  <1> QED
    BY <1>1, <1>2, <1>3, <1>4, <1>5, <1>6, <1>7, <1>8, <1>9, <1>10, <1>11, <1>12,
       <1>13, <1>14, <1>15, <1>16
    DEF Next, AcceptStep, ReapStep, Calls, MainStep

\* A step that makes no connection, accepts none and creates no handler.
LEMMA ConnectionsFrame ==
  ASSUME NewConnections,
         \A k \in Conns : backlog'[k] \in {backlog[k], 0},
         \A k \in Conns : link'[k] = "none" <=> link[k] = "none",
         \A k \in Conns : hpc[k] = "none" => hpc'[k] = "none",
         apc' \in Fresh => apc \in Fresh /\ ah' = ah,
         \A f \in Fds, k \in Conns : desc'[f] = Stream(k) => desc[f] = Stream(k)
  PROVE  NewConnections'
  BY DEF NewConnections

\* close() ends no connection that was not made.
LEMMA ClosedWasMade ==
  ASSUME TypeOK, NewConnections, NEW f, CloseFd(f)
  PROVE  /\ \A k \in Conns : backlog'[k] \in {backlog[k], 0}
         /\ \A k \in Conns : link'[k] = "none" <=> link[k] = "none"
         /\ \A g \in Fds, k \in Conns : desc'[g] = Stream(k) => desc[g] = Stream(k)
  <1>1. ASSUME NEW k \in Conns, link[k] = "none"
        PROVE  link'[k] = "none"
    <2>1. backlog[k] = 0
      BY <1>1 DEF NewConnections
    <2>2. ~(IsStream(f) /\ desc[f].conn = k)
      <3> SUFFICES ASSUME IsStream(f), desc[f].conn = k PROVE FALSE
        OBVIOUS
      <3>1. f \in Fds /\ desc[f] \in Objects /\ desc[f].kind = "conn"
        BY DEF TypeOK, IsStream
      <3>2. desc[f] = Stream(k)
        BY <3>1, Kinds
      <3> QED
        BY <1>1, <3>1, <3>2 DEF NewConnections
    <2>3. IsListener(f) => desc[f].port # 0
      <3>1. IsListener(f) => desc[f] \in Objects /\ desc[f].kind \in {"listen", "shut"}
        BY DEF TypeOK, IsListener
      <3> QED
        BY <3>1, Kinds, ServerAssumption
    <2> QED
      BY <1>1, <2>1, <2>2, <2>3 DEF CloseFd
  <1>2. \A g \in Fds, k \in Conns : desc'[g] = Stream(k) => desc[g] = Stream(k)
    <2>1. \A k : Nothing # Stream(k)
      BY DEF Nothing, Stream
    <2> QED
      BY <2>1, Closed
  <1> QED
    BY <1>1, <1>2, Closed

\* A connection that was not accepted has no handler yet.
LEMMA ConnectionsKept ==
  ASSUME TypeInv, TypeOK', LocksHeld, ThreadsJoined, Registered, NewConnections, [Next]_vars
  PROVE  NewConnections'
  <1> TypeOK
    BY DEF TypeInv
  <1>1. CASE Network
    <2>1. ASSUME NEW k \in Conns, NEW c \in Clients, NEW p \in Ports, Connect(k, c, p)
          PROVE  NewConnections'
      <3>1. /\ UNCHANGED <<hpc, apc, ah, desc>> /\ link[k] = "none"
            /\ link'[k] = "up" /\ \A j \in Conns \ {k} : link'[j] = link[j]
            /\ \A j \in Conns \ {k} : backlog'[j] = backlog[j]
        BY <2>1 DEF Connect, TypeOK
      <3> QED
        BY <3>1 DEF NewConnections
    <2>2. ASSUME NEW k \in Conns, ClientGone(k) PROVE NewConnections'
      <3>1. /\ UNCHANGED <<hpc, apc, ah, desc, backlog>>
            /\ \A j \in Conns : link'[j] = "none" <=> link[j] = "none"
        BY <2>2 DEF ClientGone, TypeOK
      <3> QED
        BY <3>1, ConnectionsFrame
    <2> QED
      BY <1>1, <2>1, <2>2 DEF Network
  <1>2. CASE \E h \in Handlers : HandlerStep(h)
    <2>1. PICK h \in Handlers : HandlerStep(h)
      BY <1>2
    <2>2. /\ \A k \in Conns : hpc[k] = "none" => hpc'[k] = "none"
          /\ UNCHANGED <<desc, link, backlog, apc, ah>>
      BY <2>1, HandlerStepLive
    <2> QED
      BY <2>2, ConnectionsFrame
  <1>3. CASE AcceptPoll \/ AcceptCheck \/ AcceptLock \/ AcceptFind \/ AcceptExit \/ AcceptAdd
    <2>1. /\ UNCHANGED <<hpc, desc, link, backlog>>
          /\ apc' \in Fresh => apc \in Fresh /\ ah' = ah
      BY <1>3 DEF AcceptPoll, AcceptCheck, AcceptLock, AcceptFind, AcceptExit, AcceptAdd,
                  EndOfBody, Fresh
    <2> QED
      BY <2>1, ConnectionsFrame
  <1>4. CASE Accept
    <2>1. CASE UNCHANGED <<desc, backlog>> /\ apc' \notin Fresh
      <3>1. UNCHANGED <<hpc, link>>
        BY <1>4 DEF Accept
      <3> QED
        BY <2>1, <3>1, ConnectionsFrame
    <2>2. CASE /\ FreeFds # {} /\ apc' = "accepted"
               /\ \E k \in Incoming :
                    /\ desc' = [desc EXCEPT ![LowestFd] = Stream(k)]
                    /\ backlog' = [backlog EXCEPT ![k] = 0]
                    /\ ah' = k
      <3>1. PICK k \in Incoming :
              /\ desc' = [desc EXCEPT ![LowestFd] = Stream(k)]
              /\ backlog' = [backlog EXCEPT ![k] = 0]
              /\ ah' = k
        BY <2>2
      <3>2. k \in Conns /\ backlog[k] # 0
        BY Kinds, ServerAssumption DEF Incoming, TypeOK
      <3>3. /\ UNCHANGED <<hpc, link>> /\ link[k] # "none"
        BY <1>4, <3>2 DEF Accept, NewConnections
      <3>4. backlog'[k] = 0 /\ \A j \in Conns \ {k} : backlog'[j] = backlog[j]
        BY <3>1, <3>2 DEF TypeOK
      <3>5. \A f \in Fds, j \in Conns : desc'[f] = Stream(j) => desc[f] = Stream(j) \/ j = k
        BY <3>1 DEF TypeOK, Stream
      <3> QED
        BY <2>2, <3>1, <3>2, <3>3, <3>4, <3>5 DEF NewConnections
    <2> QED
      BY <1>4, <2>1, <2>2 DEF Accept, Fresh
  <1>5. CASE AcceptCreate \/ AcceptClone
    <2>1. /\ \E persist, id : NewHandler(persist, id)
          /\ UNCHANGED <<desc, link, backlog>>
          /\ apc \in Fresh /\ apc' \notin Fresh
      BY <1>5 DEF AcceptCreate, AcceptClone, Fresh
    <2>2. \A h \in Handlers \ {ah} : hpc'[h] = hpc[h]
      BY <2>1, Created
    <2> QED
      BY <2>1, <2>2 DEF NewConnections
  <1>6. CASE AcceptReuse
    <2>1. /\ CloseFd(hsock[ah]) /\ apc' \notin Fresh
          /\ \A k \in Conns : hpc[k] = "none" => hpc'[k] = "none"
      BY <1>6 DEF AcceptReuse, EndOfBody, TypeOK, Fresh
    <2> QED
      BY <2>1, ClosedWasMade, ConnectionsFrame
  <1>7. CASE ReapLoop \/ ReapDone
    <2>1. UNCHANGED <<hpc, desc, link, backlog, apc, ah>>
      BY <1>7 DEF ReapLoop, ReapDone
    <2> QED
      BY <2>1, ConnectionsFrame
  <1>8. CASE ReapStop \/ StopClose
    <2>1. UNCHANGED <<hpc, apc, ah>> /\ \E f : CloseFd(f)
      BY <1>8 DEF ReapStop, StopClose
    <2> QED
      BY <2>1, ClosedWasMade, ConnectionsFrame
  <1>9. CASE ReapDelete \/ StopDelete
    <2>1. /\ UNCHANGED <<apc, ah>> /\ \E f : CloseFd(f)
          /\ \E g \in handlers : DeleteHandler(g)
      BY <1>9 DEF ReapDelete, StopDelete, Registered
    <2>2. PICK g \in handlers : DeleteHandler(g)
      BY <2>1
    <2>3. /\ g \in Handlers /\ hpc[g] # "none"
          /\ \A h \in Handlers \ {g} : hpc'[h] = hpc[h]
      BY <2>2, Deleted DEF Registered, Live, TypeOK
    <2> QED
      BY <2>1, <2>3, ClosedWasMade, ConnectionsFrame
  <1>10. CASE Start \/ SetPortStart
    <2>1. UNCHANGED <<hpc, link, backlog, ah>> /\ \E p : StartOn(p)
      BY <1>10 DEF Start, SetPortStart
    <2>2. apc' \in Fresh => apc \in Fresh
      BY <2>1, Started DEF Fresh
    <2>3. \A f \in Fds, k \in Conns : desc'[f] = Stream(k) => desc[f] = Stream(k)
      <3>1. PICK p : StartOn(p)
        BY <2>1
      <3>2. \A k : Listening(p) # Stream(k)
        BY DEF Listening, Stream
      <3>3. desc' = desc \/ desc' = [desc EXCEPT ![LowestFd] = Listening(p)]
        BY <3>1 DEF StartOn
      <3> QED
        BY <3>2, <3>3 DEF TypeOK
    <2> QED
      BY <2>1, <2>2, <2>3, ConnectionsFrame
  <1>11. CASE Stop \/ SetPersistance \/ \E p \in Ports : SetPort(p)
    <2>1. UNCHANGED <<hpc, desc, link, backlog, apc, ah>>
      BY <1>11 DEF Stop, SetPersistance, SetPort
    <2> QED
      BY <2>1, ConnectionsFrame
  <1>12. CASE StopLock
    <2>1. UNCHANGED <<hpc, link, backlog, apc, ah>>
      BY <1>12 DEF StopLock
    <2>2. \A f \in Fds, k \in Conns : desc'[f] = Stream(k) => desc[f] = Stream(k)
      BY <1>12 DEF StopLock, TypeOK, Stream, Shut
    <2> QED
      BY <2>1, <2>2, ConnectionsFrame
  <1>13. CASE StopThread \/ StopAll \/ StopAllDone \/ StopReaper \/ StopReaperJoin \/ StopJoin
    <2>1. UNCHANGED <<hpc, desc, link, backlog, ah>> /\ apc' \in {apc, "none"}
      BY <1>13 DEF StopThread, StopAll, StopAllDone, StopReaper, StopReaperJoin, StopJoin
    <2> QED
      BY <2>1, ConnectionsFrame DEF Fresh
  <1>14. CASE StopHandler
    <2>1. PICK h \in handlers :
            /\ link' = IF IsStream(hsock[h])
                       THEN [link EXCEPT ![desc[hsock[h]].conn] = "over"] ELSE link
            /\ hpc' = [hpc EXCEPT ![h] = IF @ = "asleep" THEN "read" ELSE @]
      BY <1>14 DEF StopHandler
    <2>2. \A k \in Conns : link'[k] = "none" <=> link[k] = "none"
      <3>1. ASSUME IsStream(hsock[h])
            PROVE  \E k \in Conns : desc[hsock[h]].conn = k /\ link[k] # "none"
        <4>1. hsock[h] \in Fds /\ desc[hsock[h]] \in Objects /\ desc[hsock[h]].kind = "conn"
          BY <3>1 DEF IsStream, TypeOK
        <4> QED
          BY <4>1, Kinds DEF NewConnections
      <3> QED
        BY <2>1, <3>1 DEF TypeOK
    <2>3. \A k \in Conns : hpc[k] = "none" => hpc'[k] = "none"
      BY <2>1 DEF TypeOK
    <2>4. UNCHANGED <<desc, backlog, apc, ah>>
      BY <1>14 DEF StopHandler
    <2> QED
      BY <2>2, <2>3, <2>4, ConnectionsFrame
  <1>15. CASE UNCHANGED vars
    BY <1>15, ConnectionsFrame DEF vars
  <1> QED
    BY <1>1, <1>2, <1>3, <1>4, <1>5, <1>6, <1>7, <1>8, <1>9, <1>10, <1>11, <1>12,
       <1>13, <1>14, <1>15
    DEF Next, AcceptStep, ReapStep, Calls, MainStep

-------------------------------------------------------------------------------
(***************************************************************************)
(* TypeInv and ServerInv are an inductive invariant of the server.         *)
(***************************************************************************)
LEMMA InitServer == Init => TypeInv /\ ServerInv
  <1> SUFFICES ASSUME Init PROVE TypeInv /\ ServerInv
    OBVIOUS
  <1>1. LocksHeld /\ ThreadsJoined
    BY DEF Init, LocksHeld, ThreadsJoined, AcceptorLocked, MainLocked, Joined
  <1>2. Registered
    BY DEF Init, Registered, Live, Fresh
  <1>3. NewConnections
    BY DEF Init, NewConnections, Fresh, Nothing, Stream
  <1> QED
    BY <1>1, <1>2, <1>3, InitTyped DEF ServerInv

\* Every step keeps it.
LEMMA ServerKept ==
  ASSUME TypeInv, ServerInv, [Next]_vars
  PROVE  TypeInv' /\ ServerInv'
  <1>1. TypeInv' /\ TypeOK'
    BY TypeKept DEF TypeInv
  <1> QED
    BY <1>1, LocksKept, ThreadsKept, RegisteredKept, ConnectionsKept DEF ServerInv

(***************************************************************************)
(* When MsgServer::Stop returns, its threads have been joined, no handler  *)
(* object is left and no lock is held: the calls of Start(), SetPort() and *)
(* the destructor after it find a server at rest.                          *)
(***************************************************************************)
THEOREM StopIsComplete == Spec => StopLeavesNothing
  <1>1. ASSUME TypeInv, ServerInv, [Next]_vars
        PROVE  [mpc = "close" /\ mpc' # "close" =>
                  /\ apc = "none" /\ rpc = "none"
                  /\ \A h \in Handlers : hpc[h] \in {"none", "deleted"}
                  /\ mutex' = "none" /\ qmutex' = "none"]_vars
    <2> SUFFICES ASSUME mpc = "close", mpc' # "close"
                 PROVE  /\ apc = "none" /\ rpc = "none"
                        /\ \A h \in Handlers : hpc[h] \in {"none", "deleted"}
                        /\ mutex' = "none" /\ qmutex' = "none"
      OBVIOUS
    <2>1. apc = "none" /\ rpc = "none" /\ handlers = {}
      BY <1>1 DEF ServerInv, ThreadsJoined, TypeInv, AcceptThread, Joined
    <2>2. \A h \in Handlers : hpc[h] \in {"none", "deleted"}
      BY <1>1, <2>1 DEF ServerInv, Registered, Live
    <2>3. qmutex = "none"
      BY <1>1, <2>1 DEF ServerInv, LocksHeld, TypeInv, TypeOK
    <2>4. StopClose
      <3>1. ~(Network \/ \E h \in Handlers : HandlerStep(h))
        BY DEF Network, Connect, ClientGone, HandlerStep, HandlerLost, HandlerPark, HandlerEnd
      <3>2. ~AcceptStep /\ ~ReapStep
        BY DEF AcceptStep, AcceptPoll, Accept, AcceptCheck, AcceptLock, AcceptFind,
          AcceptCreate, AcceptClone, AcceptAdd, AcceptReuse, AcceptExit,
          ReapStep, ReapLoop, ReapStop, ReapDelete, ReapDone
      <3>3. ~Calls
        BY DEF Calls, Call, Start, Stop, SetPersistance, SetPort
      <3>4. MainStep
        BY <1>1, <3>1, <3>2, <3>3 DEF Next, vars
      <3> QED
        BY <3>4 DEF MainStep, StopLock, StopThread, StopJoin, StopAll, StopHandler,
          StopDelete, StopAllDone, StopReaper, StopReaperJoin, SetPortStart
    <2> QED
      BY <2>1, <2>2, <2>3, <2>4 DEF StopClose
  <1> QED
    BY <1>1, InitServer, ServerKept, PTL DEF Spec, StopLeavesNothing

-------------------------------------------------------------------------------
(***************************************************************************)
(* Identities: one persistent handler per client, kept until it is stopped *)
(***************************************************************************)
LEMMA InitIdentity == Init => IdentityInv
  BY DEF Init, IdentityInv, OneHandlerPerClient, OnlyStopStops, Persistent, NewIdentity

\* A step that leaves the handlers, and those who work on one, where they are.
LEMMA IdentityFrame ==
  ASSUME IdentityInv,
         UNCHANGED <<handlers, hid, hpersist, hrunning, hpc>>,
         apc' \in {"create", "add", "reuse"} => UNCHANGED <<apc, ah, aid>>,
         mpc' = "hjoin" <=> mpc = "hjoin",
         mpc = "hjoin" => mh' = mh,
         rpc' = "delete" => rpc = "delete" /\ rh' = rh
  PROVE  IdentityInv'
  <1>1. OneHandlerPerClient'
    BY DEF IdentityInv, OneHandlerPerClient
  <1>2. \A h \in Handlers : Stopping(h)' <=> Stopping(h)
    BY DEF Stopping
  <1>3. OnlyStopStops'
    BY <1>2 DEF IdentityInv, OnlyStopStops
  <1>4. Persistent'
    BY <1>2 DEF IdentityInv, Persistent
  <1>5. NewIdentity'
    BY DEF IdentityInv, NewIdentity
  <1> QED
    BY <1>1, <1>3, <1>4, <1>5 DEF IdentityInv

\* A handler is deleted by the reaper, or by the Stop() that waited for it.
LEMMA DeletionKeeps ==
  ASSUME TypeInv, ServerInv, IdentityInv, NEW g \in Handlers, g \in handlers,
         DeleteHandler(g), UNCHANGED <<apc, ah, aid>>,
         \/ g = mh /\ mpc = "hjoin" /\ mpc' = "each" /\ UNCHANGED <<rpc, rh>>
         \/ g = rh /\ rpc = "delete" /\ rpc' = "scan" /\ UNCHANGED mpc
  PROVE  IdentityInv'
  <1> TypeOK
    BY DEF TypeInv
  <1>1. /\ handlers' = handlers \ {g}
        /\ hpc'[g] = "deleted" /\ hid'[g] = NoClient
        /\ ~hpersist'[g]
        /\ \A h \in Handlers \ {g} :
             /\ hpc'[h] = hpc[h] /\ hrunning'[h] = hrunning[h] /\ hid'[h] = hid[h]
             /\ hpersist'[h] = hpersist[h]
    BY Deleted
  <1>2. handlers \subseteq Handlers
    BY DEF TypeOK
  <1>3. /\ mpc' # "hjoin" /\ \A h \in Handlers \ {g} : ~Stopping(h)
        /\ rpc' # "delete"
    BY DEF ServerInv, LocksHeld, Stopping
  <1>4. OneHandlerPerClient'
    BY <1>1, <1>2 DEF IdentityInv, OneHandlerPerClient
  <1>5. OnlyStopStops' /\ Persistent'
    BY <1>1, <1>3 DEF IdentityInv, OnlyStopStops, Persistent
  <1>6. NewIdentity'
    <2>1. apc = "add" => ah # g
      BY DEF ServerInv, Registered
    <2>2. apc = "reuse" /\ aid # NoClient => ah # g
      <3> SUFFICES ASSUME apc = "reuse", aid # NoClient PROVE ah # g
        OBVIOUS
      <3>1. mpc # "hjoin"
        BY DEF ServerInv, LocksHeld, AcceptorLocked, MainLocked
      <3>2. ah \in Handlers /\ hid[ah] = aid
        BY <1>2 DEF IdentityInv, NewIdentity
      <3> QED
        BY <3>1, <3>2 DEF IdentityInv, Persistent
    <2>3. apc = "add" => ah \in Handlers
      BY DEF TypeInv, AcceptThread
    <2> QED
      BY <1>1, <1>2, <2>1, <2>2, <2>3 DEF IdentityInv, NewIdentity
  <1> QED
    BY <1>4, <1>5, <1>6 DEF IdentityInv

\* Every step keeps the identities of the handlers.
LEMMA IdentityKept ==
  ASSUME TypeInv, ServerInv, IdentityInv, [Next]_vars
  PROVE  IdentityInv'
  <1> TypeOK
    BY DEF TypeInv
  <1>1. CASE Network
    BY <1>1, IdentityFrame DEF Network, Connect, ClientGone
  <1>2. CASE AcceptPoll \/ Accept \/ AcceptCheck \/ AcceptLock \/ AcceptExit
    BY <1>2, IdentityFrame DEF AcceptPoll, Accept, AcceptCheck, AcceptLock, AcceptExit
  <1>3. CASE ReapLoop \/ ReapDone
    BY <1>3, IdentityFrame DEF ReapLoop, ReapDone
  <1>4. CASE Start \/ SetPortStart
    <2>1. /\ UNCHANGED <<handlers, hid, hpersist, hrunning, hpc, ah, aid, rh>>
          /\ mpc # "hjoin" /\ mpc' # "hjoin" /\ \E p : StartOn(p)
      BY <1>4 DEF Start, SetPortStart, Call
    <2> QED
      BY <2>1, Started, IdentityFrame
  <1>5. CASE Stop \/ SetPersistance \/ \E p \in Ports : SetPort(p)
    BY <1>5, IdentityFrame DEF Stop, SetPersistance, SetPort, Call
  <1>6. CASE StopLock \/ StopThread \/ StopJoin \/ StopAll
    BY <1>6, IdentityFrame DEF StopLock, StopThread, StopJoin, StopAll
  <1>7. CASE StopAllDone \/ StopReaper \/ StopReaperJoin \/ StopClose
    BY <1>7, IdentityFrame DEF StopAllDone, StopReaper, StopReaperJoin, StopClose
  <1>8. CASE \E h \in Handlers : HandlerStep(h)
    <2>1. PICK h \in Handlers : HandlerStep(h)
      BY <1>8
    <2>2. /\ UNCHANGED <<handlers, hid, hpersist, apc, ah, aid, mpc, mh, rpc, rh>>
          /\ \A g \in Handlers \ {h} : hpc'[g] = hpc[g] /\ hrunning'[g] = hrunning[g]
      BY <2>1 DEF TypeOK, HandlerStep, HandlerLost, HandlerPark, HandlerEnd
    <2>3. \A g \in Handlers : Stopping(g)' <=> Stopping(g)
      BY <2>2 DEF Stopping
    <2>4. /\ OneHandlerPerClient' /\ NewIdentity'
      BY <2>2 DEF IdentityInv, OneHandlerPerClient, NewIdentity
    <2>5. CASE HandlerLost(h)
      <3>1. hpc[h] = "read" /\ hpc'[h] = "lost" /\ hrunning'[h] = hrunning[h]
        BY <2>5 DEF HandlerLost, TypeOK
      <3> QED
        BY <2>2, <2>3, <2>4, <3>1 DEF IdentityInv, OnlyStopStops, Persistent
    <2>6. CASE HandlerPark(h)
      <3>1. CASE hpersist[h] /\ hrunning[h]
        <4>1. hpc[h] = "lost" /\ hpc'[h] = "asleep" /\ hrunning'[h]
          BY <2>6, <3>1 DEF HandlerPark, TypeOK
        <4> QED
          BY <2>2, <2>3, <2>4, <3>1, <4>1 DEF IdentityInv, OnlyStopStops, Persistent
      <3>2. CASE ~(hpersist[h] /\ hrunning[h])
        <4>1. hpc[h] = "lost" /\ hpc'[h] = "ended"
          BY <2>6, <3>2 DEF HandlerPark, TypeOK
        <4>2. hpersist[h] => Stopping(h)
          BY <3>2, <4>1 DEF IdentityInv, Persistent
        <4> QED
          BY <2>2, <2>3, <2>4, <4>1, <4>2 DEF IdentityInv, OnlyStopStops, Persistent
      <3> QED
        BY <3>1, <3>2
    <2>7. CASE HandlerEnd(h)
      <3>1. hpc[h] = "read" /\ ~hrunning[h] /\ hpc'[h] = "ended"
        BY <2>7 DEF HandlerEnd, TypeOK
      <3>2. Stopping(h)
        BY <3>1 DEF IdentityInv, OnlyStopStops
      <3> QED
        BY <2>2, <2>3, <2>4, <3>1, <3>2 DEF IdentityInv, OnlyStopStops, Persistent
    <2> QED
      BY <2>1, <2>5, <2>6, <2>7 DEF HandlerStep
  <1>9. CASE AcceptFind
    <2>1. /\ UNCHANGED <<handlers, hid, hpersist, hrunning, hpc, aid, mpc, mh, rpc, rh>>
          /\ apc' = "create" => WithId = {}
          /\ apc' # "add"
          /\ apc' = "reuse" => ah' \in WithId
      BY <1>9 DEF AcceptFind
    <2>2. NewIdentity'
      BY <2>1 DEF NewIdentity, WithId
    <2> QED
      BY <2>1, <2>2 DEF IdentityInv, OneHandlerPerClient, OnlyStopStops, Persistent, Stopping
  <1>10. CASE AcceptCreate \/ AcceptClone
    <2>1. PICK persist \in BOOLEAN, id \in {aid, NoClient} :
            /\ NewHandler(persist, id)
            /\ persist => id = aid /\ apc = "create"
            /\ ~persist => id = NoClient
      BY <1>10 DEF AcceptCreate, AcceptClone, TypeOK
    <2>2. /\ UNCHANGED <<handlers, ah, aid, mpc, mh, rpc, rh>> /\ mpc # "hjoin"
          /\ apc \in Fresh /\ apc' = "add"
      BY <1>10 DEF AcceptCreate, AcceptClone, Fresh, ServerInv, LocksHeld, AcceptorLocked, MainLocked
    <2>3. /\ ah \in Handlers
          /\ hpc'[ah] = "read" /\ hrunning'[ah] = TRUE /\ hid'[ah] = id
          /\ hpersist'[ah] = persist
          /\ \A h \in Handlers \ {ah} :
               /\ hpc'[h] = hpc[h] /\ hrunning'[h] = hrunning[h] /\ hid'[h] = hid[h]
               /\ hpersist'[h] = hpersist[h]
      BY <2>1, <2>2, Created
    <2>4. ah \notin handlers
      BY <2>2, <2>3 DEF ServerInv, Registered, Live
    <2>5. handlers \subseteq Handlers \ {ah}
      BY <2>4 DEF TypeOK
    <2>6. OneHandlerPerClient'
      BY <2>2, <2>3, <2>5 DEF IdentityInv, OneHandlerPerClient
    <2>7. OnlyStopStops'
      BY <2>2, <2>3 DEF IdentityInv, OnlyStopStops, Stopping
    <2>8. Persistent'
      <3>1. rpc = "delete" => rh \in handlers
        BY DEF ServerInv, Registered
      <3> QED
        BY <2>1, <2>2, <2>3, <2>5, <3>1 DEF IdentityInv, Persistent, Stopping
    <2>9. NewIdentity'
      BY <2>1, <2>2, <2>3, <2>5 DEF IdentityInv, NewIdentity
    <2> QED
      BY <2>6, <2>7, <2>8, <2>9 DEF IdentityInv
  <1>11. CASE AcceptAdd
    <2>1. /\ UNCHANGED <<hid, hpersist, hrunning, hpc, mpc, mh, rpc, rh>>
          /\ apc = "add" /\ apc' = "poll" /\ handlers' = handlers \union {ah}
      BY <1>11 DEF AcceptAdd, EndOfBody
    <2>2. OneHandlerPerClient'
      BY <2>1 DEF IdentityInv, OneHandlerPerClient, NewIdentity
    <2> QED
      BY <2>1, <2>2 DEF IdentityInv, OnlyStopStops, Persistent, NewIdentity, Stopping
  <1>12. CASE AcceptReuse
    <2>1. /\ UNCHANGED <<handlers, hid, hpersist, hrunning, mpc, mh, rpc, rh>>
          /\ apc = "reuse" /\ apc' = "poll" /\ ah \in Handlers
          /\ hpc[ah] = "asleep" /\ hpc'[ah] = "read"
          /\ \A h \in Handlers \ {ah} : hpc'[h] = hpc[h]
      BY <1>12 DEF AcceptReuse, EndOfBody, TypeInv, TypeOK, AcceptThread
    <2> QED
      BY <2>1 DEF IdentityInv, OneHandlerPerClient, OnlyStopStops, Persistent, NewIdentity, Stopping
  <1>13. CASE ReapStop
    <2>1. /\ UNCHANGED <<handlers, hid, hpersist, hrunning, hpc, apc, ah, aid, mpc, mh>>
          /\ rpc = "scan" /\ rh' \in handlers /\ hpc[rh'] = "ended"
      BY <1>13 DEF ReapStop
    <2>2. ~hpersist[rh'] /\ rh' \in Handlers
      <3>1. mpc # "hjoin"
        BY <2>1 DEF ServerInv, LocksHeld
      <3> QED
        BY <2>1, <3>1 DEF IdentityInv, Persistent, Stopping, TypeOK
    <2> QED
      BY <2>1, <2>2 DEF IdentityInv, OneHandlerPerClient, OnlyStopStops, Persistent, NewIdentity, Stopping
  <1>14. CASE ReapDelete
    <2>1. /\ UNCHANGED <<apc, ah, aid, mpc, mh>> /\ DeleteHandler(rh)
          /\ rpc = "delete" /\ rpc' = "scan" /\ mpc # "hjoin"
      BY <1>14 DEF ReapDelete, ServerInv, LocksHeld
    <2>2. PICK g \in handlers : g = rh /\ g \in Handlers
      BY <2>1 DEF ServerInv, Registered, TypeOK
    <2>3. ~hpersist[g]
      BY <2>1, <2>2 DEF IdentityInv, Persistent
    <2> QED
      BY <2>1, <2>2, <2>3, DeletionKeeps
  <1>15. CASE StopHandler
    <2>1. PICK g \in handlers :
            /\ mh' = g
            /\ hrunning' = [hrunning EXCEPT ![g] = FALSE]
            /\ hpc' = [hpc EXCEPT ![g] = IF @ = "asleep" THEN "read" ELSE @]
      BY <1>15 DEF StopHandler
    <2>2. /\ UNCHANGED <<handlers, hid, hpersist, apc, ah, aid, rpc, rh>>
          /\ mpc = "each" /\ mpc' = "hjoin" /\ g \in Handlers
      BY <1>15, <2>1 DEF StopHandler, TypeOK
    <2>3. \A h \in Handlers \ {g} : hpc'[h] = hpc[h] /\ hrunning'[h] = hrunning[h]
      BY <2>1, <2>2 DEF TypeOK
    <2>4. Stopping(g)' /\ \A h \in Handlers : ~Stopping(h)
      BY <2>1, <2>2 DEF Stopping
    <2> QED
      BY <2>2, <2>3, <2>4 DEF IdentityInv, OneHandlerPerClient, OnlyStopStops, Persistent, NewIdentity
  <1>16. CASE StopDelete
    <2>1. /\ UNCHANGED <<apc, ah, aid, rpc, rh>> /\ DeleteHandler(mh)
          /\ mpc = "hjoin" /\ mpc' = "each"
      BY <1>16 DEF StopDelete
    <2>2. PICK g \in handlers : g = mh /\ g \in Handlers
      BY <2>1 DEF ServerInv, Registered, TypeOK
    <2> QED
      BY <2>1, <2>2, DeletionKeeps
  <1>17. CASE UNCHANGED vars
    BY <1>17, IdentityFrame DEF vars
  <1> QED
    BY <1>1, <1>2, <1>3, <1>4, <1>5, <1>6, <1>7, <1>8, <1>9, <1>10, <1>11, <1>12,
       <1>13, <1>14, <1>15, <1>16, <1>17
    DEF Next, AcceptStep, ReapStep, Calls, MainStep

(***************************************************************************)
(* A client never has two persistent handlers: FindHandlerByID and the add *)
(* that follows it are one step for the queue, although its lock is        *)
(* released in between.                                                    *)
(***************************************************************************)
THEOREM IdentityIsUnique == Spec => []OneHandlerPerClient
  <1>1. IdentityInv => OneHandlerPerClient
    BY DEF IdentityInv
  <1> QED
    BY <1>1, InitServer, ServerKept, InitIdentity, IdentityKept, PTL DEF Spec

(***************************************************************************)
(* The handler the accept thread waits for, without the lock of the queue, *)
(* is not deleted by the reaper meanwhile.                                 *)
(***************************************************************************)
THEOREM FoundIsAlive == Spec => []FoundHandlerIsAlive
  <1>1. TypeInv /\ ServerInv /\ IdentityInv => FoundHandlerIsAlive
    <2> SUFFICES ASSUME TypeInv, ServerInv, IdentityInv, apc = "reuse", aid # NoClient
                 PROVE  ah \in handlers /\ hpc[ah] # "deleted"
      BY DEF FoundHandlerIsAlive
    <2>1. ah \in handlers /\ ah \in Handlers
      BY DEF IdentityInv, NewIdentity, TypeInv, TypeOK
    <2> QED
      BY <2>1 DEF ServerInv, Registered, Live
  <1> QED
    BY <1>1, InitServer, ServerKept, InitIdentity, IdentityKept, PTL DEF Spec

-------------------------------------------------------------------------------
(***************************************************************************)
(* Descriptors                                                             *)
(***************************************************************************)

\* What refers to a living connection after a close() has done so before.
LEMMA ClosedIsNothing ==
  ASSUME TypeOK, NEW f, CloseFd(f)
  PROVE  \A g \in Fds, k \in Conns :
           desc'[g] = Stream(k) /\ link'[k] = "up" =>
             g # f /\ desc[g] = Stream(k) /\ link[k] = "up"
  <1>1. \A k : Nothing # Stream(k)
    BY DEF Nothing, Stream
  <1> QED
    BY <1>1, Closed

\* A step that leaves descriptors, connections and handlers alone.
LEMMA LossFrame ==
  ASSUME LossSeen, running' => running, UNCHANGED <<desc, link, hpc, hsock, afd>>,
         apc' = "add" => UNCHANGED <<apc, ah>>
  PROVE  LossSeen'
  BY DEF LossSeen, Others, Live

\* The descriptor of a new handler stays that of the accept thread.
LEMMA HandedKept ==
  ASSUME TypeInv, ServerInv, Handed, [Next]_vars
  PROVE  Handed'
  <1> SUFFICES ASSUME apc' = "add" PROVE hsock'[ah'] = afd'
    BY DEF Handed
  <1>1. CASE AcceptCreate \/ AcceptClone
    <2>1. /\ \E persist, id : NewHandler(persist, id)
          /\ UNCHANGED <<ah, afd>> /\ apc \in Fresh
      BY <1>1 DEF AcceptCreate, AcceptClone, Fresh
    <2> QED
      BY <2>1, Created
  <1>2. CASE ReapDelete \/ StopDelete
    <2>1. PICK g \in handlers : DeleteHandler(g) /\ UNCHANGED <<apc, ah, afd>>
      BY <1>2 DEF ReapDelete, StopDelete, ServerInv, Registered
    <2>2. ah \in Handlers /\ ah # g /\ g \in Handlers /\ TypeOK
      BY <2>1 DEF TypeInv, TypeOK, AcceptThread, ServerInv, Registered
    <2> QED
      BY <2>1, <2>2, Deleted DEF Handed
  <1>3. CASE Start \/ SetPortStart
    <2>1. UNCHANGED <<ah, afd, hsock>> /\ \E p : StartOn(p)
      BY <1>3 DEF Start, SetPortStart
    <2> QED
      BY <2>1, Started DEF Handed
  <1>4. CASE Network \/ \E h \in Handlers : HandlerStep(h)
    BY <1>4 DEF Handed, Network, Connect, ClientGone, HandlerStep, HandlerLost, HandlerPark,
                HandlerEnd
  <1>5. CASE ReapLoop \/ ReapStop \/ ReapDone
    BY <1>5 DEF Handed, ReapLoop, ReapStop, ReapDone
  <1>6. CASE Stop \/ SetPersistance \/ \E p \in Ports : SetPort(p)
    BY <1>6 DEF Handed, Stop, SetPersistance, SetPort
  <1>7. CASE StopLock \/ StopThread \/ StopJoin \/ StopAll \/ StopHandler
    BY <1>7 DEF Handed, StopLock, StopThread, StopJoin, StopAll, StopHandler
  <1>8. CASE StopAllDone \/ StopReaper \/ StopReaperJoin \/ StopClose
    BY <1>8 DEF Handed, StopAllDone, StopReaper, StopReaperJoin, StopClose
  <1>9. CASE UNCHANGED vars
    BY <1>9 DEF vars, Handed
  <1>10. ~(AcceptPoll \/ Accept \/ AcceptCheck \/ AcceptLock \/ AcceptFind)
    BY DEF AcceptPoll, Accept, AcceptCheck, AcceptLock, AcceptFind
  <1>11. ~(AcceptAdd \/ AcceptReuse \/ AcceptExit)
    BY DEF AcceptAdd, AcceptReuse, AcceptExit, EndOfBody
  <1> QED
    BY <1>1, <1>2, <1>3, <1>4, <1>5, <1>6, <1>7, <1>8, <1>9, <1>10, <1>11
    DEF Next, AcceptStep, ReapStep, Calls, MainStep

\* The end of a connection that a handler has seen stays so.
LEMMA LossKept ==
  ASSUME TypeInv, ServerInv, ServerInv', IdentityInv, LossSeen, Handed, [Next]_vars
  PROVE  LossSeen'
  <1> TypeOK
    BY DEF TypeInv
  <1> DEFINE Seen == {"lost", "asleep", "ended"}
  <1>1. CASE Network
    <2>1. ASSUME NEW k \in Conns, NEW c \in Clients, NEW p \in Ports, Connect(k, c, p)
          PROVE  LossSeen'
      <3>1. /\ UNCHANGED <<running, desc, hpc, hsock, afd, apc, ah>> /\ link[k] = "none"
            /\ \A j \in Conns \ {k} : link'[j] = link[j]
        BY <2>1 DEF Connect, TypeOK
      <3>2. \A f \in Fds : desc[f] # Stream(k)
        BY <3>1 DEF ServerInv, NewConnections
      <3> QED
        BY <3>1, <3>2 DEF LossSeen, Others, Live
    <2>2. ASSUME NEW k \in Conns, ClientGone(k) PROVE LossSeen'
      <3>1. /\ UNCHANGED <<running, desc, hpc, hsock, afd, apc, ah>>
            /\ \A j \in Conns : link'[j] = "up" => link[j] = "up"
        BY <2>2 DEF ClientGone, TypeOK
      <3> QED
        BY <3>1 DEF LossSeen, Others, Live
    <2> QED
      BY <1>1, <2>1, <2>2 DEF Network
  <1>2. CASE \E h \in Handlers : HandlerStep(h)
    <2>1. PICK h \in Handlers : HandlerStep(h)
      BY <1>2
    <2>2. /\ hpc[h] \in {"read", "lost"} /\ hpc'[h] \in Seen
          /\ \A g \in Handlers \ {h} : hpc'[g] = hpc[g]
          /\ UNCHANGED <<desc, link, apc, ah, afd, mpc>>
      BY <2>1, HandlerStepLive
    <2>3. UNCHANGED <<running, hsock>>
      BY <2>1 DEF HandlerStep, HandlerLost, HandlerPark, HandlerEnd
    <2>4. \A g \in Handlers : (Live(g)' <=> Live(g)) /\ (Others(g)' <=> Others(g))
      BY <2>2, <2>3 DEF Live, Others
    <2>5. ASSUME running', NEW k \in Conns,
                 hsock[h] \in Fds, desc[hsock[h]] = Stream(k), link[k] = "up"
          PROVE  Others(h)
      <3>1. CASE hpc[h] = "lost"
        BY <2>3, <2>5, <3>1 DEF LossSeen
      <3>2. CASE hpc[h] = "read"
        <4>1. hrunning[h]
          <5>1. running
            BY <2>3, <2>5
          <5>2. mpc # "hjoin"
            BY <5>1 DEF ServerInv, ThreadsJoined, Joined
          <5> QED
            BY <3>2, <5>2 DEF IdentityInv, OnlyStopStops, Stopping
        <4>2. HandlerLost(h)
          BY <2>1, <3>2, <4>1 DEF HandlerStep, HandlerPark, HandlerEnd
        <4>3. desc[hsock[h]].conn = k
          BY <2>5 DEF Stream
        <4> QED
          BY <2>5, <4>2, <4>3 DEF HandlerLost
      <3> QED
        BY <2>2, <3>1, <3>2
    <2> QED
      BY <2>2, <2>3, <2>4, <2>5 DEF LossSeen
  <1>3. CASE AcceptPoll \/ AcceptCheck \/ AcceptLock \/ AcceptFind \/ AcceptExit
    <2>1. /\ UNCHANGED <<desc, link, hpc, hsock>> /\ apc' # "add"
          /\ running' => running /\ afd' = afd
      BY <1>3 DEF AcceptPoll, AcceptCheck, AcceptLock, AcceptFind, AcceptExit
    <2> QED
      BY <2>1 DEF LossSeen, Others, Live
  <1>4. CASE Accept
    <2>1. CASE UNCHANGED <<desc, afd>>
      <3>1. UNCHANGED <<running, link, hpc, hsock>> /\ apc' # "add"
        BY <1>4 DEF Accept
      <3> QED
        BY <2>1, <3>1, LossFrame
    <2>2. CASE /\ FreeFds # {} /\ afd' = LowestFd
               /\ \E k \in Incoming : desc' = [desc EXCEPT ![LowestFd] = Stream(k)]
      <3>1. /\ UNCHANGED <<running, link, hpc, hsock>> /\ apc' # "add" /\ apc = "accept"
        BY <1>4 DEF Accept
      <3>2. PICK f \in Fds : f = LowestFd
        BY <2>2, LowestIsFree
      <3>3. afd' = f /\ \A g \in Fds \ {f} : desc'[g] = desc[g]
        BY <2>2, <3>2 DEF TypeOK
      <3>4. afd \notin Fds
        BY <3>1, ServerAssumption DEF TypeInv, AcceptThread, Fresh, NoFd
      <3> QED
        BY <3>1, <3>3, <3>4 DEF LossSeen, Others, Live
    <2> QED
      BY <1>4, <2>1, <2>2 DEF Accept
  <1>5. CASE AcceptCreate \/ AcceptClone
    <2>1. /\ \E persist, id : NewHandler(persist, id)
          /\ UNCHANGED <<running, desc, link, ah, afd>>
          /\ apc \in Fresh /\ apc' = "add"
      BY <1>5 DEF AcceptCreate, AcceptClone, Fresh
    <2>2. /\ ah \in Handlers /\ hpc[ah] = "none" /\ hpc'[ah] = "read" /\ hsock'[ah] = afd
          /\ \A h \in Handlers \ {ah} : hpc'[h] = hpc[h] /\ hsock'[h] = hsock[h]
      BY <2>1, Created DEF ServerInv, Registered
    <2> QED
      BY <2>1, <2>2 DEF LossSeen, Others, Live
  <1>6. CASE AcceptAdd
    <2>1. /\ UNCHANGED <<running, desc, link, hpc, hsock>>
          /\ apc = "add" /\ apc' = "poll" /\ hsock[ah] = afd
      BY <1>6 DEF AcceptAdd, EndOfBody, Handed
    <2>2. ah \in Handlers /\ Live(ah)
      BY <2>1 DEF TypeInv, AcceptThread, ServerInv, Registered
    <2> QED
      BY <2>1, <2>2 DEF LossSeen, Others, Live
  <1>7. CASE AcceptReuse
    <2>1. PICK f : f = hsock[ah] /\ CloseFd(f)
      BY <1>7 DEF AcceptReuse
    <2>2. /\ running' = running /\ apc' = "poll" /\ ah \in Handlers
          /\ hpc[ah] = "asleep" /\ hpc'[ah] = "read" /\ hsock'[ah] = afd
          /\ \A h \in Handlers \ {ah} : hpc'[h] = hpc[h] /\ hsock'[h] = hsock[h]
      BY <1>7 DEF AcceptReuse, EndOfBody, TypeInv, TypeOK, AcceptThread
    <2>3. /\ \A g \in Fds, k \in Conns :
               desc'[g] = Stream(k) /\ link'[k] = "up" =>
                 g # f /\ desc[g] = Stream(k) /\ link[k] = "up"
      BY <2>1, ClosedIsNothing
    <2> QED
      BY <2>1, <2>2, <2>3 DEF LossSeen, Others, Live
  <1>8. CASE ReapLoop \/ ReapDone
    BY <1>8, LossFrame DEF ReapLoop, ReapDone
  <1>9. CASE ReapStop
    <2>1. /\ UNCHANGED <<running, hpc, hsock, apc, ah, afd>> /\ \E f : CloseFd(f)
      BY <1>9 DEF ReapStop
    <2>2. \A g \in Fds, k \in Conns :
            desc'[g] = Stream(k) /\ link'[k] = "up" => desc[g] = Stream(k) /\ link[k] = "up"
      BY <2>1, ClosedIsNothing
    <2> QED
      BY <2>1, <2>2 DEF LossSeen, Others, Live
  <1>10. CASE ReapDelete
    <2>1. PICK d \in handlers, f \in Fds \cup {NoFd} :
            /\ d \in Handlers /\ f = hsock[d] /\ CloseFd(f)
            /\ DeleteHandler(d) /\ UNCHANGED <<running, apc, ah, afd>>
      BY <1>10 DEF ReapDelete, ServerInv, Registered, TypeOK
    <2>2. /\ hpc'[d] = "deleted"
          /\ \A h \in Handlers \ {d} : hpc'[h] = hpc[h] /\ hsock'[h] = hsock[h]
      BY <2>1, Deleted
    <2>3. /\ \A g \in Fds, k \in Conns :
               desc'[g] = Stream(k) /\ link'[k] = "up" =>
                 g # f /\ desc[g] = Stream(k) /\ link[k] = "up"
      BY <2>1, ClosedIsNothing
    <2> QED
      BY <2>1, <2>2, <2>3 DEF LossSeen, Others, Live
  <1>11. CASE Start \/ SetPortStart
    <2>1. PICK p : StartOn(p)
      BY <1>11 DEF Start, SetPortStart
    <2>2. UNCHANGED <<link, hpc, hsock, ah, afd>> /\ mpc \in {"idle", "restart"}
      BY <1>11 DEF Start, SetPortStart, Call
    <2>3. CASE stopped
      <3>1. handlers = {} /\ apc = "none"
        BY <2>2, <2>3 DEF ServerInv, ThreadsJoined, TypeInv, AcceptThread
      <3>2. \A h \in Handlers : ~Live(h)
        BY <3>1 DEF ServerInv, Registered
      <3> QED
        BY <2>2, <3>2 DEF LossSeen, Live
    <2>4. CASE ~stopped
      <3>1. UNCHANGED <<running, apc>>
        BY <2>1, <2>4, Started
      <3>2. \A k : Listening(p) # Stream(k)
        BY DEF Listening, Stream
      <3>3. desc' = desc \/ desc' = [desc EXCEPT ![LowestFd] = Listening(p)]
        BY <2>1 DEF StartOn
      <3>4. \A f \in Fds, k \in Conns : desc'[f] = Stream(k) => desc[f] = Stream(k)
        BY <3>2, <3>3 DEF TypeOK
      <3> QED
        BY <2>2, <3>1, <3>4 DEF LossSeen, Others, Live
    <2> QED
      BY <2>3, <2>4
  <1>12. CASE Stop \/ SetPersistance \/ \E p \in Ports : SetPort(p)
    BY <1>12, LossFrame DEF Stop, SetPersistance, SetPort
  <1>13. CASE StopLock
    <2>1. UNCHANGED <<running, link, hpc, hsock, apc, ah, afd>>
      BY <1>13 DEF StopLock
    <2>2. \A f \in Fds, k \in Conns : desc'[f] = Stream(k) => desc[f] = Stream(k)
      BY <1>13 DEF StopLock, TypeOK, Stream, Shut
    <2> QED
      BY <2>1, <2>2 DEF LossSeen, Others, Live
  <1>14. CASE StopThread \/ StopJoin \/ StopAll \/ StopHandler \/ StopDelete
    <2>1. mpc' \in Joined \union {"join"}
      BY <1>14 DEF StopThread, StopJoin, StopAll, StopHandler, StopDelete, Joined
    <2> QED
      BY <2>1 DEF ServerInv, ThreadsJoined, LossSeen
  <1>15. CASE StopAllDone \/ StopReaper \/ StopReaperJoin \/ StopClose
    <2>1. mpc \in Joined /\ running' = running
      BY <1>15 DEF StopAllDone, StopReaper, StopReaperJoin, StopClose, Joined
    <2> QED
      BY <2>1 DEF ServerInv, ThreadsJoined, LossSeen
  <1>16. CASE UNCHANGED vars
    BY <1>16, LossFrame DEF vars
  <1> QED
    BY <1>1, <1>2, <1>3, <1>4, <1>5, <1>6, <1>7, <1>8, <1>9, <1>10, <1>11, <1>12,
       <1>13, <1>14, <1>15, <1>16
    DEF Next, AcceptStep, ReapStep, Calls, MainStep

\* Nobody revives the handler that the reaper is about to delete.
LEMMA EndedKept ==
  ASSUME TypeInv, ServerInv, EndedFirst, [Next]_vars
  PROVE  EndedFirst'
  <1> TypeOK
    BY DEF TypeInv
  <1> SUFFICES ASSUME rpc' = "delete" PROVE hpc'[rh'] = "ended"
    BY DEF EndedFirst
  <1>1. rpc = "delete" => rh \in handlers /\ rh \in Handlers /\ mpc \notin {"each", "hjoin"}
    BY DEF ServerInv, Registered, LocksHeld, TypeOK
  <1>2. CASE Network
    BY <1>2 DEF EndedFirst, Network, Connect, ClientGone
  <1>3. CASE \E h \in Handlers : HandlerStep(h)
    <2>1. PICK h \in Handlers : HandlerStep(h)
      BY <1>3
    <2> QED
      BY <1>1, <2>1, HandlerStepLive DEF EndedFirst
  <1>4. CASE AcceptPoll \/ Accept \/ AcceptCheck \/ AcceptLock \/ AcceptFind
    BY <1>4 DEF EndedFirst, AcceptPoll, Accept, AcceptCheck, AcceptLock, AcceptFind
  <1>5. CASE AcceptAdd \/ AcceptExit
    BY <1>5 DEF EndedFirst, AcceptAdd, AcceptExit
  <1>6. CASE AcceptCreate \/ AcceptClone
    <2>1. /\ \E persist, id : NewHandler(persist, id)
          /\ UNCHANGED <<rpc, rh>> /\ apc \in Fresh
      BY <1>6 DEF AcceptCreate, AcceptClone, Fresh
    <2>2. hpc[ah] = "none" /\ \A h \in Handlers \ {ah} : hpc'[h] = hpc[h]
      BY <2>1, Created DEF ServerInv, Registered
    <2> QED
      BY <1>1, <2>1, <2>2 DEF EndedFirst
  <1>7. CASE AcceptReuse
    <2>1. /\ UNCHANGED <<rpc, rh>> /\ hpc[ah] = "asleep"
          /\ \A h \in Handlers \ {ah} : hpc'[h] = hpc[h]
      BY <1>7 DEF AcceptReuse, TypeOK
    <2> QED
      BY <1>1, <2>1 DEF EndedFirst
  <1>8. CASE ReapStop
    BY <1>8 DEF ReapStop
  <1>9. CASE Start \/ SetPortStart
    <2>1. UNCHANGED <<hpc, rh>> /\ \E p : StartOn(p)
      BY <1>9 DEF Start, SetPortStart
    <2> QED
      BY <2>1, Started DEF EndedFirst
  <1>10. CASE Stop \/ SetPersistance \/ \E p \in Ports : SetPort(p)
    BY <1>10 DEF EndedFirst, Stop, SetPersistance, SetPort
  <1>11. CASE StopLock \/ StopThread \/ StopJoin \/ StopAll
    BY <1>11 DEF EndedFirst, StopLock, StopThread, StopJoin, StopAll
  <1>12. CASE StopAllDone \/ StopReaper \/ StopReaperJoin \/ StopClose
    BY <1>12 DEF EndedFirst, StopAllDone, StopReaper, StopReaperJoin, StopClose
  <1>13. ~(StopHandler \/ StopDelete)
    <2>1. StopHandler \/ StopDelete => mpc \in {"each", "hjoin"} /\ rpc' = rpc
      BY DEF StopHandler, StopDelete
    <2> QED
      BY <1>1, <2>1
  <1>14. ~(ReapLoop \/ ReapDelete \/ ReapDone)
    BY DEF ReapLoop, ReapDelete, ReapDone
  <1>15. CASE UNCHANGED vars
    BY <1>15 DEF vars, EndedFirst
  <1> QED
    BY <1>2, <1>3, <1>4, <1>5, <1>6, <1>7, <1>8, <1>9, <1>10, <1>11, <1>12, <1>13,
       <1>14, <1>15
    DEF Next, AcceptStep, ReapStep, Calls, MainStep

(***************************************************************************)
(* The server cuts off a client only through a descriptor it does not own  *)
(* any more: a handler closes its own descriptor, in SetSocket(), in       *)
(* Stop() or in its destructor, after it has seen the end of the           *)
(* connection, which cannot come back to life.                             *)
(***************************************************************************)
THEOREM NoClientIsCutOff == Spec => ClientsKept
  <1> DEFINE Inv == TypeInv /\ ServerInv /\ IdentityInv /\ LossSeen /\ Handed /\ EndedFirst
             Kept == \A k \in Conns :
                       mpc \in {"idle", "lock"} /\ link[k] = "up" /\ link'[k] = "over"
                         => clobbered'
  <1>1. Init => Inv
    <2>1. Init => LossSeen /\ Handed /\ EndedFirst
      BY DEF Init, LossSeen, Handed, EndedFirst
    <2> QED
      BY <2>1, InitServer, InitIdentity
  <1>2. Inv /\ [Next]_vars => Inv'
    BY ServerKept, IdentityKept, LossKept, HandedKept, EndedKept
  <1>3. ASSUME Inv, [Next]_vars PROVE [Kept]_vars
    <2> SUFFICES ASSUME NEW k \in Conns, mpc \in {"idle", "lock"},
                        link[k] = "up", link'[k] = "over"
                 PROVE  clobbered'
      OBVIOUS
    <2> TypeOK
      BY <1>3 DEF TypeInv
    <2>1. ASSUME NEW h \in Handlers, hpc[h] \in {"asleep", "ended"}, running, CloseFd(hsock[h])
          PROVE  NotOwn(h)
      <3>1. IsListener(hsock[h]) \/ (hsock[h] \in Fds /\ desc[hsock[h]] = Stream(k))
        BY <2>1, Closed
      <3>2. CASE IsListener(hsock[h])
        BY <3>2 DEF NotOwn
      <3>3. CASE hsock[h] \in Fds /\ desc[hsock[h]] = Stream(k)
        <4>1. Others(h)
          BY <1>3, <2>1, <3>3 DEF LossSeen
        <4>2. IsStream(hsock[h])
          BY <3>3 DEF IsStream, Stream
        <4> QED
          BY <4>1, <4>2 DEF Others, Live, NotOwn
      <3> QED
        BY <3>1, <3>2, <3>3
    <2>2. apc = "reuse" \/ handlers # {} => running
      BY <1>3 DEF ServerInv, ThreadsJoined, TypeInv, AcceptThread
    <2>3. CASE AcceptReuse
      <3>1. ah \in Handlers
        BY <1>3, <2>3 DEF AcceptReuse, TypeInv, AcceptThread
      <3>2. NotOwn(ah)
        BY <2>1, <2>2, <2>3, <3>1 DEF AcceptReuse
      <3> QED
        BY <2>3, <3>2 DEF AcceptReuse
    <2>4. CASE ReapStop
      <3>1. PICK h \in handlers : /\ hpc[h] = "ended" /\ CloseFd(hsock[h])
                                  /\ clobbered' = (clobbered \/ NotOwn(h))
        BY <2>4 DEF ReapStop
      <3>2. h \in Handlers
        BY DEF TypeOK
      <3>3. NotOwn(h)
        BY <2>1, <2>2, <3>1, <3>2
      <3> QED
        BY <3>1, <3>3
    <2>5. CASE ReapDelete
      <3>1. rpc = "delete" /\ CloseFd(hsock[rh]) /\ clobbered' = (clobbered \/ NotOwn(rh))
        BY <2>5 DEF ReapDelete
      <3>2. rh \in handlers /\ rh \in Handlers /\ hpc[rh] = "ended"
        BY <1>3, <3>1 DEF ServerInv, Registered, EndedFirst, TypeOK
      <3>3. NotOwn(rh)
        BY <2>1, <2>2, <3>1, <3>2
      <3> QED
        BY <3>1, <3>3
    <2>6. ~Network
      <3>1. ASSUME NEW j \in Conns, NEW c, NEW p, Connect(j, c, p) PROVE FALSE
        BY <3>1 DEF Connect, TypeOK
      <3>2. ASSUME NEW j \in Conns, ClientGone(j) PROVE FALSE
        BY <3>2 DEF ClientGone, TypeOK
      <3> QED
        BY <3>1, <3>2 DEF Network
    <2>7. ~(\E h \in Handlers : HandlerStep(h))
      BY DEF HandlerStep, HandlerLost, HandlerPark, HandlerEnd
    <2>8. ~(AcceptPoll \/ Accept \/ AcceptCheck \/ AcceptLock \/ AcceptFind)
      BY DEF AcceptPoll, Accept, AcceptCheck, AcceptLock, AcceptFind
    <2>9. ~(AcceptCreate \/ AcceptClone \/ AcceptAdd \/ AcceptExit \/ ReapLoop \/ ReapDone)
      BY DEF AcceptCreate, AcceptClone, AcceptAdd, AcceptExit, ReapLoop, ReapDone
    <2>10. ~Calls
      BY DEF Calls, Start, Stop, SetPersistance, SetPort
    <2>11. ~MainStep
      BY DEF MainStep, StopLock, StopThread, StopJoin, StopAll, StopHandler, StopDelete,
             StopAllDone, StopReaper, StopReaperJoin, StopClose, SetPortStart
    <2>12. ~UNCHANGED vars
      BY DEF vars
    <2> QED
      BY <1>3, <2>3, <2>4, <2>5, <2>6, <2>7, <2>8, <2>9, <2>10, <2>11, <2>12
      DEF Next, AcceptStep, ReapStep
  <1> QED
    BY <1>1, <1>2, <1>3, PTL DEF Spec, ClientsKept

===============================================================================

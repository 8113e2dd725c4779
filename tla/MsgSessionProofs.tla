--------------------------- MODULE MsgSessionProofs ---------------------------
(***************************************************************************)
(* Proofs about MsgSession, for every number of callers, addresses,        *)
(* requests and connections.                                               *)
(***************************************************************************)
EXTENDS MsgSession, TLAPS

USE DEF connVars, threadVars, heapVars, callVars, workVars, netVars, histVars

\* The sets of labels, spelled out.
LEMMA Labels ==
  /\ CallerLabels = {"idle", "t_add", "t_send", "t_write", "t_fail", "t_wait",
                     "t_erase", "o_conn", "o_connect", "o_start", "o_started",
                     "x_abort", "x_stop", "x_join", "x_close", "l_check",
                     "l_set", "l_abort", "l_close", "l_callback"}
  /\ WorkerLabels = {"none", "startup", "loop", "read", "recv", "after", "find",
                     "copy", "signal", "notify", "clear", "exit", "exited",
                     "l_check", "l_set", "l_abort", "l_close", "l_callback"}
  BY DEF CallerLabels, WorkerLabels, Transmitting, Opening, Closing, Losing,
         Working

\* A group of variables that does not change keeps its type.
LEMMA Untouched ==
  ASSUME TypeOK
  PROVE  /\ UNCHANGED connVars => ConnTypeOK'
         /\ UNCHANGED <<threadVars, mutexTransmit>> => ThreadTypeOK'
         /\ UNCHANGED heapVars => HeapTypeOK'
         /\ UNCHANGED pc => PcTypeOK'
         /\ UNCHANGED <<fd, callVars, workVars>> => LocalTypeOK'
         /\ UNCHANGED <<globalUID, netVars>> => NetTypeOK'
         /\ UNCHANGED histVars => HistTypeOK'
  BY DEF TypeOK, ConnTypeOK, ThreadTypeOK, HeapTypeOK, PcTypeOK, LocalTypeOK,
         NetTypeOK, HistTypeOK

\* Moving one caller, or the worker, to one of its labels keeps pc typed.
LEMMA GotoTyped ==
  ASSUME TypeOK
  PROVE  /\ \A c \in Callers, l \in CallerLabels : Goto(c, l) => PcTypeOK'
         /\ \A l \in WorkerLabels : Goto(Worker, l) => PcTypeOK'
         /\ \A c \in Callers, l \in CallerLabels, m \in WorkerLabels :
              pc' = [pc EXCEPT ![c] = l, ![Worker] = m] => PcTypeOK'
  BY ThreadAssumption DEF TypeOK, PcTypeOK, Goto, Threads

\* An empty receive buffer is a receive buffer.
LEMMA EmptyWire == <<>> \in Seq(Packets)
  OBVIOUS

\* The initial values have their types.
LEMMA InitTyped == Init => TypeOK
  <1> SUFFICES ASSUME Init PROVE TypeOK
    OBVIOUS
  <1>1. PcTypeOK
    BY Labels, ThreadAssumption DEF Init, PcTypeOK, Threads
  <1>2. ConnTypeOK /\ ThreadTypeOK /\ HistTypeOK
    BY DEF Init, ConnTypeOK, ThreadTypeOK, HistTypeOK
  <1>3. HeapTypeOK /\ LocalTypeOK
    BY DEF Init, HeapTypeOK, LocalTypeOK
  <1>4. NetTypeOK
    <2>1. globalUID \in 0 .. MaxUid /\ conns \in 0 .. MaxConn
      BY BoundAssumption DEF Init
    <2> QED
      BY <2>1, EmptyWire DEF Init, NetTypeOK
  <1> QED
    BY <1>1, <1>2, <1>3, <1>4 DEF TypeOK

\* Leaving a call keeps pc and the transmit mutex typed.
LEMMA ReturnTyped ==
  ASSUME TypeOK, NEW c \in Callers, Return(c)
  PROVE  /\ PcTypeOK'
         /\ mutexTransmit' \in Callers \cup {NoThread}
  BY GotoTyped, Labels DEF Return, TypeOK, ThreadTypeOK

\* The steps of SetConnectionLost keep the types, whichever thread runs it.
LEMMA LossTyped ==
  ASSUME TypeOK, NEW t \in Threads, SetConnectionLost(t)
  PROVE  TypeOK'
  <1> USE Untouched
  <1>1. PcTypeOK'
    BY GotoTyped, Labels, ThreadAssumption
    DEF SetConnectionLost, LostCheck, LostSet, LostAbort, LostClose,
        LostCallback, AfterLoss, Threads
  <1>2. CASE LostCheck(t) \/ LostCallback(t)
    BY <1>1, <1>2 DEF TypeOK, LostCheck, LostCallback
  <1>3. CASE LostSet(t)
    BY <1>1, <1>3 DEF TypeOK, ConnTypeOK, LostSet
  <1>4. CASE LostAbort(t)
    BY <1>1, <1>4 DEF TypeOK, ConnTypeOK, NetTypeOK, LostAbort, Abort, IsOpen
  <1>5. CASE LostClose(t)
    <2>1. ConnTypeOK'
      BY <1>5 DEF TypeOK, ConnTypeOK, LostClose, ConnectionClose
    <2>2. NetTypeOK'
      BY <1>5, EmptyWire DEF TypeOK, NetTypeOK, LostClose, ConnectionClose
    <2> QED
      BY <1>1, <1>5, <2>1, <2>2 DEF TypeOK, LostClose
  <1> QED
    BY <1>2, <1>3, <1>4, <1>5 DEF SetConnectionLost

\* Every step of an application thread keeps the types.
LEMMA CallerTyped ==
  ASSUME TypeOK, NEW c \in Callers, CallerStarts(c) \/ CallerStep(c)
  PROVE  TypeOK'
  <1> USE Untouched, GotoTyped, ReturnTyped, Labels
  <1>1. CASE Open(c) \/ Close(c) \/ Terminate(c)
    BY <1>1 DEF TypeOK, ThreadTypeOK, Open, Close, Terminate, LockTransmit
  <1>2. CASE TransmitMessage(c)
    <2>1. globalUID' \in 0 .. MaxUid /\ globalUID + 1 \in Uids
      BY <1>2, BoundAssumption DEF TypeOK, NetTypeOK, TransmitMessage, Uids
    <2>2. NetTypeOK'
      BY <1>2, <2>1 DEF TypeOK, NetTypeOK, TransmitMessage
    <2> QED
      BY <1>2, <2>1, <2>2 DEF TypeOK, ThreadTypeOK, LocalTypeOK, TransmitMessage
  <1>3. CASE OpenConnection(c)
    BY <1>3 DEF TypeOK, ConnTypeOK, ThreadTypeOK, OpenConnection
  <1>4. CASE OpenUnreachable(c)
    BY <1>4 DEF TypeOK, ConnTypeOK, ThreadTypeOK, OpenUnreachable
  <1>5. CASE OpenConnected(c)
    <2>1. conns' \in 0 .. MaxConn /\ socket' \in Conns
      BY <1>5, BoundAssumption DEF TypeOK, NetTypeOK, OpenConnected, Conns
    <2>2. NetTypeOK'
      BY <1>5, <2>1, EmptyWire DEF TypeOK, NetTypeOK, OpenConnected
    <2>3. ConnTypeOK'
      BY <1>5, <2>1 DEF TypeOK, ConnTypeOK, OpenConnected
    <2> QED
      BY <1>5, <2>2, <2>3 DEF TypeOK, OpenConnected
  <1>6. CASE OpenStart(c)
    BY <1>6 DEF TypeOK, ThreadTypeOK, OpenStart
  <1>7. CASE OpenStarted(c)
    BY <1>7 DEF TypeOK, ThreadTypeOK, ConnTypeOK, HistTypeOK, OpenStarted
  <1>8. CASE CloseAbort(c)
    BY <1>8 DEF TypeOK, ConnTypeOK, NetTypeOK, CloseAbort, Abort, IsOpen
  <1>9. CASE CloseStop(c)
    BY <1>9 DEF TypeOK, ThreadTypeOK, CloseStop
  <1>10. CASE CloseJoin(c)
    BY <1>10 DEF TypeOK, ThreadTypeOK, CloseJoin
  <1>11. CASE CloseConnection(c)
    <2>1. ConnTypeOK'
      BY <1>11 DEF TypeOK, ConnTypeOK, CloseConnection, ConnectionClose
    <2>2. NetTypeOK'
      BY <1>11, EmptyWire DEF TypeOK, NetTypeOK, CloseConnection, ConnectionClose
    <2> QED
      BY <1>11, <2>1, <2>2 DEF TypeOK, ThreadTypeOK, CloseConnection
  <1>12. CASE TransmitAdd(c)
    <2>1. HeapTypeOK'
      <3>1. PICK a \in Addrs :
              /\ live' = live \cup {a}
              /\ signaled' = [signaled EXCEPT ![a] = FALSE]
              /\ packet' = [packet EXCEPT ![a] = NoPacket]
              /\ queue' = [queue EXCEPT ![uid[c]] = a]
        BY <1>12 DEF TransmitAdd
      <3> QED
        BY <3>1 DEF TypeOK, HeapTypeOK
    <2>2. LocalTypeOK'
      BY <1>12 DEF TypeOK, LocalTypeOK, TransmitAdd
    <2> QED
      BY <1>12, <2>1, <2>2 DEF TypeOK, TransmitAdd
  <1>13. CASE TransmitSend(c)
    BY <1>13 DEF TypeOK, ConnTypeOK, LocalTypeOK, TransmitSend, Threads
  <1>14. CASE TransmitWrite(c)
    <2>1. uid[c] \in Packets
      BY DEF TypeOK, LocalTypeOK, Packets, Notification
    <2> QED
      BY <1>14, <2>1 DEF TypeOK, NetTypeOK, TransmitWrite
  <1>15. CASE TransmitFail(c) \/ TransmitErase(c)
    <2>1. LocalTypeOK'
      BY <1>15 DEF TypeOK, LocalTypeOK, TransmitFail, TransmitErase,
                   EraseAndDelete
    <2> QED
      BY <1>15, <2>1
      DEF TypeOK, ThreadTypeOK, HeapTypeOK, HistTypeOK, TransmitFail,
          TransmitErase, EraseAndDelete
  <1>16. CASE TransmitWait(c)
    BY <1>16 DEF TypeOK, HeapTypeOK, LocalTypeOK, TransmitWait
  <1>17. CASE SetConnectionLost(c)
    BY <1>17, LossTyped DEF Threads
  <1> QED
    BY <1>1, <1>2, <1>3, <1>4, <1>5, <1>6, <1>7, <1>8, <1>9, <1>10, <1>11,
       <1>12, <1>13, <1>14, <1>15, <1>16, <1>17 DEF CallerStarts, CallerStep

\* Every step of the worker keeps the types.
LEMMA WorkerTyped ==
  ASSUME TypeOK, WorkerStep
  PROVE  TypeOK'
  <1> USE Untouched, GotoTyped, Labels
  <1>1. CASE WorkerStartup \/ WorkerExit
    BY <1>1 DEF TypeOK, ThreadTypeOK, WorkerStartup, WorkerExit
  <1>2. CASE WorkerLoop \/ WorkerAfterRead \/ WorkerNotify
    <2>1. LocalTypeOK'
      BY <1>2 DEF TypeOK, LocalTypeOK, WorkerLoop, WorkerAfterRead, WorkerNotify
    <2> QED
      BY <1>2, <2>1 DEF TypeOK, WorkerLoop, WorkerAfterRead, WorkerNotify
  <1>3. CASE WorkerRead
    BY <1>3 DEF TypeOK, ConnTypeOK, LocalTypeOK, WorkerRead, Threads
  <1>4. CASE WorkerReceive \/ WorkerGarbled
    <2>1. wire # <<>> => Head(wire) \in Packets /\ Tail(wire) \in Seq(Packets)
      BY DEF TypeOK, NetTypeOK
    <2> QED
      BY <1>4, <2>1 DEF TypeOK, LocalTypeOK, NetTypeOK, WorkerReceive,
                        WorkerGarbled
  <1>5. CASE WorkerNothing \/ WorkerClosed
    BY <1>5 DEF TypeOK, WorkerNothing, WorkerClosed
  <1>6. CASE WorkerFind
    BY <1>6 DEF TypeOK, HeapTypeOK, LocalTypeOK, WorkerFind, Found
  <1>7. CASE WorkerCopy
    BY <1>7 DEF TypeOK, HeapTypeOK, LocalTypeOK, WorkerCopy
  <1>8. CASE WorkerSignal
    BY <1>8 DEF TypeOK, HeapTypeOK, LocalTypeOK, WorkerSignal
  <1>9. CASE WorkerClear
    BY <1>9 DEF TypeOK, HeapTypeOK, WorkerClear
  <1>10. CASE SetConnectionLost(Worker)
    BY <1>10, LossTyped DEF Threads
  <1> QED
    BY <1>1, <1>2, <1>3, <1>4, <1>5, <1>6, <1>7, <1>8, <1>9, <1>10
    DEF WorkerStep

\* Every step of the server keeps the types.
LEMMA ServerTyped ==
  ASSUME TypeOK, Server
  PROVE  TypeOK'
  <1> USE Untouched
  <1>1. \A p \in Packets : Append(wire, p) \in Seq(Packets)
    BY DEF TypeOK, NetTypeOK
  <1>2. CASE ServerRespond
    BY <1>1, <1>2 DEF TypeOK, NetTypeOK, ServerRespond
  <1>3. CASE ServerNotify
    BY <1>1, <1>3 DEF TypeOK, NetTypeOK, ServerNotify, Packets
  <1>4. CASE ServerGone
    BY <1>4 DEF TypeOK, NetTypeOK, ServerGone
  <1> QED
    BY <1>2, <1>3, <1>4 DEF Server

(***************************************************************************)
(* Every variable of the session keeps its type; in particular callers and *)
(* the worker stay in the code that is theirs, UIDs and connection numbers *)
(* stay within their bounds.                                               *)
(***************************************************************************)
THEOREM TypeCorrect == Spec => []TypeOK
  <1>1. TypeOK /\ [Next]_vars => TypeOK'
    <2> SUFFICES ASSUME TypeOK, [Next]_vars PROVE TypeOK'
      OBVIOUS
    <2>1. CASE UNCHANGED vars
      BY <2>1, Untouched DEF TypeOK, vars
    <2> QED
      BY <2>1, CallerTyped, WorkerTyped, ServerTyped DEF Next
  <1> QED
    BY InitTyped, <1>1, PTL DEF Spec

-------------------------------------------------------------------------------
(***************************************************************************)
(* Delivery of responses                                                   *)
(***************************************************************************)

\* A step of one caller that is in the lock's code only if it was before, or
\* has just got the lock, or gives it back, keeps TransmitLocked.
LEMMA LockedCaller ==
  ASSUME TypeOK, TransmitLocked, NEW c \in Callers,
         \/ \E l \in CallerLabels :
              /\ \/ Goto(c, l)
                 \/ \E m \in WorkerLabels :
                      pc' = [pc EXCEPT ![c] = l, ![Worker] = m]
              /\ \/ UNCHANGED mutexTransmit /\ (l \in Locked => pc[c] \in Locked)
                 \/ Free(mutexTransmit) /\ mutexTransmit' = c
         \/ Return(c)
  PROVE  TransmitLocked'
  <1> SUFFICES ASSUME NEW d \in Callers, pc'[d] \in Locked
               PROVE  mutexTransmit' = d
    BY DEF TransmitLocked
  <1>1. d # Worker /\ d # NoThread /\ c # NoThread
    BY ThreadAssumption
  <1>2. "idle" \notin Locked
    BY DEF Locked, Transmitting, Opening, Losing
  <1>3. d # c => pc'[d] = pc[d]
    BY <1>1 DEF Return, Goto, TypeOK, PcTypeOK, Threads
  <1>4. d # c => mutexTransmit = d
    BY <1>3 DEF TransmitLocked
  <1>5. CASE Return(c)
    BY <1>1, <1>2, <1>4, <1>5 DEF Return, Goto, TypeOK, PcTypeOK, Threads
  <1>6. CASE \E l \in CallerLabels :
               /\ \/ Goto(c, l)
                  \/ \E m \in WorkerLabels :
                       pc' = [pc EXCEPT ![c] = l, ![Worker] = m]
               /\ \/ UNCHANGED mutexTransmit /\ (l \in Locked => pc[c] \in Locked)
                  \/ Free(mutexTransmit) /\ mutexTransmit' = c
    <2>1. PICK l \in CallerLabels :
               /\ pc'[c] = l
               /\ \/ UNCHANGED mutexTransmit /\ (l \in Locked => pc[c] \in Locked)
                  \/ Free(mutexTransmit) /\ mutexTransmit' = c
      BY <1>6, ThreadAssumption DEF Goto, TypeOK, PcTypeOK, Threads
    <2> QED
      BY <2>1, <1>1, <1>4 DEF Free, TransmitLocked
  <1> QED
    BY <1>5, <1>6

\* A step of the worker or of the server takes no caller into the code of the
\* lock.
LEMMA LockedOther ==
  ASSUME TypeOK, TransmitLocked, UNCHANGED mutexTransmit,
         (\E l \in WorkerLabels : Goto(Worker, l)) \/ UNCHANGED pc
  PROVE  TransmitLocked'
  BY ThreadAssumption DEF TransmitLocked, Goto, TypeOK, PcTypeOK, Threads

\* Only Stop() sets m_stopped, after the join, and only Start() makes a thread.
LEMMA JoinedCaller ==
  ASSUME TypeOK, WorkerJoined, NEW c \in Callers,
         CallerStarts(c) \/ CallerStep(c)
  PROVE  WorkerJoined'
  <1>1. c # Worker /\ c \in Threads /\ Worker \in Threads
    BY ThreadAssumption DEF Threads
  <1>2. pc \in [Threads -> CallerLabels \cup WorkerLabels]
    BY DEF TypeOK, PcTypeOK
  <1>3. CASE OpenStart(c) \/ CloseJoin(c)
    BY <1>1, <1>2, <1>3 DEF OpenStart, CloseJoin, WorkerJoined, Return, Goto
  <1>4. CASE CallerStarts(c) \/ SetConnectionLost(c)
    BY <1>1, <1>2, <1>4
    DEF CallerStarts, Open, Close, Terminate, TransmitMessage, LockTransmit,
        SetConnectionLost, LostCheck, LostSet, LostAbort, LostClose,
        LostCallback, WorkerJoined, Goto
  <1>5. CASE OpenConnection(c) \/ OpenUnreachable(c) \/ OpenConnected(c)
             \/ OpenStarted(c) \/ CloseAbort(c) \/ CloseStop(c)
             \/ CloseConnection(c)
    BY <1>1, <1>2, <1>5
    DEF OpenConnection, OpenUnreachable, OpenConnected, OpenStarted, CloseAbort,
        CloseStop, CloseConnection, WorkerJoined, Return, Goto
  <1>6. CASE TransmitAdd(c) \/ TransmitSend(c) \/ TransmitWrite(c)
             \/ TransmitFail(c) \/ TransmitWait(c) \/ TransmitErase(c)
    BY <1>1, <1>2, <1>6
    DEF TransmitAdd, TransmitSend, TransmitWrite, TransmitFail, TransmitWait,
        TransmitErase, EraseAndDelete, WorkerJoined, Return, Goto
  <1> QED
    BY <1>3, <1>4, <1>5, <1>6 DEF CallerStarts, CallerStep

\* A worker that takes a step has not been joined.
LEMMA JoinedWorker ==
  ASSUME TypeOK, WorkerJoined, WorkerStep
  PROVE  WorkerJoined'
  BY DEF WorkerStep, WorkerStartup, WorkerLoop, WorkerRead, WorkerReceive,
         WorkerGarbled, WorkerNothing, WorkerClosed, WorkerAfterRead,
         WorkerFind, WorkerCopy, WorkerSignal, WorkerNotify, WorkerClear,
         WorkerExit, SetConnectionLost, LostCheck, LostSet, LostAbort,
         LostClose, LostCallback, WorkerJoined

\* A caller that has a condition, or is about to make one, has the lock.
LEMMA WaitingLocked ==
  ASSUME TransmitLocked, NEW c \in Callers, Waiting(c) \/ pc[c] = "t_add"
  PROVE  mutexTransmit = c
  BY DEF TransmitLocked, Waiting, HasCondition, Locked, Transmitting, Losing

\* Hence there is at most one.
LEMMA OneWaiting ==
  ASSUME TransmitLocked, NEW c \in Callers, Waiting(c) \/ pc[c] = "t_add",
         NEW d \in Callers, Waiting(d) \/ pc[d] = "t_add"
  PROVE  c = d
  BY WaitingLocked

\* What a step may do without touching the delivery of responses: nobody
\* gets or loses a condition, the worker gets or loses no pointer to one.
Quiet ==
  /\ UNCHANGED <<heapVars, callVars, workVars, dangled>>
  /\ \A c \in Callers :
       /\ Waiting(c)' <=> Waiting(c)
       /\ pc'[c] = "t_add" => pc[c] = "t_add"
       /\ pc'[c] = "t_erase" => pc[c] = "t_erase"
  /\ pc'[Worker] \in {"copy", "signal"} <=> pc[Worker] \in {"copy", "signal"}
  /\ pc'[Worker] = "signal" => pc[Worker] = "signal"

\* Such a step, if it keeps the lock and the types, keeps the invariant.
LEMMA QuietStep ==
  ASSUME DeliveryInv, TypeOK', TransmitLocked', WorkerJoined', Quiet
  PROVE  DeliveryInv'
  <1>1. CondAllocated'
    BY DEF DeliveryInv, CondAllocated, Quiet
  <1>2. QueueOwned'
    <2> SUFFICES ASSUME NEW u \in Uids, queue'[u] # NoAddr
                 PROVE \E c \in Callers :
                         /\ mutexTransmit' = c
                         /\ Waiting(c)'
                         /\ uid'[c] = u
                         /\ cond'[c] = queue'[u]
                         /\ queue'[u] \in live'
      BY DEF QueueOwned
    <2>1. PICK c \in Callers : /\ Waiting(c)
                               /\ uid[c] = u
                               /\ cond[c] = queue[u]
                               /\ queue[u] \in live
      BY DEF DeliveryInv, QueueOwned, Quiet
    <2>2. Waiting(c)'
      BY <2>1 DEF Quiet
    <2>3. mutexTransmit' = c
      BY <2>2 DEF TransmitLocked, Waiting, HasCondition, Locked, Transmitting, Losing
    <2> QED
      BY <2>1, <2>2, <2>3 DEF Quiet
  <1>3. PointerValid'
    BY DEF DeliveryInv, PointerValid, Quiet
  <1>4. SignalOfResponse'
    BY DEF DeliveryInv, SignalOfResponse, Quiet
  <1> QED
    BY <1>1, <1>2, <1>3, <1>4 DEF DeliveryInv

\* A caller that moves between labels of the same kind is quiet.
LEMMA QuietCaller ==
  ASSUME TypeOK, NEW c \in Callers, NEW l \in CallerLabels, Goto(c, l),
         UNCHANGED <<heapVars, callVars, workVars, dangled>>,
         l \in HasCondition <=> pc[c] \in HasCondition,
         l \notin {"t_add", "t_erase"}
  PROVE  Quiet
  BY ThreadAssumption DEF Quiet, Goto, Waiting, TypeOK, PcTypeOK, Threads

\* The worker, away from the delivery of a response, is quiet.
LEMMA QuietWorker ==
  ASSUME TypeOK, NEW l \in WorkerLabels, Goto(Worker, l),
         UNCHANGED <<heapVars, callVars, workVars, dangled>>,
         pc[Worker] \notin {"copy", "signal"},
         l \notin {"copy", "signal"}
  PROVE  Quiet
  BY ThreadAssumption DEF Quiet, Goto, Waiting, TypeOK, PcTypeOK, Threads

\* The steps of SetConnectionLost are quiet and keep the lock.
LEMMA DeliveryLoss ==
  ASSUME DeliveryInv, NEW t \in Threads, SetConnectionLost(t)
  PROVE  DeliveryInv'
  <1> DEFINE l == IF pc[t] = "l_check"
                  THEN IF connectionlost \/ aborting THEN AfterLoss(t) ELSE "l_set"
                  ELSE IF pc[t] = "l_set" THEN "l_abort"
                  ELSE IF pc[t] = "l_abort" THEN "l_close"
                  ELSE IF pc[t] = "l_close" THEN "l_callback"
                  ELSE AfterLoss(t)
  <1>1. TypeOK /\ TransmitLocked /\ TypeOK' /\ WorkerJoined'
    BY LossTyped, JoinedCaller, JoinedWorker
    DEF DeliveryInv, Threads, CallerStep, WorkerStep
  <1>2. /\ UNCHANGED <<mutexTransmit, heapVars, callVars, workVars, dangled>>
        /\ pc[t] \in Losing
        /\ Goto(t, l)
    BY DEF SetConnectionLost, LostCheck, LostSet, LostAbort, LostClose,
           LostCallback, Losing
  <1>3. l \in {"l_set", "l_abort", "l_close", "l_callback", AfterLoss(t)}
    OBVIOUS
  <1> HIDE DEF l
  <1>4. CASE t = Worker
    <2>1. l \in WorkerLabels \ {"copy", "signal"}
      BY <1>3, <1>4, Labels DEF AfterLoss
    <2>2. TransmitLocked'
      BY <1>1, <1>2, <1>4, <2>1, LockedOther
    <2>3. Quiet
      BY <1>1, <1>2, <1>4, <2>1, QuietWorker DEF Losing
    <2> QED
      BY <1>1, <2>2, <2>3, QuietStep
  <1>5. CASE t \in Callers
    <2>1. l \in HasCondition /\ l \in CallerLabels /\ l \notin {"t_add", "t_erase"}
      BY <1>3, <1>5, Labels, ThreadAssumption DEF AfterLoss, HasCondition, Losing
    <2>2. pc[t] \in HasCondition /\ pc[t] \in Locked
      BY <1>2 DEF HasCondition, Locked
    <2>3. TransmitLocked'
      BY <1>1, <1>2, <1>5, <2>1, <2>2, LockedCaller
    <2>4. Quiet
      BY <1>1, <1>2, <1>5, <2>1, <2>2, QuietCaller
    <2> QED
      BY <1>1, <2>3, <2>4, QuietStep
  <1> QED
    BY <1>4, <1>5 DEF Threads

\* Open, Close, Terminate and the sending of a request are quiet.
LEMMA DeliveryQuietCaller ==
  ASSUME DeliveryInv, NEW c \in Callers,
         \/ Open(c) \/ Close(c) \/ Terminate(c)
         \/ OpenConnection(c) \/ OpenUnreachable(c) \/ OpenConnected(c)
         \/ OpenStart(c) \/ OpenStarted(c)
         \/ CloseAbort(c) \/ CloseStop(c) \/ CloseJoin(c) \/ CloseConnection(c)
         \/ TransmitSend(c) \/ TransmitWrite(c)
  PROVE  DeliveryInv'
  <1>1. TypeOK /\ TransmitLocked /\ TypeOK' /\ WorkerJoined'
    BY CallerTyped, JoinedCaller DEF DeliveryInv, CallerStarts, CallerStep
  <1>2. TransmitLocked'
    <2> USE LockedCaller, Labels, <1>1
           DEF Locked, Transmitting, Opening, Losing
    <2>1. CASE Open(c) \/ Close(c) \/ Terminate(c)
      BY <2>1 DEF Open, Close, Terminate, LockTransmit
    <2>2. CASE OpenConnection(c) \/ OpenUnreachable(c) \/ OpenConnected(c)
      BY <2>2 DEF OpenConnection, OpenUnreachable, OpenConnected
    <2>3. CASE OpenStart(c) \/ OpenStarted(c)
      BY <2>3 DEF OpenStart, OpenStarted
    <2>4. CASE CloseAbort(c) \/ CloseStop(c) \/ CloseConnection(c)
      BY <2>4 DEF CloseAbort, CloseStop, CloseConnection
    <2>5. CASE CloseJoin(c)
      BY <2>5 DEF CloseJoin
    <2>6. CASE TransmitSend(c) \/ TransmitWrite(c)
      BY <2>6 DEF TransmitSend, TransmitWrite
    <2> QED
      BY <2>1, <2>2, <2>3, <2>4, <2>5, <2>6
  <1>3. Quiet
    <2> USE QuietCaller, Labels, <1>1 DEF HasCondition, Losing, Return
    <2>1. CASE Open(c) \/ Close(c) \/ Terminate(c)
      BY <2>1 DEF Open, Close, Terminate, LockTransmit
    <2>2. CASE OpenConnection(c) \/ OpenUnreachable(c) \/ OpenConnected(c)
      BY <2>2 DEF OpenConnection, OpenUnreachable, OpenConnected
    <2>3. CASE OpenStart(c) /\ Return(c)
      BY <2>3 DEF OpenStart
    <2>4. CASE OpenStart(c) /\ ~Return(c)
      BY <2>4, ThreadAssumption
      DEF OpenStart, Quiet, Waiting, DeliveryInv, WorkerJoined, TypeOK, PcTypeOK,
          Threads
    <2>5. CASE OpenStarted(c)
      BY <2>5 DEF OpenStarted
    <2>6. CASE CloseAbort(c) \/ CloseStop(c) \/ CloseConnection(c)
      BY <2>6 DEF CloseAbort, CloseStop, CloseConnection
    <2>7. CASE CloseJoin(c)
      BY <2>7, ThreadAssumption
      DEF CloseJoin, Quiet, Waiting, TypeOK, PcTypeOK, Threads
    <2>8. CASE TransmitSend(c) \/ TransmitWrite(c)
      BY <2>8 DEF TransmitSend, TransmitWrite
    <2> QED
      BY <2>1, <2>2, <2>3, <2>4, <2>5, <2>6, <2>7, <2>8
  <1> QED
    BY <1>1, <1>2, <1>3, QuietStep

\* A refused TransmitMessage changes nothing, an accepted one takes the lock
\* while nobody has a condition.
LEMMA DeliveryTransmit ==
  ASSUME DeliveryInv, NEW c \in Callers, TransmitMessage(c)
  PROVE  DeliveryInv'
  <1>1. TypeOK /\ TransmitLocked /\ TypeOK' /\ WorkerJoined'
    BY CallerTyped, JoinedCaller DEF DeliveryInv, CallerStarts
  <1>2. CASE UNCHANGED <<pc, mutexTransmit, uid>>
    <2>1. TransmitLocked'
      BY <1>1, <1>2 DEF TransmitLocked
    <2>2. Quiet
      BY <1>2 DEF TransmitMessage, Quiet, Waiting
    <2> QED
      BY <1>1, <2>1, <2>2, QuietStep
  <1>3. CASE /\ uid' = [uid EXCEPT ![c] = globalUID + 1]
             /\ mutexTransmit' = c
             /\ Goto(c, "t_add")
    <2>1. TransmitLocked'
      BY <1>1, <1>3, LockedCaller, Labels DEF TransmitMessage
    <2>2. \A d \in Callers : ~Waiting(d)
      BY <1>1, WaitingLocked, ThreadAssumption DEF TransmitMessage, Free
    <2>3. \A d \in Callers : ~Waiting(d)' /\ (pc'[d] = "t_add" => d = c)
      BY <1>1, <2>1, <2>2, <1>3, ThreadAssumption
      DEF TypeOK, PcTypeOK, Goto, Waiting, HasCondition, Losing, Threads,
          TransmitLocked, Locked, Transmitting
    <2>4. globalUID + 1 \in Uids
      BY <1>1, BoundAssumption DEF TransmitMessage, TypeOK, NetTypeOK, Uids
    <2>5. CondAllocated'
      BY <1>1, <1>3, <2>3, <2>4 DEF CondAllocated, TypeOK, LocalTypeOK
    <2>6. QueueOwned'
      BY <2>2 DEF DeliveryInv, QueueOwned, TransmitMessage
    <2>7. PointerValid'
      <3>1. pc'[Worker] = pc[Worker]
        BY <1>1, <1>3, ThreadAssumption DEF Goto, TypeOK, PcTypeOK, Threads
      <3> QED
        BY <2>2, <3>1 DEF DeliveryInv, PointerValid, TransmitMessage
    <2>8. SignalOfResponse'
      BY <2>3 DEF SignalOfResponse, Waiting, HasCondition
    <2> QED
      BY <1>1, <2>1, <2>5, <2>6, <2>7, <2>8 DEF DeliveryInv
  <1> QED
    BY <1>2, <1>3 DEF TransmitMessage

\* The new condition is at an address nobody refers to.
LEMMA DeliveryAdd ==
  ASSUME DeliveryInv, NEW c \in Callers, TransmitAdd(c)
  PROVE  DeliveryInv'
  <1>1. TypeOK /\ TransmitLocked /\ TypeOK' /\ WorkerJoined'
    BY CallerTyped, JoinedCaller DEF DeliveryInv, CallerStep
  <1>2. TransmitLocked'
    BY <1>1, LockedCaller, Labels
    DEF TransmitAdd, Locked, Transmitting
  <1>3. PICK a \in Addrs \ live :
          /\ live' = live \cup {a}
          /\ signaled' = [signaled EXCEPT ![a] = FALSE]
          /\ queue' = [queue EXCEPT ![uid[c]] = a]
          /\ cond' = [cond EXCEPT ![c] = a]
    BY DEF TransmitAdd
  <1>4. \A d \in Callers : Waiting(d)' => d = c
    <2> SUFFICES ASSUME NEW d \in Callers, Waiting(d)' PROVE d = c
      OBVIOUS
    <2>1. mutexTransmit' = d
      BY <1>2 DEF TransmitLocked, Waiting, HasCondition, Locked, Transmitting, Losing
    <2>2. mutexTransmit = c
      BY <1>1, WaitingLocked DEF TransmitAdd
    <2> QED
      BY <2>1, <2>2 DEF TransmitAdd
  <1>5. /\ pc'[c] = "t_send"
        /\ pc'[Worker] = pc[Worker]
        /\ cond'[c] = a
        /\ signaled'[a] = FALSE
        /\ UNCHANGED <<uid, rc, wpacket, wcond, dangled, mutexTransmit>>
    BY <1>1, <1>3, ThreadAssumption
    DEF TransmitAdd, Goto, TypeOK, PcTypeOK, LocalTypeOK, HeapTypeOK, Threads
  <1>6. \A d \in Callers : ~Waiting(d)
    <2> SUFFICES ASSUME NEW d \in Callers, Waiting(d) PROVE FALSE
      OBVIOUS
    <2>1. d = c
      BY <1>1, OneWaiting DEF TransmitAdd
    <2> QED
      BY <2>1 DEF TransmitAdd, Waiting, HasCondition, Losing
  <1>7. \A u \in Uids : queue[u] = NoAddr
    BY <1>6 DEF DeliveryInv, QueueOwned
  <1>8. uid[c] \in Uids
    BY DEF DeliveryInv, CondAllocated, TransmitAdd
  <1>9. CondAllocated'
    <2> SUFFICES ASSUME NEW d \in Callers, Waiting(d)' \/ pc'[d] = "t_add"
                 PROVE  uid'[d] \in Uids /\ (Waiting(d)' => cond'[d] \in live')
      BY DEF CondAllocated
    <2>1. d = c
      BY <1>2, OneWaiting, <1>4, <1>5, WaitingLocked
      DEF TransmitLocked, Locked, Transmitting, Losing, Waiting, HasCondition
    <2> QED
      BY <2>1, <1>3, <1>5, <1>8
  <1>10. QueueOwned'
    <2> SUFFICES ASSUME NEW u \in Uids, queue'[u] # NoAddr
                 PROVE  /\ mutexTransmit' = c
                        /\ Waiting(c)'
                        /\ uid'[c] = u
                        /\ cond'[c] = queue'[u]
                        /\ queue'[u] \in live'
      BY DEF QueueOwned
    <2>1. u = uid[c] /\ queue'[u] = a
      BY <1>1, <1>3, <1>7, <1>8 DEF TypeOK, HeapTypeOK
    <2>2. Waiting(c)'
      BY <1>5 DEF Waiting, HasCondition
    <2>3. mutexTransmit' = c
      BY <1>1, <1>5, WaitingLocked DEF TransmitAdd
    <2> QED
      BY <2>1, <2>2, <2>3, <1>3, <1>5
  <1>11. PointerValid'
    BY <1>5, <1>6 DEF DeliveryInv, PointerValid
  <1>12. SignalOfResponse'
    BY <1>4, <1>5 DEF SignalOfResponse, Waiting, HasCondition
  <1> QED
    BY <1>1, <1>2, <1>9, <1>10, <1>11, <1>12 DEF DeliveryInv

\* Deleting the condition leaves nobody with one; a worker that still points
\* to it is recorded in dangled.
LEMMA DeliveryErase ==
  ASSUME DeliveryInv, NEW c \in Callers, TransmitFail(c) \/ TransmitErase(c)
  PROVE  DeliveryInv'
  <1>1. TypeOK /\ TransmitLocked /\ TypeOK' /\ WorkerJoined'
    BY CallerTyped, JoinedCaller DEF DeliveryInv, CallerStep
  <1>2. Waiting(c) /\ EraseAndDelete(c)
    BY DEF TransmitFail, TransmitErase, Waiting, HasCondition
  <1>3. TransmitLocked'
    BY <1>1, <1>2, LockedCaller DEF EraseAndDelete
  <1>4. /\ UNCHANGED <<signaled, packet, wpacket, wcond>>
        /\ pc'[c] = "idle"
        /\ \A d \in Callers : d # c => pc'[d] = pc[d]
        /\ pc'[Worker] = pc[Worker]
    BY <1>1, <1>2, ThreadAssumption
    DEF TransmitFail, TransmitErase, EraseAndDelete, Return, Goto, TypeOK,
        PcTypeOK, Threads
  <1>5. \A d \in Callers : ~Waiting(d)' /\ pc'[d] # "t_add"
    <2> SUFFICES ASSUME NEW d \in Callers, Waiting(d)' \/ pc'[d] = "t_add"
                 PROVE  FALSE
      OBVIOUS
    <2>1. d # c
      BY <1>4 DEF Waiting, HasCondition, Losing
    <2>2. Waiting(d) \/ pc[d] = "t_add"
      BY <1>4, <2>1 DEF Waiting
    <2> QED
      BY <1>1, <1>2, <2>1, <2>2, OneWaiting
  <1>6. CondAllocated'
    BY <1>5 DEF CondAllocated
  <1>7. QueueOwned'
    <2> SUFFICES ASSUME NEW u \in Uids, queue'[u] # NoAddr PROVE FALSE
      BY DEF QueueOwned
    <2>1. u # uid[c] /\ queue[u] # NoAddr
      BY <1>1, <1>2 DEF EraseAndDelete, TypeOK, HeapTypeOK
    <2>2. PICK d \in Callers : Waiting(d) /\ uid[d] = u
      BY <2>1 DEF DeliveryInv, QueueOwned
    <2> QED
      BY <1>1, <1>2, <2>1, <2>2, OneWaiting
  <1>8. PointerValid'
    <2>1. wcond # NoAddr /\ ~dangled => wcond = cond[c]
      <3> SUFFICES ASSUME wcond # NoAddr, ~dangled PROVE wcond = cond[c]
        OBVIOUS
      <3>1. PICK d \in Callers : Waiting(d) /\ cond[d] = wcond
        BY DEF DeliveryInv, PointerValid
      <3> QED
        BY <1>1, <1>2, <3>1, OneWaiting
    <2>2. wcond # NoAddr => dangled'
      BY <1>2, <2>1 DEF EraseAndDelete
    <2> QED
      BY <1>4, <2>2 DEF DeliveryInv, PointerValid
  <1>9. SignalOfResponse'
    BY <1>5 DEF SignalOfResponse, Waiting, HasCondition
  <1> QED
    BY <1>1, <1>3, <1>6, <1>7, <1>8, <1>9 DEF DeliveryInv

\* Wait() returns what the condition says, and resets it.
LEMMA DeliveryWait ==
  ASSUME DeliveryInv, NEW c \in Callers, TransmitWait(c)
  PROVE  DeliveryInv'
  <1>1. TypeOK /\ TransmitLocked /\ TypeOK' /\ WorkerJoined'
    BY CallerTyped, JoinedCaller DEF DeliveryInv, CallerStep
  <1>2. TransmitLocked'
    BY <1>1, LockedCaller, Labels DEF TransmitWait, Locked, Transmitting
  <1>3. Waiting(c) /\ cond[c] \in Addrs
    BY <1>1
    DEF DeliveryInv, CondAllocated, TransmitWait, Waiting, HasCondition, TypeOK,
        HeapTypeOK
  <1>4. /\ UNCHANGED <<mutexTransmit, queue, live, packet, uid, cond, wpacket,
                       wcond, dangled>>
        /\ pc'[c] = "t_erase"
        /\ \A d \in Callers : d # c => pc'[d] = pc[d]
        /\ pc'[Worker] = pc[Worker]
        /\ rc'[c] = signaled[cond[c]]
        /\ signaled'[cond[c]] = FALSE
    BY <1>1, <1>3, ThreadAssumption
    DEF TransmitWait, Goto, TypeOK, PcTypeOK, HeapTypeOK, LocalTypeOK, Threads
  <1>5. \A d \in Callers : /\ Waiting(d)' <=> Waiting(d)
                           /\ pc'[d] = "t_add" => pc[d] = "t_add"
    BY <1>3, <1>4 DEF Waiting, HasCondition
  <1>6. CondAllocated'
    BY <1>4, <1>5 DEF DeliveryInv, CondAllocated
  <1>7. QueueOwned'
    BY <1>4, <1>5 DEF DeliveryInv, QueueOwned
  <1>8. PointerValid'
    BY <1>4, <1>5 DEF DeliveryInv, PointerValid
  <1>9. SignalOfResponse'
    <2> SUFFICES ASSUME ~dangled, NEW d \in Callers,
                        \/ Waiting(d)' /\ signaled'[cond'[d]]
                        \/ pc'[d] = "t_erase" /\ rc'[d]
                 PROVE  packet'[cond'[d]] = uid'[d]
      BY <1>4 DEF SignalOfResponse
    <2>1. Waiting(d)
      BY <1>5 DEF Waiting, HasCondition
    <2>2. d = c
      BY <1>1, <1>3, <2>1, OneWaiting
    <2>3. signaled[cond[c]]
      BY <1>4, <2>2
    <2> QED
      BY <1>3, <1>4, <2>2, <2>3 DEF DeliveryInv, SignalOfResponse
  <1> QED
    BY <1>1, <1>2, <1>6, <1>7, <1>8, <1>9 DEF DeliveryInv

\* What every step of the worker leaves alone.
LEMMA WorkerFrame ==
  ASSUME DeliveryInv, NEW l \in WorkerLabels, Goto(Worker, l),
         UNCHANGED <<mutexTransmit, callVars, dangled>>
  PROVE  /\ TransmitLocked'
         /\ pc'[Worker] = l
         /\ \A c \in Callers : pc'[c] = pc[c] /\ (Waiting(c)' <=> Waiting(c))
  <1>1. TypeOK /\ TransmitLocked
    BY DEF DeliveryInv
  <1>2. /\ pc'[Worker] = l
        /\ \A c \in Callers : pc'[c] = pc[c]
    BY <1>1, ThreadAssumption DEF Goto, TypeOK, PcTypeOK, Threads
  <1> QED
    BY <1>1, <1>2, LockedOther DEF Waiting

\* Steps of the worker that have nothing to do with a condition.
LEMMA DeliveryQuietWorker ==
  ASSUME DeliveryInv,
         \/ WorkerStartup \/ WorkerLoop \/ WorkerGarbled \/ WorkerNothing
         \/ WorkerClosed \/ WorkerAfterRead \/ WorkerNotify \/ WorkerExit
  PROVE  DeliveryInv'
  <1>1. TypeOK /\ TransmitLocked /\ TypeOK' /\ WorkerJoined'
    BY WorkerTyped, JoinedWorker DEF DeliveryInv, WorkerStep
  <1>2. /\ UNCHANGED <<mutexTransmit, heapVars, callVars, workVars, dangled>>
        /\ pc[Worker] \notin {"copy", "signal"}
        /\ \E l \in WorkerLabels \ {"copy", "signal"} : Goto(Worker, l)
    BY Labels
    DEF WorkerStartup, WorkerLoop, WorkerGarbled, WorkerNothing, WorkerClosed,
        WorkerAfterRead, WorkerNotify, WorkerExit
  <1>3. TransmitLocked'
    BY <1>1, <1>2, LockedOther
  <1>4. Quiet
    BY <1>1, <1>2, QuietWorker
  <1> QED
    BY <1>1, <1>3, <1>4, QuietStep

\* A new packet in p; c is a null pointer.
LEMMA DeliveryRead ==
  ASSUME DeliveryInv, WorkerRead \/ WorkerReceive
  PROVE  DeliveryInv'
  <1>1. TypeOK' /\ WorkerJoined'
    BY WorkerTyped, JoinedWorker DEF DeliveryInv, WorkerStep
  <1>2. /\ UNCHANGED <<mutexTransmit, heapVars, callVars, wcond, dangled>>
        /\ pc[Worker] \notin {"copy", "signal"}
        /\ \E l \in WorkerLabels \ {"copy", "signal"} : Goto(Worker, l)
    BY Labels DEF WorkerRead, WorkerReceive
  <1>3. /\ TransmitLocked'
        /\ pc'[Worker] \notin {"copy", "signal"}
        /\ \A c \in Callers : pc'[c] = pc[c] /\ (Waiting(c)' <=> Waiting(c))
    BY <1>2, WorkerFrame
  <1>4. CondAllocated' /\ QueueOwned' /\ SignalOfResponse'
    BY <1>2, <1>3 DEF DeliveryInv, CondAllocated, QueueOwned, SignalOfResponse
  <1>5. PointerValid'
    BY <1>2, <1>3 DEF DeliveryInv, PointerValid
  <1> QED
    BY <1>1, <1>3, <1>4, <1>5 DEF DeliveryInv

\* The condition the worker finds belongs to the transmitter that waits for
\* this packet.
LEMMA DeliveryFind ==
  ASSUME DeliveryInv, WorkerFind
  PROVE  DeliveryInv'
  <1>1. TypeOK /\ TypeOK' /\ WorkerJoined'
    BY WorkerTyped, JoinedWorker DEF DeliveryInv, WorkerStep
  <1>2. /\ UNCHANGED <<mutexTransmit, live, signaled, packet, callVars, wpacket,
                       dangled>>
        /\ wcond' = Found
        /\ queue' = [u \in Uids |-> IF u = wpacket THEN NoAddr ELSE queue[u]]
        /\ Goto(Worker, IF Found = NoAddr THEN "notify" ELSE "copy")
    BY DEF WorkerFind
  <1>3. /\ TransmitLocked'
        /\ pc'[Worker] = IF Found = NoAddr THEN "notify" ELSE "copy"
        /\ \A c \in Callers : pc'[c] = pc[c] /\ (Waiting(c)' <=> Waiting(c))
    BY <1>2, WorkerFrame, Labels
  <1>4. CondAllocated' /\ SignalOfResponse'
    BY <1>2, <1>3 DEF DeliveryInv, CondAllocated, SignalOfResponse
  <1>5. QueueOwned'
    <2> SUFFICES ASSUME NEW u \in Uids, queue'[u] # NoAddr
                 PROVE \E c \in Callers :
                         /\ mutexTransmit' = c
                         /\ Waiting(c)'
                         /\ uid'[c] = u
                         /\ cond'[c] = queue'[u]
                         /\ queue'[u] \in live'
      BY DEF QueueOwned
    <2>1. queue'[u] = queue[u]
      BY <1>2
    <2> QED
      BY <1>2, <1>3, <2>1 DEF DeliveryInv, QueueOwned
  <1>6. PointerValid'
    <2>1. CASE Found = NoAddr
      BY <1>2, <1>3, <2>1 DEF PointerValid
    <2>2. CASE Found # NoAddr
      <3>1. wpacket \in Uids /\ Found = queue[wpacket]
        BY <2>2 DEF Found
      <3>2. PICK c \in Callers :
              Waiting(c) /\ uid[c] = wpacket /\ cond[c] = Found
        BY <2>2, <3>1 DEF DeliveryInv, QueueOwned
      <3> QED
        BY <1>2, <1>3, <2>2, <3>2 DEF PointerValid
    <2> QED
      BY <2>1, <2>2
  <1> QED
    BY <1>1, <1>3, <1>4, <1>5, <1>6 DEF DeliveryInv

\* The packet is copied for, and the signal given to, the only transmitter
\* there is, unless the pointer dangles.
LEMMA DeliverySignal ==
  ASSUME DeliveryInv, WorkerCopy \/ WorkerSignal
  PROVE  DeliveryInv'
  <1>1. TypeOK /\ TransmitLocked /\ TypeOK' /\ WorkerJoined'
    BY WorkerTyped, JoinedWorker DEF DeliveryInv, WorkerStep
  <1>2. /\ UNCHANGED <<mutexTransmit, queue, live, callVars, wpacket, dangled>>
        /\ Goto(Worker, IF pc[Worker] = "copy" THEN "signal" ELSE "loop")
        /\ wcond # NoAddr
    BY DEF WorkerCopy, WorkerSignal, DeliveryInv, PointerValid
  <1>3. /\ TransmitLocked'
        /\ pc'[Worker] = IF pc[Worker] = "copy" THEN "signal" ELSE "loop"
        /\ \A c \in Callers : pc'[c] = pc[c] /\ (Waiting(c)' <=> Waiting(c))
    BY <1>2, WorkerFrame, Labels
  <1>4. CondAllocated' /\ QueueOwned'
    BY <1>2, <1>3 DEF DeliveryInv, CondAllocated, QueueOwned
  <1>5. wcond \in Addrs
    BY <1>1, <1>2 DEF TypeOK, LocalTypeOK
  <1>6. CASE dangled
    <2>1. wcond' # NoAddr <=> pc'[Worker] \in {"copy", "signal"}
      BY <1>2, <1>3 DEF WorkerCopy, WorkerSignal
    <2> QED
      BY <1>1, <1>2, <1>3, <1>4, <1>6, <2>1
      DEF DeliveryInv, PointerValid, SignalOfResponse
  <1>7. CASE ~dangled
    <2>1. PICK c \in Callers : Waiting(c) /\ cond[c] = wcond /\ uid[c] = wpacket
      BY <1>2, <1>7 DEF DeliveryInv, PointerValid
    <2>2. \A d \in Callers : Waiting(d) => d = c
      BY <1>1, <2>1, OneWaiting
    <2>3. \A d \in Callers : pc[d] = "t_erase" => d = c
      BY <2>2 DEF Waiting, HasCondition
    <2>4. packet'[wcond] = wpacket
      BY <1>1, <1>2, <1>5, <1>7
      DEF WorkerCopy, WorkerSignal, DeliveryInv, PointerValid, TypeOK, HeapTypeOK
    <2>5. SignalOfResponse'
      BY <1>2, <1>3, <2>1, <2>2, <2>3, <2>4 DEF SignalOfResponse
    <2>6. PointerValid'
      BY <1>2, <1>3, <2>1, <2>4 DEF WorkerCopy, WorkerSignal, PointerValid
    <2> QED
      BY <1>1, <1>3, <1>4, <2>5, <2>6 DEF DeliveryInv
  <1> QED
    BY <1>6, <1>7

\* The cleared queue has no entry.
LEMMA DeliveryClear ==
  ASSUME DeliveryInv, WorkerClear
  PROVE  DeliveryInv'
  <1>1. TypeOK' /\ WorkerJoined'
    BY WorkerTyped, JoinedWorker DEF DeliveryInv, WorkerStep
  <1>2. /\ UNCHANGED <<mutexTransmit, live, signaled, packet, callVars, workVars,
                       dangled>>
        /\ pc[Worker] = "clear"
        /\ Goto(Worker, "exit")
        /\ queue' = [u \in Uids |-> NoAddr]
    BY DEF WorkerClear
  <1>3. /\ TransmitLocked'
        /\ pc'[Worker] = "exit"
        /\ \A c \in Callers : pc'[c] = pc[c] /\ (Waiting(c)' <=> Waiting(c))
    BY <1>2, WorkerFrame, Labels
  <1>4. CondAllocated' /\ SignalOfResponse'
    BY <1>2, <1>3 DEF DeliveryInv, CondAllocated, SignalOfResponse
  <1>5. QueueOwned'
    BY <1>2 DEF QueueOwned
  <1>6. PointerValid'
    BY <1>2, <1>3 DEF DeliveryInv, PointerValid
  <1> QED
    BY <1>1, <1>3, <1>4, <1>5, <1>6 DEF DeliveryInv

\* DeliveryInv is inductive.
LEMMA DeliveryStep ==
  DeliveryInv /\ [Next]_vars => DeliveryInv'
  <1> SUFFICES ASSUME DeliveryInv, [Next]_vars PROVE DeliveryInv'
    OBVIOUS
  <1>1. ASSUME NEW c \in Callers, CallerStarts(c) \/ CallerStep(c)
        PROVE  DeliveryInv'
    BY <1>1, DeliveryQuietCaller, DeliveryTransmit, DeliveryAdd, DeliveryErase,
       DeliveryWait, DeliveryLoss
    DEF CallerStarts, CallerStep, Threads
  <1>2. CASE WorkerStep
    BY <1>2, DeliveryQuietWorker, DeliveryRead, DeliveryFind, DeliverySignal,
       DeliveryClear, DeliveryLoss
    DEF WorkerStep, Threads
  <1>3. CASE Server \/ UNCHANGED vars
    <2>1. UNCHANGED <<mutexTransmit, heapVars, callVars, workVars, dangled, pc,
                      stopped>>
      BY <1>3 DEF Server, ServerRespond, ServerNotify, ServerGone, vars
    <2>2. TypeOK'
      BY <1>3, ServerTyped, Untouched DEF DeliveryInv, TypeOK, vars
    <2>3. TransmitLocked' /\ WorkerJoined'
      BY <2>1 DEF DeliveryInv, TransmitLocked, WorkerJoined
    <2>4. Quiet
      BY <2>1 DEF Quiet, Waiting
    <2> QED
      BY <2>2, <2>3, <2>4, QuietStep
  <1> QED
    BY <1>1, <1>2, <1>3 DEF Next

\* Nobody transmits at the start.
LEMMA DeliveryInit == Init => DeliveryInv
  <1> SUFFICES ASSUME Init PROVE DeliveryInv
    OBVIOUS
  <1>1. \A c \in Callers : pc[c] = "idle"
    BY ThreadAssumption DEF Init, Threads
  <1>2. pc[Worker] = "none" /\ wcond = NoAddr /\ (\A u \in Uids : queue[u] = NoAddr)
    BY DEF Init, Threads
  <1> QED
    BY <1>1, <1>2, InitTyped
    DEF DeliveryInv, TransmitLocked, WorkerJoined, CondAllocated, QueueOwned,
        PointerValid, SignalOfResponse, Waiting, HasCondition, Locked,
        Transmitting, Opening, Losing

\* The strengthened invariant holds in every reachable state.
LEMMA DeliveryInvariant == Spec => []DeliveryInv
  BY DeliveryInit, DeliveryStep, PTL DEF Spec

(***************************************************************************)
(* m_queue never holds a dangling pointer: each of its entries belongs to  *)
(* the one transmitter that has m_mutexTransmit and is the condition that  *)
(* transmitter waits on.                                                   *)
(***************************************************************************)
THEOREM QueueHoldsLiveConditions == Spec => []QueueOwned
  <1>1. DeliveryInv => QueueOwned
    BY DEF DeliveryInv
  <1> QED
    BY <1>1, DeliveryInvariant, PTL

(***************************************************************************)
(* TransmitMessage never returns true with the response to another         *)
(* request, as long as the time-out of a request has not deleted a         *)
(* condition the worker was about to signal.                               *)
(***************************************************************************)
THEOREM ResponsesMatchRequests == Spec => []ResponseMatches
  <1>1. DeliveryInv => ResponseMatches
    BY DEF DeliveryInv, SignalOfResponse, ResponseMatches
  <1> QED
    BY <1>1, DeliveryInvariant, PTL

-------------------------------------------------------------------------------
(***************************************************************************)
(* The life of a connection: one that Open() has returned true for is read *)
(* and usable until somebody closes it or it is lost, and only its own     *)
(* failures count as its loss.                                             *)
(***************************************************************************)

\* The flags of an open connection are set only while somebody is on the way
\* to Close(): OpenConnected() resets what earlier connections left behind.
FlagsExplained ==
  IsOpen =>
    /\ aborting => \/ \E c \in Callers : pc[c] \in {"x_stop", "x_join", "x_close"}
                   \/ \E t \in Threads : pc[t] = "l_close"
    /\ connectionlost => \E t \in Threads : pc[t] \in {"l_abort", "l_close"}

\* A thread that has passed m_socket to read() or write(), or failed there
Using(t) == pc[t] \in {"t_write", "recv"} \cup Losing

\* The socket that Open() has returned true for or is about to
Started == Established \/ (IsOpen /\ \E c \in Callers : pc[c] = "o_started")

\* A transmitter has the lock, so nobody opens another connection under it.
TransmitterSocket ==
  \A c \in Callers : IsOpen /\ Using(c) => fd[c] = socket

\* The worker of a started connection was started for it.
WorkerSocket == Started /\ Using(Worker) => fd[Worker] = socket

\* A new connection gets a number no socket and no session had before.
ConnsGrow == session <= conns /\ socket <= conns

\* Labels of a worker that has begun the loop of Run and not left it
InLoop == {"loop", "read", "recv", "after", "find", "copy", "signal", "notify"}
            \cup Losing

\* Nobody but Stop() ends a worker, and it then waits for the worker's end.
RunsUntilStopped ==
  pc[Worker] \in InLoop /\ ~running => \E c \in Callers : pc[c] = "x_join"

\* The connection of Open() is read from the start of the worker on.
StartedServed ==
  Started =>
    \/ pc[Worker] \notin {"none", "clear", "exit", "exited"}
    \/ connectionlost
    \/ \E c \in Callers : pc[c] \in {"x_join", "x_close"}

\* A Close() that has the lock and has joined the worker is not overtaken by
\* a new one.
JoinedForGood ==
  \A c \in Callers : pc[c] = "x_close" /\ mutexTransmit = c => pc[Worker] = "none"

UseInv ==
  /\ FlagsExplained
  /\ TransmitterSocket
  /\ WorkerSocket
  /\ ConnsGrow
  /\ RunsUntilStopped
  /\ StartedServed
  /\ JoinedForGood

(***************************************************************************)
(* Steps that neither open nor close a socket, nor start or join a worker  *)
(***************************************************************************)

\* Between Abort() and the end of Close()
Stopping == {"x_stop", "x_join", "x_close"}

\* A worker that reads no more
Ended == {"none", "clear", "exit", "exited"}

\* Only thread t moves, the connection stays, and what t does to the flags, to
\* its socket and to the worker is accounted for.
Mild(t) ==
  /\ \A u \in Threads : u # t => pc'[u] = pc[u] /\ fd'[u] = fd[u]
  /\ UNCHANGED <<socket, session, conns>>
  /\ \A d \in Callers : d # t /\ mutexTransmit' = d => mutexTransmit = d
  /\ aborting' => aborting \/ pc'[t] \in {"x_stop", "l_close"}
  /\ connectionlost' => connectionlost \/ pc'[t] = "l_abort"
  /\ connectionlost => connectionlost'
  /\ pc[t] = "x_stop" => pc'[t] \in Stopping
  /\ pc[t] = "l_abort" => pc'[t] = "l_close"
  /\ pc[t] \notin {"l_close", "x_join", "x_close"}
  /\ Using(t)' => fd'[t] = socket \/ (Using(t) /\ fd'[t] = fd[t])
  /\ pc'[t] # "o_started"
  /\ pc'[Worker] \in InLoop /\ ~running' =>
       (pc[Worker] \in InLoop /\ ~running) \/ pc'[t] = "x_join"
  /\ pc'[Worker] \in Ended =>
       \/ pc[Worker] \in Ended
       \/ connectionlost
       \/ \E c \in Callers : pc[c] = "x_join"
  /\ pc[Worker] = "none" => pc'[Worker] = "none"
  /\ pc'[t] = "x_close" => pc[Worker] = "none"

\* A mild step keeps the invariant.
LEMMA MildStep ==
  ASSUME TypeOK, TypeOK', UseInv, NEW t \in Threads, Mild(t)
  PROVE  UseInv'
  <1>1. /\ \A u \in Threads : u # t => pc'[u] = pc[u] /\ fd'[u] = fd[u]
        /\ UNCHANGED <<socket, session, conns>>
        /\ connectionlost => connectionlost'
        /\ pc'[t] # "o_started"
    BY DEF Mild
  <1>2. Callers \subseteq Threads /\ Worker \in Threads /\ Worker \notin Callers
    BY ThreadAssumption DEF Threads
  <1>3. pc'[t] \in Stopping => t \in Callers
    BY Labels, <1>2 DEF TypeOK, PcTypeOK, Threads, Stopping
  <1>4. FlagsExplained'
    <2> SUFFICES ASSUME IsOpen'
                 PROVE  /\ aborting' =>
                             \/ \E c \in Callers : pc'[c] \in Stopping
                             \/ \E u \in Threads : pc'[u] = "l_close"
                        /\ connectionlost' =>
                             \E u \in Threads : pc'[u] \in {"l_abort", "l_close"}
      BY DEF FlagsExplained, Stopping
    <2>1. IsOpen
      BY <1>1 DEF IsOpen
    <2>2. ASSUME aborting'
          PROVE  \/ \E c \in Callers : pc'[c] \in Stopping
                 \/ \E u \in Threads : pc'[u] = "l_close"
      <3>1. CASE pc'[t] \in {"x_stop", "l_close"}
        BY <1>3, <3>1 DEF Stopping
      <3>2. CASE aborting
        <4>1. \/ \E c \in Callers : pc[c] \in Stopping
              \/ \E u \in Threads : pc[u] = "l_close"
          BY <2>1, <3>2 DEF UseInv, FlagsExplained, Stopping
        <4> QED
          BY <1>2, <4>1 DEF Mild, Stopping
      <3> QED
        BY <2>2, <3>1, <3>2 DEF Mild
    <2>3. ASSUME connectionlost'
          PROVE  \E u \in Threads : pc'[u] \in {"l_abort", "l_close"}
      <3>1. CASE connectionlost
        <4>1. PICK u \in Threads : pc[u] \in {"l_abort", "l_close"}
          BY <2>1, <3>1 DEF UseInv, FlagsExplained
        <4> QED
          BY <4>1 DEF Mild
      <3> QED
        BY <2>3, <3>1 DEF Mild
    <2> QED
      BY <2>2, <2>3
  <1>5. TransmitterSocket'
    <2> SUFFICES ASSUME NEW c \in Callers, IsOpen', Using(c)'
                 PROVE  fd'[c] = socket'
      BY DEF TransmitterSocket
    <2>1. IsOpen
      BY <1>1 DEF IsOpen
    <2>2. c # t => Using(c)
      BY <1>1, <1>2 DEF Using
    <2> QED
      BY <1>1, <1>2, <2>1, <2>2 DEF Mild, UseInv, TransmitterSocket
  <1>6. Started' => Started
    BY <1>1, <1>2 DEF Started, Established, IsOpen
  <1>7. WorkerSocket'
    <2> SUFFICES ASSUME Started', Using(Worker)'
                 PROVE  fd'[Worker] = socket'
      BY DEF WorkerSocket
    <2>1. Worker # t => Using(Worker)
      BY <1>1, <1>2 DEF Using
    <2> QED
      BY <1>1, <1>2, <1>6, <2>1 DEF Mild, UseInv, WorkerSocket
  <1>8. ConnsGrow'
    BY <1>1 DEF UseInv, ConnsGrow
  <1>9. RunsUntilStopped'
    <2> SUFFICES ASSUME pc'[Worker] \in InLoop, ~running'
                 PROVE  \E c \in Callers : pc'[c] = "x_join"
      BY DEF RunsUntilStopped
    <2>1. CASE pc'[t] = "x_join"
      BY <1>3, <2>1 DEF Stopping
    <2>2. CASE pc[Worker] \in InLoop /\ ~running
      <3>1. PICK c \in Callers : pc[c] = "x_join"
        BY <2>2 DEF UseInv, RunsUntilStopped
      <3> QED
        BY <1>1, <1>2, <3>1 DEF Mild
    <2> QED
      BY <2>1, <2>2 DEF Mild
  <1>10. StartedServed'
    <2> SUFFICES ASSUME Started', pc'[Worker] \in Ended, ~connectionlost'
                 PROVE  \E c \in Callers : pc'[c] \in {"x_join", "x_close"}
      BY DEF StartedServed, Ended
    <2>1. PICK c \in Callers : pc[c] \in {"x_join", "x_close"}
      <3>1. CASE pc[Worker] \in Ended
        BY <1>1, <1>6, <3>1 DEF UseInv, StartedServed, Ended
      <3> QED
        BY <1>1, <3>1 DEF Mild
    <2> QED
      BY <1>1, <1>2, <2>1 DEF Mild
  <1>11. JoinedForGood'
    <2> SUFFICES ASSUME NEW c \in Callers, pc'[c] = "x_close", mutexTransmit' = c
                 PROVE  pc'[Worker] = "none"
      BY DEF JoinedForGood
    <2>1. CASE c = t
      BY <2>1 DEF Mild
    <2>2. CASE c # t
      BY <1>1, <1>2, <2>2 DEF Mild, UseInv, JoinedForGood
    <2> QED
      BY <2>1, <2>2
  <1> QED
    BY <1>4, <1>5, <1>7, <1>8, <1>9, <1>10, <1>11 DEF UseInv

\* Goto moves one thread.
LEMMA OneMoves ==
  ASSUME TypeOK, NEW t \in Threads
  PROVE  /\ \A l : Goto(t, l) => /\ pc'[t] = l
                                 /\ \A u \in Threads : u # t => pc'[u] = pc[u]
         /\ Return(t) => /\ pc'[t] = "idle"
                         /\ \A u \in Threads : u # t => pc'[u] = pc[u]
                         /\ \A d \in Callers :
                              mutexTransmit' = d => mutexTransmit = d
  BY ThreadAssumption DEF TypeOK, PcTypeOK, Goto, Return

\* A caller that is outside Close(), and stays outside, or enters it, touches
\* neither flags nor sockets.
LEMMA MildCaller ==
  ASSUME TypeOK, NEW c \in Callers,
         UNCHANGED <<socket, session, conns, aborting, connectionlost, running>>,
         \A u \in Threads : u # c => pc'[u] = pc[u] /\ fd'[u] = fd[u],
         \A d \in Callers : d # c /\ mutexTransmit' = d => mutexTransmit = d,
         pc[c] \notin Stopping \cup {"l_abort", "l_close"},
         pc'[c] \notin {"o_started", "x_close"},
         Using(c)' => fd'[c] = socket \/ (Using(c) /\ fd'[c] = fd[c])
  PROVE  Mild(c)
  <1>1. c # Worker /\ Worker \in Threads
    BY ThreadAssumption DEF Threads
  <1> QED
    BY <1>1 DEF Mild, Stopping

\* Open, Close, Terminate, TransmitMessage up to its failed or answered end, and
\* the failures of Open.
LEMMA QuietCalls ==
  ASSUME TypeOK, NEW c \in Callers,
         \/ Open(c) \/ Close(c) \/ Terminate(c) \/ TransmitMessage(c)
         \/ OpenConnection(c) \/ OpenUnreachable(c)
         \/ TransmitAdd(c) \/ TransmitSend(c) \/ TransmitWrite(c)
         \/ TransmitFail(c) \/ TransmitWait(c) \/ TransmitErase(c)
  PROVE  Mild(c)
  <1>1. c \in Threads /\ c # NoThread
    BY ThreadAssumption DEF Threads
  <1>2. fd \in [Threads -> Conns \cup {NoSocket}]
    BY DEF TypeOK, LocalTypeOK
  <1>3. UNCHANGED <<socket, session, conns, aborting, connectionlost, running>>
    BY DEF Open, Close, Terminate, TransmitMessage, OpenConnection,
           OpenUnreachable, TransmitAdd, TransmitSend, TransmitWrite,
           TransmitFail, TransmitWait, TransmitErase, EraseAndDelete
  <1>4. CASE Open(c) \/ Close(c) \/ Terminate(c) \/ TransmitMessage(c)
    <2>1. /\ UNCHANGED fd
          /\ pc[c] = "idle"
          /\ pc'[c] \in {"idle", "o_conn", "x_abort", "t_add"}
          /\ \A u \in Threads : u # c => pc'[u] = pc[u]
          /\ \A d \in Callers : d # c /\ mutexTransmit' = d => mutexTransmit = d
      BY <1>1, <1>4, OneMoves
      DEF Open, Close, Terminate, TransmitMessage, LockTransmit
    <2> QED
      BY <1>3, <2>1, MildCaller DEF Using, Losing, Stopping
  <1>5. CASE OpenConnection(c) \/ OpenUnreachable(c)
    <2>1. /\ UNCHANGED fd
          /\ pc[c] \in {"o_conn", "o_connect"}
          /\ pc'[c] \in {"idle", "o_connect"}
          /\ \A u \in Threads : u # c => pc'[u] = pc[u]
          /\ \A d \in Callers : d # c /\ mutexTransmit' = d => mutexTransmit = d
      BY <1>1, <1>5, OneMoves DEF OpenConnection, OpenUnreachable
    <2> QED
      BY <1>3, <2>1, MildCaller DEF Using, Losing, Stopping
  <1>6. CASE TransmitAdd(c) \/ TransmitWait(c) \/ TransmitWrite(c)
    <2>1. /\ UNCHANGED <<fd, mutexTransmit>>
          /\ pc[c] \in {"t_add", "t_wait", "t_write"}
          /\ pc'[c] \in {"t_send", "t_erase", "t_wait", "l_check"}
          /\ pc'[c] = "l_check" => pc[c] = "t_write"
          /\ \A u \in Threads : u # c => pc'[u] = pc[u]
      BY <1>1, <1>6, OneMoves DEF TransmitAdd, TransmitWait, TransmitWrite
    <2> QED
      BY <1>3, <2>1, MildCaller DEF Using, Losing, Stopping
  <1>7. CASE TransmitSend(c)
    <2>1. /\ UNCHANGED mutexTransmit
          /\ pc[c] = "t_send"
          /\ pc'[c] \in {"t_fail", "t_write"}
          /\ pc'[c] = "t_write" => fd'[c] = socket
          /\ \A u \in Threads : u # c => pc'[u] = pc[u] /\ fd'[u] = fd[u]
      BY <1>1, <1>2, <1>7, OneMoves DEF TransmitSend
    <2> QED
      BY <1>3, <2>1, MildCaller DEF Using, Losing, Stopping
  <1>8. CASE TransmitFail(c) \/ TransmitErase(c)
    <2>1. /\ pc[c] \in {"t_fail", "t_erase"}
          /\ pc'[c] = "idle"
          /\ \A u \in Threads : u # c => pc'[u] = pc[u] /\ fd'[u] = fd[u]
          /\ \A d \in Callers : mutexTransmit' = d => mutexTransmit = d
      BY <1>1, <1>2, <1>8, OneMoves
      DEF TransmitFail, TransmitErase, EraseAndDelete
    <2> QED
      BY <1>3, <2>1, MildCaller DEF Using, Losing, Stopping
  <1> QED
    BY <1>4, <1>5, <1>6, <1>7, <1>8

\* Close() up to the join, or to the socket when there is no worker to join.
LEMMA QuietClose ==
  ASSUME TypeOK, WorkerJoined, NEW c \in Callers, CloseAbort(c) \/ CloseStop(c)
  PROVE  Mild(c)
  <1>1. c \in Threads /\ c # Worker /\ Worker \in Threads
    BY ThreadAssumption DEF Threads
  <1>2. CASE CloseAbort(c)
    <2>1. /\ UNCHANGED <<socket, session, conns, connectionlost, running, fd,
                         mutexTransmit>>
          /\ pc[c] = "x_abort"
          /\ pc'[c] = "x_stop"
          /\ \A u \in Threads : u # c => pc'[u] = pc[u]
      BY <1>1, <1>2, OneMoves DEF CloseAbort
    <2> QED
      BY <1>1, <2>1 DEF Mild, Using, Losing, Stopping
  <1>3. CASE CloseStop(c)
    <2>1. /\ UNCHANGED <<socket, session, conns, aborting, connectionlost, fd,
                         mutexTransmit>>
          /\ pc[c] = "x_stop"
          /\ pc'[c] \in {"x_join", "x_close"}
          /\ \A u \in Threads : u # c => pc'[u] = pc[u]
      BY <1>1, <1>3, OneMoves DEF CloseStop
    <2>2. pc'[c] = "x_close" => pc[Worker] = "none" /\ UNCHANGED running
      BY <1>1, <1>3, OneMoves DEF CloseStop, WorkerJoined
    <2> QED
      BY <1>1, <2>1, <2>2 DEF Mild, Using, Losing, Stopping
  <1> QED
    BY <1>2, <1>3

\* SetConnectionLost up to its Close(), and after it.
LEMMA QuietLoss ==
  ASSUME TypeOK, NEW t \in Threads,
         LostCheck(t) \/ LostSet(t) \/ LostAbort(t) \/ LostCallback(t)
  PROVE  Mild(t)
  <1>1. Worker \in Threads
    BY DEF Threads
  <1>2. UNCHANGED <<socket, session, conns, running, fd, mutexTransmit>>
    BY DEF LostCheck, LostSet, LostAbort, LostCallback
  <1>3. CASE LostCheck(t) \/ LostCallback(t)
    <2>1. /\ UNCHANGED <<aborting, connectionlost>>
          /\ pc[t] \in {"l_check", "l_callback"}
          /\ pc'[t] \in {"l_set", "after", "t_fail"}
          /\ t = Worker => pc'[t] \in {"l_set", "after"}
          /\ \A u \in Threads : u # t => pc'[u] = pc[u]
      BY <1>3, OneMoves DEF LostCheck, LostCallback, AfterLoss
    <2> QED
      BY <1>1, <1>2, <2>1 DEF Mild, Using, Losing, InLoop, Ended
  <1>4. CASE LostSet(t)
    <2>1. /\ UNCHANGED aborting
          /\ pc[t] = "l_set"
          /\ pc'[t] = "l_abort"
          /\ connectionlost'
          /\ \A u \in Threads : u # t => pc'[u] = pc[u]
      BY <1>4, OneMoves DEF LostSet
    <2> QED
      BY <1>1, <1>2, <2>1 DEF Mild, Using, Losing, InLoop, Ended
  <1>5. CASE LostAbort(t)
    <2>1. /\ UNCHANGED connectionlost
          /\ pc[t] = "l_abort"
          /\ pc'[t] = "l_close"
          /\ \A u \in Threads : u # t => pc'[u] = pc[u]
      BY <1>5, OneMoves DEF LostAbort
    <2> QED
      BY <1>1, <1>2, <2>1 DEF Mild, Using, Losing, InLoop, Ended
  <1> QED
    BY <1>3, <1>4, <1>5

\* What the worker does in its loop, its start and its end.
LEMMA QuietWork ==
  ASSUME TypeOK, RunsUntilStopped,
         \/ WorkerStartup \/ WorkerLoop \/ WorkerRead \/ WorkerReceive
         \/ WorkerGarbled \/ WorkerNothing \/ WorkerClosed \/ WorkerAfterRead
         \/ WorkerFind \/ WorkerCopy \/ WorkerSignal \/ WorkerNotify
         \/ WorkerClear \/ WorkerExit
  PROVE  Mild(Worker)
  <1>1. Worker \in Threads /\ Worker \notin Callers
    BY ThreadAssumption DEF Threads
  <1>2. fd \in [Threads -> Conns \cup {NoSocket}]
    BY DEF TypeOK, LocalTypeOK
  <1>3. UNCHANGED <<socket, session, conns, aborting, connectionlost,
                    mutexTransmit>>
    BY DEF WorkerStartup, WorkerLoop, WorkerRead, WorkerReceive, WorkerGarbled,
           WorkerNothing, WorkerClosed, WorkerAfterRead, WorkerFind, WorkerCopy,
           WorkerSignal, WorkerNotify, WorkerClear, WorkerExit
  <1>4. CASE WorkerReceive \/ WorkerGarbled \/ WorkerNothing \/ WorkerClosed
    <2>1. /\ UNCHANGED <<running, fd>>
          /\ pc[Worker] = "recv"
          /\ pc'[Worker] \in {"after", "l_check"}
          /\ \A u \in Threads : u # Worker => pc'[u] = pc[u]
      BY <1>1, <1>4, OneMoves
      DEF WorkerReceive, WorkerGarbled, WorkerNothing, WorkerClosed
    <2> QED
      BY <1>1, <1>3, <2>1 DEF Mild, Using, Losing, InLoop, Ended
  <1>5. CASE WorkerFind \/ WorkerCopy \/ WorkerSignal \/ WorkerNotify
    <2>1. /\ UNCHANGED <<running, fd>>
          /\ pc[Worker] \in {"find", "copy", "signal", "notify"}
          /\ pc'[Worker] \in {"copy", "signal", "notify", "loop"}
          /\ \A u \in Threads : u # Worker => pc'[u] = pc[u]
      BY <1>1, <1>5, OneMoves
      DEF WorkerFind, WorkerCopy, WorkerSignal, WorkerNotify
    <2> QED
      BY <1>1, <1>3, <2>1 DEF Mild, Using, Losing, InLoop, Ended
  <1>6. CASE WorkerRead
    <2>1. /\ UNCHANGED running
          /\ pc[Worker] = "read"
          /\ pc'[Worker] \in {"after", "recv"}
          /\ pc'[Worker] = "recv" => fd'[Worker] = socket
          /\ \A u \in Threads : u # Worker => pc'[u] = pc[u] /\ fd'[u] = fd[u]
      BY <1>1, <1>2, <1>6, OneMoves DEF WorkerRead
    <2> QED
      BY <1>1, <1>3, <2>1 DEF Mild, Using, Losing, InLoop, Ended
  <1>7. CASE WorkerStartup
    <2>1. /\ UNCHANGED fd
          /\ running'
          /\ pc[Worker] = "startup"
          /\ pc'[Worker] = "loop"
          /\ \A u \in Threads : u # Worker => pc'[u] = pc[u]
      BY <1>1, <1>7, OneMoves DEF WorkerStartup
    <2> QED
      BY <1>1, <1>3, <2>1 DEF Mild, Using, Losing, InLoop, Ended
  <1>8. CASE WorkerLoop
    <2>1. /\ UNCHANGED <<running, fd>>
          /\ pc[Worker] = "loop"
          /\ pc'[Worker] \in {"read", "clear"}
          /\ pc'[Worker] = "clear" => ~running
          /\ \A u \in Threads : u # Worker => pc'[u] = pc[u]
      BY <1>1, <1>8, OneMoves DEF WorkerLoop
    <2>2. pc'[Worker] = "clear" => \E c \in Callers : pc[c] = "x_join"
      BY <2>1 DEF RunsUntilStopped, InLoop
    <2> QED
      BY <1>1, <1>3, <2>1, <2>2 DEF Mild, Using, Losing, InLoop, Ended
  <1>9. CASE WorkerAfterRead
    <2>1. /\ UNCHANGED running
          /\ pc[Worker] = "after"
          /\ pc'[Worker] \in {"clear", "loop", "find"}
          /\ pc'[Worker] = "clear" => connectionlost
          /\ \A u \in Threads : u # Worker => pc'[u] = pc[u] /\ fd'[u] = fd[u]
      BY <1>1, <1>2, <1>9, OneMoves DEF WorkerAfterRead
    <2> QED
      BY <1>1, <1>3, <2>1 DEF Mild, Using, Losing, InLoop, Ended
  <1>10. CASE WorkerClear \/ WorkerExit
    <2>1. /\ UNCHANGED fd
          /\ pc[Worker] \in {"clear", "exit"}
          /\ pc'[Worker] \in {"exit", "exited"}
          /\ \A u \in Threads : u # Worker => pc'[u] = pc[u]
      BY <1>1, <1>10, OneMoves DEF WorkerClear, WorkerExit
    <2> QED
      BY <1>1, <1>3, <2>1 DEF Mild, Using, Losing, InLoop, Ended
  <1> QED
    BY <1>4, <1>5, <1>6, <1>7, <1>8, <1>9, <1>10

-------------------------------------------------------------------------------
(***************************************************************************)
(* Opening and closing a socket, starting and joining a worker             *)
(***************************************************************************)

\* Who has the lock is the only one in Open() or TransmitMessage().
LEMMA LockedAlone ==
  ASSUME TransmitLocked, NEW c \in Callers, mutexTransmit = c,
         NEW d \in Callers, d # c
  PROVE  pc[d] \notin Locked
  BY DEF TransmitLocked

\* A connection that is closed is neither started nor in use.
LEMMA ClosedStep ==
  ASSUME TypeOK, TypeOK', UseInv, NEW t \in Threads,
         LostClose(t) \/ (t \in Callers /\ CloseConnection(t))
  PROVE  UseInv'
  <1>1. Callers \subseteq Threads /\ Worker \in Threads /\ Worker \notin Callers
    BY ThreadAssumption DEF Threads
  <1>2. /\ UNCHANGED <<session, conns, running>>
        /\ socket' = NoSocket
        /\ pc[t] \in {"l_close", "x_close"}
        /\ pc'[t] \in {"l_callback", "idle"}
        /\ pc[t] = "l_close" => pc'[t] = "l_callback"
        /\ t = Worker => pc[t] = "l_close"
        /\ \A u \in Threads : u # t => pc'[u] = pc[u]
        /\ \A d \in Callers : mutexTransmit' = d => mutexTransmit = d
    BY <1>1, OneMoves DEF LostClose, CloseConnection, ConnectionClose
  <1>3. ~IsOpen' /\ ~Started'
    BY <1>2 DEF IsOpen, Started, Established
  <1>4. FlagsExplained' /\ TransmitterSocket' /\ WorkerSocket' /\ StartedServed'
    BY <1>3 DEF FlagsExplained, TransmitterSocket, WorkerSocket, StartedServed
  <1>5. ConnsGrow'
    BY <1>2 DEF UseInv, ConnsGrow, TypeOK, NetTypeOK, NoSocket
  <1>6. RunsUntilStopped'
    <2> SUFFICES ASSUME pc'[Worker] \in InLoop, ~running'
                 PROVE  \E c \in Callers : pc'[c] = "x_join"
      BY DEF RunsUntilStopped
    <2>1. pc[Worker] \in InLoop /\ ~running
      BY <1>1, <1>2 DEF InLoop, Losing
    <2>2. PICK c \in Callers : pc[c] = "x_join"
      BY <2>1 DEF UseInv, RunsUntilStopped
    <2> QED
      BY <1>1, <1>2, <2>2
  <1>7. JoinedForGood'
    BY <1>1, <1>2 DEF UseInv, JoinedForGood
  <1> QED
    BY <1>4, <1>5, <1>6, <1>7 DEF UseInv

\* A new connection has its own number and clean flags, nobody else is in
\* Open() or TransmitMessage(), and the session is not yet of this connection.
LEMMA ConnectedStep ==
  ASSUME TypeOK, TransmitLocked, UseInv, NEW c \in Callers, OpenConnected(c)
  PROVE  UseInv'
  <1>1. Callers \subseteq Threads /\ Worker \in Threads /\ Worker \notin Callers
    BY ThreadAssumption DEF Threads
  <1>2. /\ UNCHANGED <<session, running, mutexTransmit, fd>>
        /\ conns' = conns + 1
        /\ socket' = conns + 1
        /\ ~aborting'
        /\ ~connectionlost'
        /\ pc[c] = "o_connect"
        /\ pc'[c] = "o_start"
        /\ \A u \in Threads : u # c => pc'[u] = pc[u]
    BY <1>1, OneMoves DEF OpenConnected
  <1>3. conns \in Nat /\ session \in Nat /\ session <= conns
    BY DEF UseInv, ConnsGrow, TypeOK, NetTypeOK, HistTypeOK, Conns, NoSocket
  <1>4. \A d \in Callers : d # c => pc[d] \notin Locked
    BY <1>2, LockedAlone DEF TransmitLocked, Locked, Opening
  <1>5. \A d \in Callers : ~Using(d)' /\ pc'[d] # "o_started"
    <2> TAKE d \in Callers
    <2>1. pc[d] \in CallerLabels /\ "recv" \notin CallerLabels
      BY Labels DEF TypeOK, PcTypeOK
    <2>2. CASE d = c
      BY <1>2, <2>2 DEF Using, Losing
    <2>3. CASE d # c
      BY <1>1, <1>2, <1>4, <2>1, <2>3 DEF Using, Locked, Transmitting, Opening
    <2> QED
      BY <2>2, <2>3
  <1>6. ~Started'
    BY <1>2, <1>3, <1>5 DEF Started, Established
  <1>7. FlagsExplained'
    BY <1>2 DEF FlagsExplained
  <1>8. TransmitterSocket' /\ WorkerSocket' /\ StartedServed'
    BY <1>5, <1>6 DEF TransmitterSocket, WorkerSocket, StartedServed
  <1>9. ConnsGrow'
    BY <1>2, <1>3 DEF ConnsGrow
  <1>10. RunsUntilStopped'
    BY <1>1, <1>2 DEF UseInv, RunsUntilStopped
  <1>11. JoinedForGood'
    BY <1>1, <1>2 DEF UseInv, JoinedForGood
  <1> QED
    BY <1>7, <1>8, <1>9, <1>10, <1>11 DEF UseInv

\* A worker is started for the connection just made; a Close() that has the
\* lock cannot be waiting for it.
LEMMA StartStep ==
  ASSUME TypeOK, TransmitLocked, WorkerJoined, UseInv, stopped,
         NEW c \in Callers, OpenStart(c)
  PROVE  UseInv'
  <1>1. Callers \subseteq Threads /\ Worker \in Threads /\ Worker \notin Callers
    BY ThreadAssumption DEF Threads
  <1>2. /\ UNCHANGED <<socket, session, conns, aborting, connectionlost, running,
                       mutexTransmit, fd>>
        /\ pc[c] = "o_start"
        /\ pc'[c] = "o_started"
        /\ pc[Worker] = "none"
        /\ pc'[Worker] = "startup"
        /\ \A u \in Threads : u # c /\ u # Worker => pc'[u] = pc[u]
    BY <1>1 DEF OpenStart, WorkerJoined, TypeOK, PcTypeOK
  <1>3. IsOpen' <=> IsOpen
    BY <1>2 DEF IsOpen
  <1>4. FlagsExplained'
    <2>1. \A u \in Threads : pc[u] \in {"l_abort", "l_close"} => pc'[u] = pc[u]
      BY <1>2
    <2>2. \A d \in Callers : pc[d] \in Stopping => pc'[d] = pc[d]
      BY <1>1, <1>2 DEF Stopping
    <2> QED
      BY <1>2, <1>3, <2>1, <2>2 DEF UseInv, FlagsExplained, Stopping
  <1>5. TransmitterSocket'
    <2>1. \A d \in Callers : Using(d)' => Using(d)
      BY <1>1, <1>2 DEF Using, Losing
    <2> QED
      BY <1>2, <1>3, <2>1 DEF UseInv, TransmitterSocket
  <1>6. WorkerSocket' /\ StartedServed'
    BY <1>2 DEF WorkerSocket, StartedServed, Using, Losing
  <1>7. ConnsGrow'
    BY <1>2 DEF UseInv, ConnsGrow
  <1>8. RunsUntilStopped'
    BY <1>2 DEF RunsUntilStopped, InLoop, Losing
  <1>9. JoinedForGood'
    <2>1. mutexTransmit' = c
      BY <1>2 DEF TransmitLocked, Locked, Opening
    <2> QED
      BY <1>2, <2>1 DEF JoinedForGood
  <1> QED
    BY <1>4, <1>5, <1>6, <1>7, <1>8, <1>9 DEF UseInv

\* Open() returns true: the connection was started before.
LEMMA StartedStep ==
  ASSUME TypeOK, UseInv, NEW c \in Callers, OpenStarted(c)
  PROVE  UseInv'
  <1>1. Callers \subseteq Threads /\ Worker \in Threads /\ Worker \notin Callers
    BY ThreadAssumption DEF Threads
  <1>2. /\ UNCHANGED <<socket, conns, aborting, connectionlost, running, fd>>
        /\ session' = socket
        /\ pc[c] = "o_started"
        /\ pc'[c] = "idle"
        /\ \A u \in Threads : u # c => pc'[u] = pc[u]
        /\ \A d \in Callers : mutexTransmit' = d => mutexTransmit = d
    BY <1>1, OneMoves DEF OpenStarted
  <1>3. IsOpen' <=> IsOpen
    BY <1>2 DEF IsOpen
  <1>4. Started' => Started
    BY <1>2 DEF Started, Established, IsOpen
  <1>5. \A u \in Threads : pc[u] # "o_started" => pc'[u] = pc[u]
    BY <1>2
  <1>6. FlagsExplained'
    BY <1>1, <1>2, <1>3, <1>5 DEF UseInv, FlagsExplained
  <1>7. TransmitterSocket' /\ WorkerSocket'
    <2>1. \A u \in Threads : Using(u)' => Using(u)
      BY <1>2 DEF Using, Losing
    <2> QED
      BY <1>1, <1>2, <1>3, <1>4, <2>1 DEF UseInv, TransmitterSocket, WorkerSocket
  <1>8. ConnsGrow'
    BY <1>2 DEF UseInv, ConnsGrow
  <1>9. RunsUntilStopped' /\ JoinedForGood'
    BY <1>1, <1>2 DEF UseInv, RunsUntilStopped, JoinedForGood
  <1>10. StartedServed'
    BY <1>1, <1>2, <1>4, <1>5 DEF UseInv, StartedServed
  <1> QED
    BY <1>6, <1>7, <1>8, <1>9, <1>10 DEF UseInv

\* The worker is joined by a Close() that is about to close the socket.
LEMMA JoinStep ==
  ASSUME TypeOK, UseInv, NEW c \in Callers, CloseJoin(c)
  PROVE  UseInv'
  <1>1. Callers \subseteq Threads /\ Worker \in Threads /\ Worker \notin Callers
    BY ThreadAssumption DEF Threads
  <1>2. /\ UNCHANGED <<socket, session, conns, aborting, connectionlost, running,
                       mutexTransmit, fd>>
        /\ pc[c] = "x_join"
        /\ pc'[c] = "x_close"
        /\ pc[Worker] = "exited"
        /\ pc'[Worker] = "none"
        /\ \A u \in Threads : u # c /\ u # Worker => pc'[u] = pc[u]
    BY <1>1 DEF CloseJoin, TypeOK, PcTypeOK
  <1>3. IsOpen' <=> IsOpen
    BY <1>2 DEF IsOpen
  <1>4. FlagsExplained'
    <2>1. \A u \in Threads : pc[u] \in {"l_abort", "l_close"} => pc'[u] = pc[u]
      BY <1>2
    <2> QED
      BY <1>2, <1>3, <2>1 DEF UseInv, FlagsExplained
  <1>5. TransmitterSocket'
    <2>1. \A d \in Callers : Using(d)' => Using(d)
      BY <1>1, <1>2 DEF Using, Losing
    <2> QED
      BY <1>2, <1>3, <2>1 DEF UseInv, TransmitterSocket
  <1>6. WorkerSocket' /\ RunsUntilStopped' /\ StartedServed' /\ JoinedForGood'
    BY <1>2 DEF WorkerSocket, RunsUntilStopped, StartedServed, JoinedForGood,
                Using, InLoop, Losing
  <1>7. ConnsGrow'
    BY <1>2 DEF UseInv, ConnsGrow
  <1> QED
    BY <1>4, <1>5, <1>6, <1>7 DEF UseInv

\* UseInv is inductive relative to DeliveryInv.
LEMMA UseStep ==
  DeliveryInv /\ DeliveryInv' /\ UseInv /\ [Next]_vars => UseInv'
  <1> SUFFICES ASSUME DeliveryInv, DeliveryInv', UseInv, [Next]_vars
               PROVE  UseInv'
    OBVIOUS
  <1>1. /\ TypeOK /\ TypeOK' /\ TransmitLocked /\ WorkerJoined
        /\ RunsUntilStopped
    BY DEF DeliveryInv, UseInv
  <1>2. Callers \subseteq Threads /\ Worker \in Threads
    BY DEF Threads
  <1>3. ASSUME NEW c \in Callers, CallerStarts(c) \/ CallerStep(c)
        PROVE  UseInv'
    <2>1. CASE \/ Open(c) \/ Close(c) \/ Terminate(c) \/ TransmitMessage(c)
               \/ OpenConnection(c) \/ OpenUnreachable(c)
               \/ TransmitAdd(c) \/ TransmitSend(c) \/ TransmitWrite(c)
               \/ TransmitFail(c) \/ TransmitWait(c) \/ TransmitErase(c)
      BY <1>1, <1>2, <2>1, QuietCalls, MildStep
    <2>2. CASE CloseAbort(c) \/ CloseStop(c)
      BY <1>1, <1>2, <2>2, QuietClose, MildStep
    <2>3. CASE OpenStart(c)
      <3>1. CASE stopped
        BY <1>1, <2>3, <3>1, StartStep
      <3>2. CASE ~stopped
        <4>1. /\ UNCHANGED <<socket, session, conns, aborting, connectionlost,
                             running, fd>>
              /\ pc[c] = "o_start"
              /\ Return(c)
          BY <2>3, <3>2 DEF OpenStart
        <4>2. Mild(c)
          BY <1>1, <1>2, <4>1, OneMoves, MildCaller DEF Using, Losing, Stopping
        <4> QED
          BY <1>1, <1>2, <4>2, MildStep
      <3> QED
        BY <3>1, <3>2
    <2>4. CASE SetConnectionLost(c)
      BY <1>1, <1>2, <2>4, QuietLoss, MildStep, ClosedStep DEF SetConnectionLost
    <2> QED
      BY <1>1, <1>2, <1>3, <2>1, <2>2, <2>3, <2>4, ConnectedStep, StartedStep,
         JoinStep, ClosedStep
      DEF CallerStarts, CallerStep
  <1>4. CASE WorkerStep
    <2>1. CASE SetConnectionLost(Worker)
      BY <1>1, <1>2, <2>1, QuietLoss, MildStep, ClosedStep DEF SetConnectionLost
    <2> QED
      BY <1>1, <1>2, <1>4, <2>1, QuietWork, MildStep DEF WorkerStep
  <1>5. CASE Server \/ UNCHANGED vars
    <2>1. UNCHANGED <<socket, session, conns, aborting, connectionlost, running,
                      mutexTransmit, fd, pc>>
      BY <1>5 DEF Server, ServerRespond, ServerNotify, ServerGone, vars
    <2> QED
      BY <2>1
      DEF UseInv, FlagsExplained, TransmitterSocket, WorkerSocket, ConnsGrow,
          RunsUntilStopped, StartedServed, JoinedForGood, IsOpen, Using, Started,
          Established
  <1> QED
    BY <1>3, <1>4, <1>5 DEF Next

\* There is no connection at the start.
LEMMA UseInit == Init => UseInv
  <1> SUFFICES ASSUME Init PROVE UseInv
    OBVIOUS
  <1>1. /\ \A c \in Callers : pc[c] = "idle"
        /\ pc[Worker] = "none"
    BY ThreadAssumption DEF Init, Threads
  <1>2. ~IsOpen /\ ~Started /\ session <= conns /\ socket <= conns
    BY <1>1 DEF Init, IsOpen, Started, Established, NoSocket
  <1> QED
    BY <1>1, <1>2
    DEF UseInv, FlagsExplained, TransmitterSocket, WorkerSocket, ConnsGrow,
        RunsUntilStopped, StartedServed, JoinedForGood, InLoop, Losing

\* The invariant holds in every reachable state.
LEMMA UseInvariant == Spec => [](DeliveryInv /\ UseInv)
  <1>1. DeliveryInv /\ UseInv /\ [Next]_vars => (DeliveryInv /\ UseInv)'
    BY UseStep, DeliveryStep
  <1> QED
    BY UseInit, DeliveryInit, <1>1, PTL DEF Spec

\* A thread moves no caller but itself.
LEMMA OthersStay ==
  ASSUME TypeOK, NEW c \in Callers
  PROVE  /\ \A d \in Callers : d # c /\ (CallerStarts(d) \/ CallerStep(d))
                                => pc'[c] = pc[c]
         /\ WorkerStep => pc'[c] = pc[c]
  <1>1. c \in Threads /\ c # Worker /\ Callers \subseteq Threads
    BY ThreadAssumption DEF Threads
  <1>2. ASSUME NEW t \in Threads, SetConnectionLost(t), t # c
        PROVE  pc'[c] = pc[c]
    BY <1>1, <1>2, OneMoves
    DEF SetConnectionLost, LostCheck, LostSet, LostAbort, LostClose, LostCallback
  <1>3. ASSUME NEW d \in Callers, d # c, CallerStarts(d) \/ CallerStep(d)
        PROVE  pc'[c] = pc[c]
    <2>1. CASE CallerStarts(d)
      BY <1>1, <1>3, <2>1, OneMoves
      DEF CallerStarts, Open, Close, Terminate, TransmitMessage, LockTransmit
    <2>2. CASE OpenStart(d) \/ CloseJoin(d)
      BY <1>1, <1>3, <2>2, OneMoves DEF OpenStart, CloseJoin, TypeOK, PcTypeOK
    <2>3. CASE OpenConnection(d) \/ OpenUnreachable(d) \/ OpenConnected(d)
               \/ OpenStarted(d) \/ CloseAbort(d) \/ CloseStop(d)
               \/ CloseConnection(d)
      BY <1>1, <1>3, <2>3, OneMoves
      DEF OpenConnection, OpenUnreachable, OpenConnected, OpenStarted, CloseAbort,
          CloseStop, CloseConnection
    <2>4. CASE TransmitAdd(d) \/ TransmitSend(d) \/ TransmitWrite(d)
               \/ TransmitFail(d) \/ TransmitWait(d) \/ TransmitErase(d)
      BY <1>1, <1>3, <2>4, OneMoves
      DEF TransmitAdd, TransmitSend, TransmitWrite, TransmitFail, TransmitWait,
          TransmitErase, EraseAndDelete
    <2> QED
      BY <1>1, <1>2, <1>3, <2>1, <2>2, <2>3, <2>4 DEF CallerStep
  <1>4. ASSUME WorkerStep PROVE pc'[c] = pc[c]
    <2>1. Worker \in Threads
      BY DEF Threads
    <2> QED
      BY <1>1, <1>2, <1>4, <2>1, OneMoves
      DEF WorkerStep, WorkerStartup, WorkerLoop, WorkerRead, WorkerReceive,
          WorkerGarbled, WorkerNothing, WorkerClosed, WorkerAfterRead,
          WorkerFind, WorkerCopy, WorkerSignal, WorkerNotify, WorkerClear,
          WorkerExit
  <1> QED
    BY <1>3, <1>4

-------------------------------------------------------------------------------
(***************************************************************************)
(* After Open() returned true the worker reads the connection until the    *)
(* connection is lost or somebody closes it, whatever Open() calls failed  *)
(* and whatever workers ended before.                                      *)
(***************************************************************************)
THEOREM SessionIsServed == Spec => []SessionServed
  <1>1. UseInv => SessionServed
    BY DEF UseInv, StartedServed, Started, SessionServed
  <1> QED
    BY <1>1, UseInvariant, PTL

(***************************************************************************)
(* m_aborting and m_connectionlost never stay set on an established        *)
(* connection: somebody is then on the way to close it.                    *)
(***************************************************************************)
THEOREM SessionIsUsable == Spec => []SessionUsable
  <1>1. UseInv => SessionUsable
    <2> SUFFICES ASSUME UseInv, Established, aborting \/ connectionlost
                 PROVE  \/ \E c \in Callers : pc[c] \in Closing
                        \/ \E t \in Threads : TearingDown(t)
      BY DEF SessionUsable
    <2>1. IsOpen
      BY DEF Established, IsOpen
    <2> QED
      BY <2>1 DEF UseInv, FlagsExplained, Closing, TearingDown
  <1> QED
    BY <1>1, UseInvariant, PTL

(***************************************************************************)
(* A failed read or write tears down the connection it happened on and     *)
(* never the one a later Open() made.                                      *)
(***************************************************************************)
THEOREM LossIsOwn == Spec => []LossIsOfThisSession
  <1>1. UseInv => LossIsOfThisSession
    <2> SUFFICES ASSUME UseInv, Established, NEW t \in Threads, TearingDown(t)
                 PROVE  fd[t] = session
      BY DEF LossIsOfThisSession
    <2>1. IsOpen /\ Started /\ Using(t)
      BY DEF Established, IsOpen, Started, TearingDown, Using, Losing
    <2> QED
      BY <2>1 DEF UseInv, TransmitterSocket, WorkerSocket, Threads, Established
  <1> QED
    BY <1>1, UseInvariant, PTL

(***************************************************************************)
(* Close() leaves no worker, no socket and nobody in m_queue: with the     *)
(* lock held no Open() can start a worker after the join, and no           *)
(* TransmitMessage() can be waiting.                                       *)
(***************************************************************************)
THEOREM CloseIsComplete == Spec => CloseLeavesNothing
  <1>1. ASSUME DeliveryInv, UseInv, [Next]_vars
        PROVE  [\A c \in Callers :
                  pc[c] = "x_close" /\ mutexTransmit = c /\ pc'[c] = "idle" =>
                    pc'[Worker] = "none" /\ socket' = NoSocket /\ emptyQueue']_vars
    <2> SUFFICES ASSUME Next, NEW c \in Callers, pc[c] = "x_close",
                        mutexTransmit = c, pc'[c] = "idle"
                 PROVE  pc'[Worker] = "none" /\ socket' = NoSocket /\ emptyQueue'
      BY <1>1
    <2>1. c \in Threads /\ c # Worker /\ Worker \in Threads /\ TypeOK
      BY <1>1, ThreadAssumption DEF Threads, DeliveryInv
    <2>2. CloseConnection(c)
      <3>1. UNCHANGED pc => FALSE
        OBVIOUS
      <3>2. ~WorkerStep /\ ~Server
        BY <2>1, <3>1, OthersStay
        DEF Server, ServerRespond, ServerNotify, ServerGone
      <3>3. CallerStarts(c) \/ CallerStep(c)
        BY <2>1, <3>2, OthersStay DEF Next
      <3> QED
        BY <3>3
        DEF CallerStarts, CallerStep, Open, Close, Terminate, TransmitMessage,
            LockTransmit, OpenConnection, OpenUnreachable, OpenConnected,
            OpenStart, OpenStarted, CloseAbort, CloseStop, CloseJoin, TransmitAdd,
            TransmitSend, TransmitWrite, TransmitFail, TransmitWait,
            TransmitErase, SetConnectionLost, LostCheck, LostSet, LostAbort,
            LostClose, LostCallback
    <2>3. pc'[Worker] = pc[Worker] /\ socket' = NoSocket /\ UNCHANGED queue
      BY <2>1, <2>2, OneMoves DEF CloseConnection, ConnectionClose
    <2>4. pc[Worker] = "none"
      BY <1>1 DEF UseInv, JoinedForGood
    <2>5. emptyQueue
      BY <1>1 DEF DeliveryInv, QueueOwned, emptyQueue, Waiting, HasCondition,
                  Losing
    <2> QED
      BY <2>3, <2>4, <2>5 DEF emptyQueue
  <1> QED
    BY <1>1, UseInvariant, PTL DEF Spec, CloseLeavesNothing

===============================================================================

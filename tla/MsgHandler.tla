------------------------------ MODULE MsgHandler ------------------------------
(***************************************************************************)
(* One connection handler of the message server: the thread that runs      *)
(* MsgHandler::Run, the application threads that call QueueNotification,   *)
(* the accept thread of the server that gives a parked persistent handler  *)
(* a new socket, and the thread that calls MsgHandlerBase::Stop.           *)
(*                                                                         *)
(* Requests and responses leave no trace in the handler and are steps      *)
(* without content; notifications are numbered.                            *)
(***************************************************************************)
EXTENDS Integers, Sequences, Functions

CONSTANTS
  Notifiers,      \* threads that call QueueNotification
  Handler,        \* the handler thread
  NoThread,       \* "mutex is free"
  Persistent,     \* m_persistance != PERSIST_CONNECTION_NONE
  QueueSize,      \* m_queuesize
  MaxNotify,      \* bound: number of notifications
  MaxReconnect    \* bound: number of times the client comes back

ASSUME HandlerAssumption ==
  /\ Handler \notin Notifiers
  /\ NoThread \notin Notifiers \cup {Handler}
  /\ Persistent \in BOOLEAN
  /\ QueueSize \in Nat
  /\ MaxNotify \in Nat
  /\ MaxReconnect \in Nat

Notifications == 1 .. MaxNotify

VARIABLES
  running,        \* MsgThread::m_running
  sleeping,       \* MsgThread::m_sleeping
  wakeup,         \* m_signaled of MsgThread::m_wakeup
  disconnected,   \* MsgHandlerBase::m_disconnected
  peer,           \* the socket: client "up", gone in order ("closed"), gone
                  \* with a reset ("reset"), or "shut" by Stop()
  buffered,       \* the client sent a request before it closed the connection
  mutex,          \* MsgHandler::m_mutex: its holder
  queue,          \* MsgHandler::m_queue
  hpc,            \* where the handler thread is
  npc,            \* where each notifier is
  npacket,        \* the notification a notifier holds
  spc,            \* where the stopping thread is
  issued,         \* notifications created so far
  reconnects,     \* reconnections so far
  sent,           \* notifications handed to a socket
  dropped,        \* notifications dropped to limit the queue
  missed          \* the handler fell asleep after Stop() had called Awake()

netVars == <<peer, buffered>>
vars == <<running, sleeping, wakeup, disconnected, netVars, mutex, queue, hpc,
          npc, npacket, spc, issued, reconnects, sent, dropped, missed>>

threadVars == <<running, sleeping, wakeup>>
queueVars == <<mutex, queue, sent, dropped>>
notifyVars == <<npc, npacket, issued>>
histVars == <<reconnects, missed>>

Free == mutex = NoThread

(***************************************************************************)
(* A write succeeds when the kernel takes the data, which it does for a    *)
(* client that has closed its end too, until that one answers with a       *)
(* reset.  A write fails after a reset or shutdown, or by its timeout when *)
(* the client does not read.                                               *)
(***************************************************************************)
WriteSucceeds ==
  \/ peer = "up" /\ UNCHANGED peer
  \/ peer = "closed" /\ peer' \in {"closed", "reset"}

-------------------------------------------------------------------------------
(***************************************************************************)
(* MsgHandler::Run                                                         *)
(***************************************************************************)

\* while(IsRunning())
Loop ==
  /\ hpc = "loop"
  /\ hpc' = IF running THEN "read" ELSE "exit"
  /\ UNCHANGED <<threadVars, disconnected, netVars, queueVars, notifyVars, spc,
                 histVars>>

\* MsgPacket::read returns with or without a request that is then answered
Read ==
  /\ hpc = "read"
  /\ peer = "up" \/ buffered
  /\ buffered' = FALSE
  /\ hpc' = "ready"
  /\ UNCHANGED <<threadVars, disconnected, peer, queueVars, notifyVars, spc,
                 histVars>>

\* MsgPacket::read finds the end of the stream
ReadClosed ==
  /\ hpc = "read"
  /\ peer # "up"
  /\ ~buffered
  /\ disconnected' = TRUE
  /\ hpc' = "closed"
  /\ UNCHANGED <<threadVars, netVars, queueVars, notifyVars, spc, histVars>>

\* mutant: the loop goes on with the dead socket
MutClosed ==
  /\ hpc = "closed"
  /\ hpc' = IF Persistent /\ running THEN "loop" ELSE "exit"
  /\ UNCHANGED <<threadVars, disconnected, netVars, queueVars, notifyVars, spc,
                 histVars>>

\* a persistent handler is parked, any other one ends
Closed ==
  /\ hpc = "closed"
  /\ hpc' = IF Persistent /\ running THEN "sleep" ELSE "exit"
  /\ UNCHANGED <<threadVars, disconnected, netVars, queueVars, notifyVars, spc,
                 histVars>>

\* MsgThread::Sleep() up to the wait
Sleep ==
  /\ hpc = "sleep"
  /\ sleeping' = TRUE
  /\ hpc' = "asleep"
  /\ missed' = (missed \/ spc = "join")
  /\ UNCHANGED <<running, wakeup, disconnected, netVars, queueVars, notifyVars,
                 spc, reconnects>>

\* m_wakeup.Wait(0) returns: there is no timeout
WakeUp ==
  /\ hpc = "asleep"
  /\ wakeup
  /\ wakeup' = FALSE
  /\ sleeping' = FALSE
  /\ hpc' = "ready"
  /\ UNCHANGED <<running, disconnected, netVars, queueVars, notifyVars, spc,
                 histVars>>

\* if(IsDisconnected()) m_disconnected = false
Ready ==
  /\ hpc = "ready"
  /\ disconnected' = FALSE
  /\ hpc' = "lock"
  /\ UNCHANGED <<threadVars, netVars, queueVars, notifyVars, spc, histVars>>

\* std::lock_guard lock(m_mutex), held to the end of the loop body
LockQueue ==
  /\ hpc = "lock"
  /\ Free
  /\ mutex' = Handler
  /\ hpc' = "flush"
  /\ UNCHANGED <<threadVars, disconnected, netVars, queue, sent, dropped,
                 notifyVars, spc, histVars>>

FlushGoesOn == running /\ ~disconnected /\ queue # <<>>

\* mutant: the packet stays in the queue
MutFlushWrite ==
  /\ hpc = "flush"
  /\ FlushGoesOn
  /\ WriteSucceeds
  /\ sent' = sent \cup {Head(queue)}
  /\ UNCHANGED <<threadVars, disconnected, buffered, mutex, queue, dropped, hpc,
                 notifyVars, spc, histVars>>

\* the front of the queue is written and removed
FlushWrite ==
  /\ hpc = "flush"
  /\ FlushGoesOn
  /\ WriteSucceeds
  /\ sent' = sent \cup {Head(queue)}
  /\ queue' = Tail(queue)
  /\ UNCHANGED <<threadVars, disconnected, buffered, mutex, dropped, hpc,
                 notifyVars, spc, histVars>>

\* a write that fails leaves the packet where it is: the loop tries again
FlushRetry ==
  /\ hpc = "flush"
  /\ FlushGoesOn
  /\ UNCHANGED vars

\* mutant: the lock is not released
MutFlushEnd ==
  /\ hpc = "flush"
  /\ ~FlushGoesOn
  /\ hpc' = "loop"
  /\ UNCHANGED <<threadVars, disconnected, netVars, mutex, queue, sent, dropped,
                 notifyVars, spc, histVars>>

FlushEnd ==
  /\ hpc = "flush"
  /\ ~FlushGoesOn
  /\ mutex' = NoThread
  /\ hpc' = "loop"
  /\ UNCHANGED <<threadVars, disconnected, netVars, queue, sent, dropped,
                 notifyVars, spc, histVars>>

\* m_running = false at the end of ThreadWorker
Exit ==
  /\ hpc = "exit"
  /\ running' = FALSE
  /\ hpc' = "ended"
  /\ UNCHANGED <<sleeping, wakeup, disconnected, netVars, queueVars, notifyVars,
                 spc, histVars>>

-------------------------------------------------------------------------------
(***************************************************************************)
(* MsgHandler::QueueNotification                                           *)
(***************************************************************************)

\* mutant: the packet before is stored
MutNotify(n) ==
  /\ npc[n] = "idle"
  /\ issued < MaxNotify
  /\ issued' = issued + 1
  /\ npc' = [npc EXCEPT ![n] = "push"]
  /\ npacket' = [npacket EXCEPT ![n] = issued]
  /\ UNCHANGED <<threadVars, disconnected, netVars, queueVars, hpc, spc, histVars>>

\* the direct attempt
Notify(n) ==
  /\ npc[n] = "idle"
  /\ issued < MaxNotify
  /\ issued' = issued + 1
  /\ \/ /\ ~disconnected
        /\ WriteSucceeds
        /\ sent' = sent \cup {issued + 1}
        /\ UNCHANGED <<npc, npacket>>
     \/ /\ npc' = [npc EXCEPT ![n] = "push"]
        /\ npacket' = [npacket EXCEPT ![n] = issued + 1]
        /\ UNCHANGED <<peer, sent>>
  /\ UNCHANGED <<threadVars, disconnected, buffered, mutex, queue, dropped, hpc,
                 spc, histVars>>

\* while(m_queue.size() > m_queuesize) pop
Surplus == IF Len(queue) > QueueSize THEN Len(queue) - QueueSize ELSE 0

Push(n) ==
  /\ npc[n] = "push"
  /\ Free
  /\ dropped' = dropped \cup Range(SubSeq(queue, 1, Surplus))
  /\ queue' = Append(SubSeq(queue, Surplus + 1, Len(queue)), npacket[n])
  /\ npc' = [npc EXCEPT ![n] = "idle"]
  /\ UNCHANGED <<threadVars, disconnected, netVars, mutex, sent, hpc, npacket,
                 issued, spc, histVars>>

-------------------------------------------------------------------------------
(***************************************************************************)
(* MsgServer::Run for a client that comes back: it waits until the handler *)
(* sleeps, then SetSocket and Awake.  The accept thread has been joined    *)
(* when the handlers are stopped.                                          *)
(***************************************************************************)
Reconnect ==
  /\ spc = "none"
  /\ Persistent
  /\ disconnected
  /\ sleeping
  /\ reconnects < MaxReconnect
  /\ reconnects' = reconnects + 1
  /\ peer' = "up"
  /\ buffered' = FALSE
  /\ disconnected' = FALSE
  /\ wakeup' = TRUE
  /\ UNCHANGED <<running, sleeping, queueVars, hpc, notifyVars, spc, missed>>

\* the client closes its end, or vanishes and the connection is reset
ClientGone ==
  /\ peer = "up"
  /\ \/ peer' = "closed" /\ buffered' \in BOOLEAN
     \/ peer' = "reset" /\ buffered' = FALSE
  /\ UNCHANGED <<threadVars, disconnected, queueVars, hpc, notifyVars, spc,
                 histVars>>

-------------------------------------------------------------------------------
(***************************************************************************)
(* MsgHandlerBase::Stop: shutdown(m_sock), then MsgThread::Stop            *)
(***************************************************************************)
StopShutdown ==
  /\ spc = "none"
  /\ peer' = "shut"
  /\ buffered' = FALSE
  /\ spc' = "running"
  /\ UNCHANGED <<threadVars, disconnected, queueVars, hpc, notifyVars, histVars>>

StopRunning ==
  /\ spc = "running"
  /\ running' = FALSE
  /\ spc' = "awake"
  /\ UNCHANGED <<sleeping, wakeup, disconnected, netVars, queueVars, hpc, notifyVars,
                 histVars>>

\* mutant: Stop() does not wake the thread
MutStopAwake ==
  /\ spc = "awake"
  /\ spc' = "join"
  /\ UNCHANGED <<threadVars, disconnected, netVars, queueVars, hpc, notifyVars,
                 histVars>>

\* Awake() signals only a thread that has m_sleeping set already
StopAwake ==
  /\ spc = "awake"
  /\ wakeup' = (wakeup \/ sleeping)
  /\ spc' = "join"
  /\ UNCHANGED <<running, sleeping, disconnected, netVars, queueVars, hpc,
                 notifyVars, histVars>>

StopJoin ==
  /\ spc = "join"
  /\ hpc = "ended"
  /\ spc' = "done"
  /\ UNCHANGED <<threadVars, disconnected, netVars, queueVars, hpc, notifyVars,
                 histVars>>

-------------------------------------------------------------------------------
Init ==
  /\ running = TRUE
  /\ sleeping = FALSE
  /\ wakeup = FALSE
  /\ disconnected = FALSE
  /\ peer = "up"
  /\ buffered = FALSE
  /\ mutex = NoThread
  /\ queue = <<>>
  /\ hpc = "loop"
  /\ npc = [n \in Notifiers |-> "idle"]
  /\ npacket = [n \in Notifiers |-> 0]
  /\ spc = "none"
  /\ issued = 0
  /\ reconnects = 0
  /\ sent = {}
  /\ dropped = {}
  /\ missed = FALSE

HandlerStep ==
  \/ Loop
  \/ Read
  \/ ReadClosed
  \/ Closed
  \/ Sleep
  \/ WakeUp
  \/ Ready
  \/ LockQueue
  \/ FlushWrite
  \/ FlushRetry
  \/ FlushEnd
  \/ Exit

StopStep ==
  \/ StopRunning
  \/ StopAwake
  \/ StopJoin

Next ==
  \/ HandlerStep
  \/ \E n \in Notifiers : Notify(n) \/ Push(n)
  \/ Reconnect
  \/ ClientGone
  \/ StopShutdown
  \/ StopStep

Spec == Init /\ [][Next]_vars

(***************************************************************************)
(* The threads are scheduled, and a mutex that is released again and again *)
(* is obtained.  Whether the client goes or comes is up to the client, and *)
(* whether Stop() is called up to the application.                         *)
(***************************************************************************)
FairSpec ==
  /\ Spec
  /\ SF_vars(HandlerStep)
  /\ WF_vars(StopStep)
  /\ \A n \in Notifiers : SF_vars(Push(n))

-------------------------------------------------------------------------------
TypeOK ==
  /\ running \in BOOLEAN
  /\ sleeping \in BOOLEAN
  /\ wakeup \in BOOLEAN
  /\ disconnected \in BOOLEAN
  /\ peer \in {"up", "closed", "reset", "shut"}
  /\ buffered \in BOOLEAN
  /\ mutex \in {Handler, NoThread}
  /\ queue \in Seq(Notifications)
  /\ hpc \in {"loop", "read", "closed", "sleep", "asleep", "ready", "lock",
              "flush", "exit", "ended"}
  /\ npc \in [Notifiers -> {"idle", "push"}]
  /\ npacket \in [Notifiers -> 0 .. MaxNotify]
  /\ spc \in {"none", "running", "awake", "join", "done"}
  /\ issued \in 0 .. MaxNotify
  /\ reconnects \in 0 .. MaxReconnect
  /\ sent \in SUBSET Notifications
  /\ dropped \in SUBSET Notifications
  /\ missed \in BOOLEAN

\* the notifications QueueNotification still has in its hands
InHands == {npacket[n] : n \in {m \in Notifiers : npc[m] = "push"}}

Fate(n) ==
  CASE n > issued -> "new"
    [] n <= issued /\ n \in sent -> "sent"
    [] n <= issued /\ n \in dropped -> "lost"
    [] n \in InHands -> "held"
    [] OTHER -> "stored"

Queue == INSTANCE NotificationQueue
           WITH Limit <- QueueSize, store <- queue, fate <- [n \in Notifications |-> Fate(n)]

(***************************************************************************)
(* The handler implements the notification queue: no notification is lost  *)
(* on the way, stored or sent twice, or overtaken in the queue, whatever   *)
(* the client, Stop() and the other notifiers do meanwhile; only the limit *)
(* of the queue drops, which is applied before the push and so leaves one  *)
(* notification more than m_queuesize.                                     *)
(***************************************************************************)
ImplementsQueue == Queue!Spec

(***************************************************************************)
(* Stop() returns, or the handler has gone to sleep after Stop() looked    *)
(* whether it sleeps: there is no other way to hang.                       *)
(***************************************************************************)
StopReturnsUnlessWakeupLost ==
  spc = "running" ~> spc = "done" \/ missed

\* The flush loop repeats a write that fails, with the queue locked.
FlushStuck == <>[](hpc = "flush")

(***************************************************************************)
(* A notification that could not be sent at once gets out of the hands of  *)
(* QueueNotification: only a handler that is busy for ever with a write    *)
(* that fails keeps the notifier waiting.                                  *)
(***************************************************************************)
NotifyReturns ==
  \/ \A n \in Notifiers : npc[n] = "push" ~> npc[n] = "idle"
  \/ FlushStuck

(***************************************************************************)
(* A persistent handler whose client is gone comes to wait for the return  *)
(* of the client, or is stopped: there, too, the flush loop is the only    *)
(* thing that can keep it.                                                 *)
(***************************************************************************)
LossParksHandler ==
  \/ (Persistent /\ peer \in {"closed", "reset"}) ~> (sleeping \/ peer = "shut")
  \/ FlushStuck

===============================================================================

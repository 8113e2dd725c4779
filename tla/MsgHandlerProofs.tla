---------------------------- MODULE MsgHandlerProofs ----------------------------
(***************************************************************************)
(* Proofs about MsgHandler, for every set of notifiers, every queue size,  *)
(* every number of notifications and of reconnections.                     *)
(***************************************************************************)
EXTENDS MsgHandler, SequenceTheorems, TLAPS

USE DEF netVars, threadVars, queueVars, notifyVars, histVars

(***************************************************************************)
(* A notification is in one place: sent, dropped, at one position of the   *)
(* queue, or in the hands of one notifier.                                 *)
(***************************************************************************)
QueueApart ==
  /\ \A i \in 1 .. Len(queue) : queue[i] <= issued /\ queue[i] \notin sent \union dropped
  /\ \A i, j \in 1 .. Len(queue) : queue[i] = queue[j] => i = j

HandsApart ==
  \A n \in Notifiers : npc[n] = "push" =>
    /\ npacket[n] \in 1 .. issued
    /\ npacket[n] \notin sent \union dropped
    /\ \A i \in 1 .. Len(queue) : queue[i] # npacket[n]
    /\ \A m \in Notifiers : npc[m] = "push" /\ npacket[m] = npacket[n] => m = n

FatesApart ==
  /\ \A k \in sent \union dropped : k <= issued
  /\ sent \intersect dropped = {}

HandlerInv == TypeOK /\ QueueApart /\ HandsApart /\ FatesApart

-------------------------------------------------------------------------------
\* The initial states satisfy the invariant.
LEMMA InitHandler == Init => HandlerInv
  <1> SUFFICES ASSUME Init PROVE HandlerInv
    OBVIOUS
  <1>1. queue \in Seq(Notifications) /\ Len(queue) = 0
    BY DEF Init
  <1>2. TypeOK
    <2>1. issued \in 0 .. MaxNotify /\ reconnects \in 0 .. MaxReconnect
      BY HandlerAssumption DEF Init
    <2>2. npacket \in [Notifiers -> 0 .. MaxNotify]
      BY HandlerAssumption DEF Init
    <2> QED
      BY <1>1, <2>1, <2>2 DEF Init, TypeOK
  <1>3. QueueApart /\ HandsApart /\ FatesApart
    BY <1>1 DEF Init, QueueApart, HandsApart, FatesApart
  <1> QED
    BY <1>2, <1>3 DEF HandlerInv

\* The queue without its head.
LEMMA Popped ==
  ASSUME TypeOK, queue # <<>>, queue' = Tail(queue)
  PROVE  /\ Head(queue) = queue[1] /\ Head(queue) \in Notifications
         /\ Len(queue) \in Nat \ {0}
         /\ queue' \in Seq(Notifications)
         /\ Len(queue') = Len(queue) - 1
         /\ \A i \in 1 .. Len(queue') : queue'[i] = queue[i + 1]
  BY DEF TypeOK

\* The queue after a push: a suffix of what it was, and the new packet.
LEMMA Pushed ==
  ASSUME TypeOK, NEW p \in Notifications,
         queue' = Append(SubSeq(queue, Surplus + 1, Len(queue)), p)
  PROVE  /\ Len(queue) \in Nat /\ Surplus \in 0 .. Len(queue)
         /\ queue' \in Seq(Notifications)
         /\ Len(queue') = Len(queue) - Surplus + 1
         /\ \A i \in 1 .. Len(queue) - Surplus : queue'[i] = queue[Surplus + i]
         /\ queue'[Len(queue')] = p
         /\ Range(SubSeq(queue, 1, Surplus)) = {queue[i] : i \in 1 .. Surplus}
  <1>1. Len(queue) \in Nat /\ Surplus \in 0 .. Len(queue)
    BY HandlerAssumption DEF TypeOK, Surplus
  <1> DEFINE kept == SubSeq(queue, Surplus + 1, Len(queue))
             gone == SubSeq(queue, 1, Surplus)
  <1>2. /\ kept \in Seq(Notifications)
        /\ Len(kept) = Len(queue) - Surplus
        /\ \A i \in 1 .. Len(queue) - Surplus : kept[i] = queue[Surplus + i]
    <2>1. \A i \in Surplus + 1 .. Len(queue) : queue[i] \in Notifications
      BY <1>1 DEF TypeOK
    <2>2. Surplus + 1 \in Int /\ Len(queue) \in Int
      BY <1>1
    <2>3. /\ kept \in Seq(Notifications)
          /\ Len(kept) = IF Surplus + 1 <= Len(queue)
                         THEN Len(queue) - (Surplus + 1) + 1 ELSE 0
          /\ \A i \in 1 .. Len(queue) - (Surplus + 1) + 1 :
               kept[i] = queue[(Surplus + 1) + i - 1]
      BY <2>1, <2>2, SubSeqProperties
    <2> QED
      BY <1>1, <2>3
  <1>3. /\ gone \in Seq(Notifications)
        /\ Len(gone) = Surplus
        /\ \A i \in 1 .. Surplus : gone[i] = queue[i]
    <2>1. \A i \in 1 .. Surplus : queue[i] \in Notifications
      BY <1>1 DEF TypeOK
    <2>2. /\ gone \in Seq(Notifications)
          /\ Len(gone) = IF 1 <= Surplus THEN Surplus - 1 + 1 ELSE 0
          /\ \A i \in 1 .. Surplus - 1 + 1 : gone[i] = queue[1 + i - 1]
      BY <1>1, <2>1, SubSeqProperties
    <2> QED
      BY <1>1, <2>2 DEF TypeOK
  <1>4. Range(gone) = {queue[i] : i \in 1 .. Surplus}
    <2>1. DOMAIN gone = 1 .. Surplus
      BY <1>3
    <2> QED
      BY <1>3, <2>1 DEF Range
  <1> HIDE DEF kept, gone
  <1>5. /\ queue' \in Seq(Notifications)
        /\ Len(queue') = Len(kept) + 1
        /\ \A i \in 1 .. Len(kept) : queue'[i] = kept[i]
        /\ queue'[Len(kept) + 1] = p
    BY <1>2 DEF kept
  <1> QED
    BY <1>1, <1>2, <1>4, <1>5 DEF gone


-------------------------------------------------------------------------------
\* the variables the queue of notifications consists of
placeVars == <<queue, sent, dropped, issued, npc, npacket>>

\* A step that leaves these alone leaves every notification where it is.
LEMMA PlacesKept ==
  ASSUME HandlerInv, TypeOK', UNCHANGED placeVars
  PROVE  HandlerInv'
  BY DEF HandlerInv, QueueApart, HandsApart, FatesApart, placeVars

\* The handler thread, apart from the flush, the network, the accept thread and
\* Stop() do so, and they keep the types.
LEMMA OtherSteps ==
  ASSUME TypeOK,
         \/ Loop \/ Read \/ ReadClosed \/ Closed \/ Sleep \/ WakeUp \/ Ready
         \/ LockQueue \/ FlushRetry \/ FlushEnd \/ Exit
         \/ Reconnect \/ ClientGone \/ StopShutdown \/ StopStep \/ UNCHANGED vars
  PROVE  TypeOK' /\ UNCHANGED placeVars
  <1> USE DEF TypeOK, placeVars
  <1>1. CASE Loop \/ Closed
    BY <1>1 DEF Loop, Closed
  <1>2. CASE Read
    BY <1>2 DEF Read
  <1>3. CASE ReadClosed \/ WakeUp \/ Ready
    <2>1. CASE ReadClosed
      BY <2>1 DEF ReadClosed
    <2>2. CASE WakeUp
      BY <2>2 DEF WakeUp
    <2>3. CASE Ready
      BY <2>3 DEF Ready
    <2> QED
      BY <1>3, <2>1, <2>2, <2>3
  <1>4. CASE Sleep
    <2>1. missed' \in BOOLEAN
      BY <1>4, Zenon DEF Sleep
    <2> QED
      BY <1>4, <2>1 DEF Sleep
  <1>5. CASE LockQueue \/ FlushEnd
    BY <1>5 DEF LockQueue, FlushEnd
  <1>6. CASE Exit
    BY <1>6 DEF Exit
  <1>7. CASE Reconnect
    <2>1. reconnects' \in 0 .. MaxReconnect
      BY <1>7, HandlerAssumption DEF Reconnect
    <2> QED
      BY <1>7, <2>1 DEF Reconnect
  <1>8. CASE ClientGone
    <2>1. buffered' \in BOOLEAN /\ peer' \in {"closed", "reset"}
      BY <1>8 DEF ClientGone
    <2> QED
      BY <1>8, <2>1 DEF ClientGone
  <1>9. CASE StopShutdown
    BY <1>9 DEF StopShutdown
  <1>10. CASE StopRunning \/ StopJoin
    <2>1. CASE StopRunning
      BY <2>1, ZenonT(40) DEF StopRunning
    <2>2. CASE StopJoin
      BY <2>2 DEF StopJoin
    <2> QED
      BY <1>10, <2>1, <2>2
  <1>11. CASE StopAwake
    <2>1. wakeup' \in BOOLEAN
      BY <1>11, Zenon DEF StopAwake
    <2> QED
      BY <1>11, <2>1 DEF StopAwake
  <1>12. CASE FlushRetry \/ UNCHANGED vars
    BY <1>12 DEF FlushRetry, vars
  <1> QED
    BY <1>1, <1>2, <1>3, <1>4, <1>5, <1>6, <1>7, <1>8, <1>9, <1>10, <1>11, <1>12
    DEF StopStep

\* The flush moves the head of the queue to what was sent.
LEMMA FlushKeeps ==
  ASSUME HandlerInv, FlushWrite
  PROVE  HandlerInv'
  <1> USE DEF HandlerInv
  <1>1. /\ queue # <<>> /\ queue' = Tail(queue)
        /\ sent' = sent \union {Head(queue)}
        /\ UNCHANGED <<dropped, issued, npc, npacket>>
    BY DEF FlushWrite, FlushGoesOn
  <1>2. /\ Head(queue) = queue[1] /\ Head(queue) \in Notifications
        /\ Len(queue) \in Nat \ {0}
        /\ queue' \in Seq(Notifications)
        /\ Len(queue') = Len(queue) - 1
        /\ \A i \in 1 .. Len(queue') : queue'[i] = queue[i + 1]
    BY <1>1, Popped
  <1>3. TypeOK'
    BY <1>1, <1>2 DEF FlushWrite, WriteSucceeds, TypeOK
  <1>4. 1 \in 1 .. Len(queue) /\ \A i \in 1 .. Len(queue') : i + 1 \in 1 .. Len(queue) /\ i + 1 # 1
    BY <1>2
  <1>5. QueueApart'
    BY <1>1, <1>2, <1>4 DEF QueueApart
  <1>6. HandsApart'
    BY <1>1, <1>2, <1>4 DEF HandsApart
  <1>7. FatesApart'
    BY <1>1, <1>2, <1>4 DEF FatesApart, QueueApart
  <1> QED
    BY <1>3, <1>5, <1>6, <1>7

\* A new notification is sent at once, or comes into the hands of its notifier.
LEMMA NotifyKeeps ==
  ASSUME HandlerInv, NEW n \in Notifiers, Notify(n)
  PROVE  HandlerInv'
  <1> USE DEF HandlerInv
  <1>1. issued + 1 \in Notifications /\ issued' = issued + 1 /\ issued' \in 0 .. MaxNotify
    BY HandlerAssumption DEF Notify, TypeOK, Notifications
  <1>2. UNCHANGED <<queue, dropped>> /\ Len(queue) \in Nat
    BY DEF Notify, TypeOK
  <1>3. \A i \in 1 .. Len(queue) : queue[i] \in Notifications
    BY DEF TypeOK
  <1>4. \A k \in Notifications : k <= issued => k <= issued' /\ k # issued + 1
    BY <1>1 DEF Notifications, TypeOK
  <1>5. CASE /\ WriteSucceeds
             /\ sent' = sent \union {issued + 1}
             /\ UNCHANGED <<npc, npacket>>
    <2>1. TypeOK'
      BY <1>1, <1>5 DEF Notify, WriteSucceeds, TypeOK
    <2>2. QueueApart'
      BY <1>1, <1>2, <1>3, <1>4, <1>5 DEF QueueApart
    <2>3. HandsApart'
      BY <1>1, <1>2, <1>4, <1>5 DEF HandsApart, TypeOK
    <2>4. FatesApart'
      BY <1>1, <1>2, <1>4, <1>5 DEF FatesApart, TypeOK, Notifications
    <2> QED
      BY <2>1, <2>2, <2>3, <2>4
  <1>6. CASE /\ npc' = [npc EXCEPT ![n] = "push"]
             /\ npacket' = [npacket EXCEPT ![n] = issued + 1]
             /\ UNCHANGED <<peer, sent>>
    <2>1. TypeOK'
      BY <1>1, <1>6 DEF Notify, TypeOK, Notifications
    <2>2. QueueApart'
      BY <1>1, <1>2, <1>3, <1>4, <1>6 DEF QueueApart
    <2>3. /\ npacket'[n] = issued + 1
          /\ \A m \in Notifiers \ {n} : npc'[m] = npc[m] /\ npacket'[m] = npacket[m]
      BY <1>6 DEF TypeOK
    <2>4. /\ issued + 1 \in 1 .. issued'
          /\ issued + 1 \notin sent \union dropped
          /\ \A i \in 1 .. Len(queue) : queue[i] # issued + 1
          /\ \A m \in Notifiers \ {n} : npc[m] = "push" => npacket[m] # issued + 1
      BY <1>1, <1>3, <1>4 DEF QueueApart, HandsApart, FatesApart, TypeOK, Notifications
    <2>5. HandsApart'
      BY <1>1, <1>2, <1>4, <1>6, <2>3, <2>4 DEF HandsApart, TypeOK
    <2>6. FatesApart'
      BY <1>1, <1>2, <1>4, <1>6 DEF FatesApart, TypeOK
    <2> QED
      BY <2>1, <2>2, <2>5, <2>6
  <1> QED
    BY <1>5, <1>6 DEF Notify

\* A push moves a notification from the hands of its notifier to the end of the
\* queue, and the first ones to what was dropped.
LEMMA PushKeeps ==
  ASSUME HandlerInv, NEW n \in Notifiers, Push(n)
  PROVE  HandlerInv'
  <1> USE DEF HandlerInv
  <1> DEFINE p == npacket[n]
             last == Len(queue')
             gone == {queue[i] : i \in 1 .. Surplus}
  <1>1. npc[n] = "push" /\ p \in Notifications /\ issued \in Nat
    BY DEF Push, HandsApart, TypeOK, Notifications
  <1>2. /\ Len(queue) \in Nat /\ Surplus \in 0 .. Len(queue)
        /\ queue' \in Seq(Notifications)
        /\ last = Len(queue) - Surplus + 1
        /\ \A i \in 1 .. Len(queue) - Surplus : queue'[i] = queue[Surplus + i]
        /\ queue'[last] = p
        /\ dropped' = dropped \union gone
    BY <1>1, Pushed DEF Push
  <1>3. /\ npc' = [npc EXCEPT ![n] = "idle"]
        /\ UNCHANGED <<sent, issued, npacket>>
    BY DEF Push
  <1> HIDE DEF last, gone, p
  <1>4. \A k \in gone : k \in Notifications /\ k <= issued /\ k \notin sent /\ k # p
    BY <1>1, <1>2 DEF gone, p, QueueApart, HandsApart, TypeOK
  <1>5. TypeOK'
    BY <1>2, <1>3, <1>4 DEF Push, TypeOK
  <1>6. \A i \in 1 .. last :
          \/ i = last /\ queue'[i] = p
          \/ i < last /\ Surplus + i \in Surplus + 1 .. Len(queue) /\ queue'[i] = queue[Surplus + i]
    BY <1>2
  <1>7. /\ p <= issued /\ p \notin sent \union dropped'
        /\ \A i \in 1 .. Len(queue) : queue[i] # p
    BY <1>1, <1>2, <1>4 DEF p, HandsApart, TypeOK
  <1>8. \A i \in Surplus + 1 .. Len(queue) :
          /\ queue[i] <= issued /\ queue[i] \notin sent \union dropped'
          /\ \A j \in Surplus + 1 .. Len(queue) : queue[i] = queue[j] => i = j
    BY <1>2 DEF gone, QueueApart
  <1>9. QueueApart'
    <2>1. ASSUME NEW i \in 1 .. last
          PROVE  queue'[i] <= issued /\ queue'[i] \notin sent \union dropped'
      BY <1>6, <1>7, <1>8
    <2>2. ASSUME NEW i \in 1 .. last, NEW j \in 1 .. last, queue'[i] = queue'[j]
          PROVE  i = j
      BY <1>2, <1>6, <1>7, <1>8, <2>2
    <2> QED
      BY <1>3, <2>1, <2>2 DEF QueueApart, last
  <1>10. HandsApart'
    <2> SUFFICES ASSUME NEW m \in Notifiers, npc'[m] = "push"
                 PROVE  /\ npacket[m] \in 1 .. issued
                        /\ npacket[m] \notin sent \union dropped'
                        /\ \A i \in 1 .. last : queue'[i] # npacket[m]
                        /\ \A k \in Notifiers :
                             npc'[k] = "push" /\ npacket[k] = npacket[m] => k = m
      BY <1>3 DEF HandsApart, last
    <2>1. m # n /\ npc[m] = "push" /\ npacket[m] # p
      BY <1>1, <1>3 DEF TypeOK, HandsApart, p
    <2>2. \A k \in Notifiers : npc'[k] = "push" => npc[k] = "push"
      BY <1>3 DEF TypeOK
    <2>3. npacket[m] \notin gone
      BY <1>2, <2>1 DEF HandsApart, gone
    <2>4. \A i \in 1 .. last : queue'[i] # npacket[m]
      BY <1>2, <1>6, <2>1 DEF HandsApart
    <2> QED
      BY <1>2, <2>1, <2>2, <2>3, <2>4 DEF HandsApart
  <1>11. FatesApart'
    BY <1>2, <1>3, <1>4 DEF FatesApart
  <1> QED
    BY <1>5, <1>9, <1>10, <1>11

\* Every step keeps the invariant.
LEMMA StepKeeps ==
  ASSUME HandlerInv, [Next]_vars
  PROVE  HandlerInv'
  <1>1. TypeOK
    BY DEF HandlerInv
  <1> QED
    BY <1>1, OtherSteps, PlacesKept, FlushKeeps, NotifyKeeps, PushKeeps DEF Next, HandlerStep

(***************************************************************************)
(* The variables of the handler have their types.                          *)
(***************************************************************************)
THEOREM TypeCorrect == Spec => []TypeOK
  <1>1. HandlerInv => TypeOK
    BY DEF HandlerInv
  <1> QED
    BY <1>1, InitHandler, StepKeeps, PTL DEF Spec


-------------------------------------------------------------------------------
(***************************************************************************)
(* The refinement of NotificationQueue                                     *)
(***************************************************************************)
fates == [k \in Notifications |-> Fate(k)]

\* What the fate of a notification says about the place it is in.
LEMMA FateIs ==
  ASSUME HandlerInv, NEW k \in Notifications
  PROVE  /\ k > issued => Fate(k) = "new"
         /\ k \in sent => Fate(k) = "sent"
         /\ k \in dropped => Fate(k) = "lost"
         /\ k \in InHands => Fate(k) = "held"
         /\ k <= issued /\ k \notin sent \union dropped \union InHands => Fate(k) = "stored"
  <1>1. issued \in Nat /\ k \in Nat
    BY DEF HandlerInv, TypeOK, Notifications
  <1>2. k \in sent \union dropped => k <= issued
    BY DEF HandlerInv, FatesApart
  <1>3. k \in InHands => k <= issued /\ k \notin sent \union dropped
    BY <1>1 DEF HandlerInv, HandsApart, InHands
  <1>4. k \in sent => k \notin dropped
    BY DEF HandlerInv, FatesApart
  <1>5. k > issued <=> ~(k <= issued)
    BY <1>1
  <1> QED
    BY <1>2, <1>3, <1>4, <1>5 DEF Fate

\* The same after a step.
LEMMA FateWillBe ==
  ASSUME HandlerInv', NEW k \in Notifications
  PROVE  /\ k > issued' => Fate(k)' = "new"
         /\ k \in sent' => Fate(k)' = "sent"
         /\ k \in dropped' => Fate(k)' = "lost"
         /\ k \in InHands' => Fate(k)' = "held"
         /\ k <= issued' /\ k \notin sent' \union dropped' \union InHands' =>
              Fate(k)' = "stored"
  <1>1. issued' \in Nat /\ k \in Nat
    BY DEF HandlerInv, TypeOK, Notifications
  <1>2. k \in sent' \union dropped' => k <= issued'
    BY DEF HandlerInv, FatesApart
  <1>3. k \in InHands' => k <= issued' /\ k \notin sent' \union dropped'
    BY <1>1 DEF HandlerInv, HandsApart, InHands
  <1>4. k \in sent' => k \notin dropped'
    BY DEF HandlerInv, FatesApart
  <1>5. k > issued' <=> ~(k <= issued')
    BY <1>1
  <1> QED
    BY <1>2, <1>3, <1>4, <1>5 DEF Fate

\* A step that moves no notification is a stuttering step of the queue.
LEMMA Stutters ==
  ASSUME UNCHANGED placeVars
  PROVE  UNCHANGED Queue!vars
  <1>1. InHands' = InHands
    BY DEF placeVars, InHands
  <1>2. \A k \in Notifications : Fate(k)' = Fate(k)
    BY <1>1 DEF placeVars, Fate
  <1> QED
    BY <1>2 DEF Queue!vars, placeVars

\* The flush delivers the oldest stored notification.
LEMMA FlushDelivers ==
  ASSUME HandlerInv, HandlerInv', FlushWrite
  PROVE  Queue!Deliver
  <1>1. /\ queue # <<>> /\ queue' = Tail(queue)
        /\ sent' = sent \union {Head(queue)}
        /\ UNCHANGED <<dropped, issued, npc, npacket>>
    BY DEF FlushWrite, FlushGoesOn
  <1>2. PICK h \in Notifications : h = Head(queue)
    BY <1>1, Popped DEF HandlerInv
  <1>3. InHands' = InHands
    BY <1>1 DEF InHands
  <1>4. Fate(h)' = "sent"
    BY <1>1, <1>2, FateWillBe
  <1>5. \A k \in Notifications \ {h} : Fate(k)' = Fate(k)
    BY <1>1, <1>2, <1>3 DEF Fate
  <1>6. fates' = [fates EXCEPT ![h] = "sent"]
    BY <1>4, <1>5 DEF fates
  <1> QED
    BY <1>1, <1>2, <1>6 DEF Queue!Deliver, fates

\* A new notification goes out at once or is held.
LEMMA NotifySendsOrHolds ==
  ASSUME HandlerInv, HandlerInv', NEW n \in Notifiers, Notify(n)
  PROVE  \E k \in Notifications : Queue!Send(k) \/ Queue!Hold(k)
  <1>1. PICK h \in Notifications : h = issued + 1 /\ issued' = h
    BY HandlerAssumption DEF Notify, HandlerInv, TypeOK, Notifications
  <1>2. issued \in Nat /\ UNCHANGED <<queue, dropped>>
    BY DEF Notify, HandlerInv, TypeOK
  <1>3. Fate(h) = "new"
    BY <1>1, <1>2, FateIs
  <1>4. \A k \in Notifications \ {h} : k > issued' <=> k > issued
    BY <1>1, <1>2 DEF Notifications
  <1>5. \A k \in Notifications \ {h} : k <= issued' <=> k <= issued
    BY <1>1, <1>2 DEF Notifications
  <1>6. CASE sent' = sent \union {h} /\ UNCHANGED <<npc, npacket>>
    <2>1. InHands' = InHands
      BY <1>6 DEF InHands
    <2>2. Fate(h)' = "sent"
      BY <1>6, FateWillBe
    <2>3. \A k \in Notifications \ {h} : Fate(k)' = Fate(k)
      BY <1>2, <1>4, <1>5, <1>6, <2>1 DEF Fate
    <2>4. fates' = [fates EXCEPT ![h] = "sent"] /\ fates[h] = "new"
      BY <1>3, <2>2, <2>3 DEF fates
    <2> QED
      BY <1>2, <2>4 DEF Queue!Send, fates
  <1>7. CASE /\ npc' = [npc EXCEPT ![n] = "push"]
             /\ npacket' = [npacket EXCEPT ![n] = h]
             /\ UNCHANGED sent
    <2>1. /\ npc'[n] = "push" /\ npacket'[n] = h
          /\ \A m \in Notifiers \ {n} : npc'[m] = npc[m] /\ npacket'[m] = npacket[m]
      BY <1>7 DEF HandlerInv, TypeOK
    <2>2. npc[n] = "idle"
      BY DEF Notify
    <2>3. InHands' = InHands \union {h}
      BY <2>1, <2>2 DEF InHands
    <2>4. Fate(h)' = "held"
      BY <2>3, FateWillBe
    <2>5. \A k \in Notifications \ {h} : Fate(k)' = Fate(k)
      BY <1>2, <1>4, <1>5, <1>7, <2>3 DEF Fate
    <2>6. fates' = [fates EXCEPT ![h] = "held"] /\ fates[h] = "new"
      BY <1>3, <2>4, <2>5 DEF fates
    <2> QED
      BY <1>2, <2>6 DEF Queue!Hold, fates
  <1> QED
    BY <1>1, <1>6, <1>7 DEF Notify

\* A push stores the notification its notifier held.
LEMMA PushStores ==
  ASSUME HandlerInv, HandlerInv', NEW n \in Notifiers, Push(n)
  PROVE  \E k \in Notifications : Queue!Store(k)
  <1>1. PICK h \in Notifications : h = npacket[n]
    BY DEF Push, HandlerInv, HandsApart, TypeOK, Notifications
  <1>2. /\ npc[n] = "push" /\ npc' = [npc EXCEPT ![n] = "idle"]
        /\ queue' = Append(SubSeq(queue, Surplus + 1, Len(queue)), h)
        /\ UNCHANGED <<sent, issued, npacket>>
    BY <1>1 DEF Push
  <1> DEFINE gone == {queue[i] : i \in 1 .. Surplus}
  <1>3. dropped' = dropped \union gone
    BY <1>1, <1>2, Pushed DEF Push, HandlerInv
  <1>4. /\ Surplus \in 0 .. Len(queue) /\ Len(queue) \in Nat
        /\ queue'[Len(queue')] = h /\ Len(queue') \in 1 .. Len(queue')
    <2>1. TypeOK
      BY DEF HandlerInv
    <2>2. /\ Len(queue) \in Nat /\ Surplus \in 0 .. Len(queue)
          /\ Len(queue') = Len(queue) - Surplus + 1
          /\ queue'[Len(queue')] = h
      BY <1>2, <2>1, Pushed
    <2> QED
      BY <2>2
  <1>5. h \in InHands
    BY <1>1, <1>2 DEF InHands
  <1>6. Fate(h) = "held"
    BY <1>5, FateIs
  <1>7. /\ \A m \in Notifiers \ {n} : npc'[m] = npc[m]
        /\ npc'[n] = "idle"
    BY <1>2 DEF HandlerInv, TypeOK
  <1>8. \A m \in Notifiers \ {n} : npc[m] = "push" => npacket[m] # h
    BY <1>1, <1>2 DEF HandlerInv, HandsApart
  <1>9. InHands' = InHands \ {h}
    BY <1>1, <1>2, <1>7, <1>8 DEF InHands
  <1>10. h <= issued' /\ h \notin sent' \union dropped'
    BY <1>4 DEF HandlerInv, QueueApart
  <1>11. Fate(h)' = "stored"
    BY <1>9, <1>10, FateWillBe
  <1> HIDE DEF gone
  <1>12. \A k \in Notifications \ {h} :
           Fate(k)' = IF k \in gone THEN "lost" ELSE Fate(k)
    <2> SUFFICES ASSUME NEW k \in Notifications \ {h}
                 PROVE  Fate(k)' = IF k \in gone THEN "lost" ELSE Fate(k)
      OBVIOUS
    <2>1. CASE k \in gone
      BY <1>3, <2>1, FateWillBe
    <2>2. CASE k \notin gone
      BY <1>2, <1>3, <1>9, <2>2 DEF Fate
    <2> QED
      BY <2>1, <2>2
  <1>13. /\ fates[h] = "held"
         /\ fates' = [k \in Notifications |-> IF k = h THEN "stored"
                                             ELSE IF k \in gone THEN "lost" ELSE fates[k]]
    BY <1>6, <1>11, <1>12 DEF fates
  <1>14. Queue!Store(h)
    BY <1>2, <1>13 DEF Queue!Store, fates, gone, Surplus
  <1> QED
    BY <1>14

(***************************************************************************)
(* MsgHandler implements NotificationQueue: whatever the handler thread,   *)
(* the notifiers, the client and Stop() do, each notification is sent at   *)
(* most once, stored in order, and dropped only beyond the limit.          *)
(***************************************************************************)
THEOREM Implementation == Spec => ImplementsQueue
  <1>1. Init => Queue!Init
    <2> SUFFICES ASSUME Init PROVE Queue!Init
      OBVIOUS
    <2>1. ASSUME NEW k \in Notifications PROVE Fate(k) = "new"
      <3>1. k > issued
        BY DEF Init, Notifications
      <3> QED
        BY <3>1, FateIs, InitHandler
    <2> QED
      BY <2>1 DEF Init, Queue!Init
  <1>2. ASSUME HandlerInv, HandlerInv', [Next]_vars
        PROVE  [Queue!Next]_(Queue!vars)
    <2>1. TypeOK
      BY <1>2 DEF HandlerInv
    <2>2. CASE FlushWrite
      BY <1>2, <2>2, FlushDelivers DEF Queue!Next
    <2>3. ASSUME NEW n \in Notifiers, Notify(n) PROVE Queue!Next
      BY <1>2, <2>3, NotifySendsOrHolds DEF Queue!Next
    <2>4. ASSUME NEW n \in Notifiers, Push(n) PROVE Queue!Next
      BY <1>2, <2>4, PushStores DEF Queue!Next
    <2>5. CASE UNCHANGED placeVars
      BY <2>5, Stutters
    <2> QED
      BY <1>2, <2>1, <2>2, <2>3, <2>4, <2>5, OtherSteps DEF Next, HandlerStep
  <1> QED
    BY <1>1, <1>2, InitHandler, StepKeeps, PTL DEF Spec, ImplementsQueue, Queue!Spec

===============================================================================

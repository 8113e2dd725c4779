--------------------------- MODULE DataServiceProofs ---------------------------
(***************************************************************************)
(* Proofs about DataService, for every number of losses and every length   *)
(* of the main looper's queue.                                             *)
(***************************************************************************)
EXTENDS DataService, TLAPS

(***************************************************************************)
(* An attempt that runs has been taken from the handler's queue and posts  *)
(* at most itself again; the worker and onStartCommand remove what waits   *)
(* before they post.  So at most two attempts exist.                       *)
(***************************************************************************)
FewAttempts ==
  posted + delayed + (IF hpc = "idle" THEN 0 ELSE 1) <= 2

\* An onConnected runnable that waits is of the session that is open, unless
\* it was overtaken.
QueuedHonest ==
  ConnectedQueued /\ session # "open" => overtaken

ServiceInv == TypeOK /\ FewAttempts /\ AttemptPending /\ StatusHonest /\ QueuedHonest

-------------------------------------------------------------------------------
\* A runnable behind the others: onConnected waits if it did before, or if it
\* is the new one.
LEMMA Posted ==
  ASSUME TypeOK, NEW r \in Runnables, PostListener(r)
  PROVE  /\ listenerQueue' \in Seq(Runnables)
         /\ Len(listenerQueue') <= MaxMain
         /\ ConnectedQueued' <=> ConnectedQueued \/ r = "onConnected"
  <1>1. /\ listenerQueue' \in Seq(Runnables)
        /\ Len(listenerQueue') = Len(listenerQueue) + 1
        /\ \A i \in 1 .. Len(listenerQueue) : listenerQueue'[i] = listenerQueue[i]
        /\ listenerQueue'[Len(listenerQueue) + 1] = r
    BY DEF TypeOK, PostListener
  <1>2. Len(listenerQueue) \in Nat
    BY DEF TypeOK
  <1>3. Len(listenerQueue') <= MaxMain
    BY <1>1, <1>2, ServiceAssumption DEF PostListener
  <1> QED
    BY <1>1, <1>2, <1>3 DEF ConnectedQueued

\* Without its head: what waits now has waited before, and onConnected still
\* waits if it was not the head.
LEMMA Taken ==
  ASSUME TypeOK, listenerQueue # <<>>, listenerQueue' = Tail(listenerQueue)
  PROVE  /\ listenerQueue' \in Seq(Runnables)
         /\ Len(listenerQueue') <= MaxMain
         /\ ConnectedQueued' => ConnectedQueued
         /\ Head(listenerQueue) # "onConnected" /\ ConnectedQueued => ConnectedQueued'
         /\ Head(listenerQueue) = "onConnected" => ConnectedQueued
  <1>1. /\ listenerQueue' \in Seq(Runnables)
        /\ Len(listenerQueue) \in Nat \ {0}
        /\ Len(listenerQueue') = Len(listenerQueue) - 1
        /\ \A i \in 1 .. Len(listenerQueue') : listenerQueue'[i] = listenerQueue[i + 1]
        /\ Head(listenerQueue) = listenerQueue[1]
    BY DEF TypeOK
  <1>2. Len(listenerQueue') <= MaxMain
    BY <1>1, ServiceAssumption DEF TypeOK
  <1>3. ConnectedQueued' => ConnectedQueued
    BY <1>1 DEF ConnectedQueued
  <1>4. ASSUME Head(listenerQueue) # "onConnected", ConnectedQueued
        PROVE  ConnectedQueued'
    <2>1. PICK i \in 1 .. Len(listenerQueue) : listenerQueue[i] = "onConnected"
      BY <1>4 DEF ConnectedQueued
    <2>2. i - 1 \in 1 .. Len(listenerQueue') /\ listenerQueue'[i - 1] = "onConnected"
      BY <1>1, <1>4, <2>1
    <2> QED
      BY <2>2 DEF ConnectedQueued
  <1>5. Head(listenerQueue) = "onConnected" => ConnectedQueued
    BY <1>1 DEF ConnectedQueued
  <1> QED
    BY <1>1, <1>2, <1>3, <1>4, <1>5

\* The initial states satisfy the invariant.
LEMMA InitService == Init => ServiceInv
  <1> SUFFICES ASSUME Init PROVE ServiceInv
    OBVIOUS
  <1>1. listenerQueue \in Seq(Runnables) /\ Len(listenerQueue) = 0
    BY DEF Init
  <1>2. ~ConnectedQueued
    BY <1>1 DEF ConnectedQueued
  <1>3. TypeOK
    <2>1. losses \in 0 .. MaxLoss /\ delayed \in 0 .. 2 /\ Len(listenerQueue) <= MaxMain
      BY <1>1, ServiceAssumption DEF Init
    <2> QED
      BY <1>1, <2>1 DEF Init, TypeOK
  <1>4. FewAttempts
    BY DEF Init, FewAttempts
  <1>5. AttemptPending /\ StatusHonest /\ QueuedHonest
    BY <1>2 DEF Init, AttemptPending, StatusHonest, QueuedHonest
  <1> QED
    BY <1>3, <1>4, <1>5 DEF ServiceInv

\* The steps of the handler thread keep the invariant.
LEMMA OpenStepKeeps ==
  ASSUME ServiceInv, OpenStep
  PROVE  ServiceInv'
  <1> USE DEF ServiceInv, FewAttempts, AttemptPending, StatusHonest, QueuedHonest,
              serviceVars, postVars, envVars
  <1>0. UNCHANGED listenerQueue => (ConnectedQueued' <=> ConnectedQueued)
    BY DEF ConnectedQueued
  <1>1. CASE Run
    BY <1>0, <1>1 DEF Run, TypeOK
  <1>2. CASE OpenConnected
    BY <1>2, Posted DEF OpenConnected, TypeOK, Runnables
  <1>3. CASE OpenUnconfigured
    BY <1>3, Posted DEF OpenUnconfigured, PostDelayed, TypeOK, Runnables
  <1>4. CASE OpenConnecting
    BY <1>0, <1>4 DEF OpenConnecting, TypeOK
  <1>5. CASE OpenSession
    BY <1>0, <1>5 DEF OpenSession, TypeOK
  <1>6. CASE LoginDone \/ LoginFailed
    BY <1>0, <1>6 DEF LoginDone, LoginFailed, TypeOK
  <1>7. CASE OpenFailed
    <2>1. overtaken' \in BOOLEAN /\ (overtaken => overtaken')
      BY <1>7 DEF OpenFailed, CloseSession
    <2>2. ConnectedQueued /\ session = "open" => overtaken'
      BY <1>7 DEF OpenFailed, CloseSession
    <2>3. TypeOK' /\ FewAttempts'
      <3>1. delayed' \in 0 .. 2 /\ FewAttempts'
        BY <1>7 DEF OpenFailed, PostDelayed, TypeOK
      <3> QED
        BY <1>7, <2>1, <3>1, Posted DEF OpenFailed, CloseSession, PostDelayed, TypeOK, Runnables
    <2>4. AttemptPending' /\ StatusHonest'
      BY <1>7 DEF OpenFailed, PostDelayed, TypeOK
    <2>5. QueuedHonest'
      BY <1>7, <2>1, <2>2, Posted DEF OpenFailed, Runnables
    <2> QED
      BY <2>3, <2>4, <2>5
  <1>8. CASE OpenDone
    <2>1. /\ overtaken' \in BOOLEAN
          /\ overtaken \/ session # "open" => overtaken'
      BY <1>8 DEF OpenDone
    <2>2. TypeOK' /\ FewAttempts'
      BY <1>8, <2>1, Posted DEF OpenDone, TypeOK, Runnables
    <2>3. AttemptPending'
      BY <1>8, Posted DEF OpenDone, Runnables
    <2>4. StatusHonest' /\ QueuedHonest'
      BY <1>8, <2>1 DEF OpenDone
    <2> QED
      BY <2>2, <2>3, <2>4
  <1> QED
    BY <1>1, <1>2, <1>3, <1>4, <1>5, <1>6, <1>7, <1>8 DEF OpenStep

\* Every step keeps the invariant.
LEMMA StepKeeps ==
  ASSUME ServiceInv, [Next]_vars
  PROVE  ServiceInv'
  <1> USE DEF ServiceInv, FewAttempts, AttemptPending, StatusHonest, QueuedHonest,
              serviceVars, postVars, envVars
  <1>0. UNCHANGED listenerQueue => (ConnectedQueued' <=> ConnectedQueued)
    BY DEF ConnectedQueued
  <1>1. CASE OpenStep
    BY <1>1, OpenStepKeeps
  <1>2. CASE Lost
    <2>1. overtaken' \in BOOLEAN /\ (overtaken \/ ConnectedQueued => overtaken')
      BY <1>2 DEF Lost
    <2>2. TypeOK' /\ FewAttempts'
      BY <1>2, <2>1, ServiceAssumption DEF Lost, TypeOK
    <2>3. AttemptPending' /\ StatusHonest' /\ QueuedHonest'
      BY <1>0, <1>2, <2>1 DEF Lost
    <2> QED
      BY <2>2, <2>3
  <1>3. CASE LostPost
    BY <1>0, <1>3 DEF LostPost, postOpen, TypeOK
  <1>4. CASE RunOnConnected
    BY <1>4, Taken DEF RunOnConnected, TypeOK
  <1>5. CASE RunOnConnectionError
    BY <1>5, Taken DEF RunOnConnectionError, TypeOK
  <1>6. CASE onStartCommand
    BY <1>0, <1>6 DEF onStartCommand, postOpen, TypeOK
  <1>7. CASE onDestroy
    BY <1>0, <1>7 DEF onDestroy, CloseSession, TypeOK
  <1>8. CASE ServerChanges \/ Configure
    <2>1. serverUp' \in BOOLEAN /\ configured' \in BOOLEAN
      BY <1>8, Zenon DEF ServerChanges, Configure, TypeOK
    <2>2. /\ losses' \in 0 .. MaxLoss
          /\ UNCHANGED <<serviceVars, postVars, hpc, wpc, session, overtaken>>
      <3>1. CASE ServerChanges
        <4>1. losses < MaxLoss /\ losses' = losses + 1
          BY <3>1 DEF ServerChanges
        <4> QED
          BY <3>1, <4>1, ServiceAssumption DEF ServerChanges, TypeOK
      <3>2. CASE Configure
        BY <3>2 DEF Configure, TypeOK
      <3> QED
        BY <1>8, <3>1, <3>2
    <2> QED
      BY <1>0, <2>1, <2>2 DEF TypeOK
  <1>9. CASE UNCHANGED vars
    BY <1>0, <1>9 DEF vars, TypeOK
  <1> QED
    BY <1>1, <1>2, <1>3, <1>4, <1>5, <1>6, <1>7, <1>8, <1>9 DEF Next, MainStep

(***************************************************************************)
(* The variables of the data service have their types; in particular, at   *)
(* most two attempts to connect wait in the handler thread's queue.        *)
(***************************************************************************)
THEOREM TypeCorrect == Spec => []TypeOK
  <1>1. ServiceInv => TypeOK
    BY DEF ServiceInv
  <1> QED
    BY <1>1, InitService, StepKeeps, PTL DEF Spec

(***************************************************************************)
(* The service never gives up, however the handler thread, the worker of   *)
(* the session and the main thread interleave: while it is not connected,  *)
(* an attempt is under way.                                                *)
(***************************************************************************)
THEOREM NeverGivesUp == Spec => []AttemptPending
  <1>1. ServiceInv => AttemptPending
    BY DEF ServiceInv
  <1> QED
    BY <1>1, InitService, StepKeeps, PTL DEF Spec

(***************************************************************************)
(* The status lies only after an onConnected that was overtaken by the end *)
(* of its session.                                                         *)
(***************************************************************************)
THEOREM StatusIsHonest == Spec => []StatusHonest
  <1>1. ServiceInv => StatusHonest
    BY DEF ServiceInv
  <1> QED
    BY <1>1, InitService, StepKeeps, PTL DEF Spec

===============================================================================

---------------------------- MODULE TvSessionProofs ----------------------------
(***************************************************************************)
(* Proofs about TvSession, for every set of channels and every number of   *)
(* loader threads.                                                         *)
(***************************************************************************)
EXTENDS TvSession, TLAPS

USE DEF sessionVars, playerVars, loaderVars, serverVars, historyVars, MainIdle

Labels == {"none", "open", "lock", "sent", "cut", "read", "failed"}

\* The variables the invariants below depend on have their types.
LoadersTyped ==
  /\ pc \in [Loaders -> Labels]
  /\ uri \in [Loaders -> Channels \union {None}]
  /\ opened \subseteq Loaders
  /\ active \in Loaders \union {None}
  /\ mChannelUri \in Channels \union {None}

-------------------------------------------------------------------------------
(***************************************************************************)
(* The zap: mTune tunes the channel the user has asked for last.           *)
(***************************************************************************)
TunesWanted == wanted = mChannelUri

ZapInv == ZapPending /\ TunesWanted

\* Without anything posted at its release, nothing is posted afterwards.
Quiet == released /\ ~zombie => ~mTune /\ ~disconnect /\ ~isOpen

-------------------------------------------------------------------------------
(***************************************************************************)
(* The stream.  As long as openSync() never gave up, only the loader of    *)
(* the tune that is waited for has its request before it.                  *)
(***************************************************************************)

\* the main thread waits, and no loader has opened its data source meanwhile
Waiting == opening /\ ~tuned

\* Before the first channel nothing happens.
FirstTune ==
  /\ mChannelUri = None => ~mTune /\ ~isOpen /\ ~disconnect /\ ~playbackStarted /\ active = None
  /\ opening => mCurrentChannelUri # None

\* What the server streams, or still has to do, is of the connection that is open.
OfThisConnection ==
  /\ ~isOpen => stream = None /\ late = None
  /\ \A l \in Loaders : pc[l] = "sent" => isOpen

\* A loader that has not been opened is the one openSync() waits for.
OneRequest ==
  \A l \in Loaders :
    /\ pc[l] # "none" /\ l \notin opened =>
         l = active /\ Waiting /\ uri[l] = mCurrentChannelUri
    /\ pc[l] \in {"lock", "sent", "cut"} => l \notin opened
    /\ pc[l] = "cut" => ~isOpen

\* When openSync() has returned, the server's channel is the one that was tuned.
ServerFollows ==
  ~Waiting =>
    /\ late \in {None, mCurrentChannelUri}
    /\ late = None => stream \in {None, mCurrentChannelUri}

StreamInv ==
  /\ LoadersTyped
  /\ FirstTune
  /\ OfThisConnection
  /\ ~timedOut => OneRequest /\ ServerFollows


-------------------------------------------------------------------------------
\* The steps of the loader threads, the server and the connection leave the
\* session's own variables alone.
LEMMA OutsideStep ==
  ASSUME \/ \E l \in Loaders : Loader(l) \/ Retry(l)
         \/ ServerLate \/ ConnectionLost \/ openSyncReturns
  PROVE  UNCHANGED <<mTune, sessionVars, wanted, zapLost, zombie>>
  BY DEF Loader, Retry, open, openStream, openReturns, onServerTuned, NoResponse,
         NoConnection, ReadFails, LoaderEnds, LoaderStep, ServerLate,
         ConnectionLost, openSyncReturns

(***************************************************************************)
(* No zap is forgotten: the channel of the last onTune() is tuned or       *)
(* posted, unless STATE_READY of the old stream has removed it or its      *)
(* query failed.                                                           *)
(***************************************************************************)
THEOREM ZapIsPending == Spec => []ZapPending
  <1>1. Init => ZapInv
    BY DEF Init, ZapInv, ZapPending, TunesWanted
  <1>2. ASSUME ZapInv, [Next]_vars PROVE ZapInv'
    <2> USE DEF ZapInv, ZapPending, TunesWanted
    <2>1. CASE \E c \in Channels : onTune(c)
      BY <1>2, <2>1 DEF onTune
    <2>2. CASE \E connected \in BOOLEAN : tune(connected)
      BY <1>2, <2>2 DEF tune
    <2>3. CASE channel_not_found
      BY <1>2, <2>3 DEF channel_not_found
    <2>4. CASE Callback
      BY <1>2, <2>4 DEF Callback, onBuffering, onReady, onPlayerError, onDisconnect, postTune
    <2>5. CASE onSetSurface \/ onRelease
      BY <1>2, <2>5 DEF onSetSurface, onRelease
    <2>6. CASE UNCHANGED <<mTune, sessionVars, wanted, zapLost>>
      BY <1>2, <2>6
    <2> QED
      BY <1>2, <2>1, <2>2, <2>3, <2>4, <2>5, <2>6, OutsideStep DEF Next, vars
  <1>3. ZapInv => ZapPending
    BY DEF ZapInv
  <1> QED
    BY <1>1, <1>2, <1>3, PTL DEF Spec

(***************************************************************************)
(* A released session stays closed unless a callback was posted when it    *)
(* was released.                                                           *)
(***************************************************************************)
THEOREM ReleasedIsClosed == Spec => []ReleasedStaysClosed
  <1>1. Init => Quiet
    BY DEF Init, Quiet
  <1>2. ASSUME Quiet, [Next]_vars PROVE Quiet'
    <2> USE DEF Quiet
    <2>1. CASE \E c \in Channels : onTune(c)
      BY <1>2, <2>1 DEF onTune
    <2>2. CASE \E connected \in BOOLEAN : tune(connected)
      BY <1>2, <2>2 DEF tune, connect
    <2>3. CASE channel_not_found
      BY <1>2, <2>3 DEF channel_not_found
    <2>4. CASE Callback
      BY <1>2, <2>4 DEF Callback, onBuffering, onReady, onPlayerError, onDisconnect
    <2>5. CASE onSetSurface
      BY <1>2, <2>5 DEF onSetSurface
    <2>6. CASE onRelease
      BY <1>2, <2>6 DEF onRelease
    <2>7. CASE ConnectionLost
      BY <1>2, <2>7 DEF ConnectionLost
    <2>8. CASE UNCHANGED <<mTune, released, zombie, disconnect, isOpen>>
      BY <1>2, <2>8
    <2>9. ASSUME NEW l \in Loaders, Loader(l) \/ Retry(l)
          PROVE  UNCHANGED <<mTune, released, zombie, disconnect, isOpen>>
      BY <2>9 DEF Loader, Retry, open, openStream, openReturns, onServerTuned, NoResponse,
                  NoConnection, ReadFails, LoaderEnds, LoaderStep
    <2> QED
      BY <1>2, <2>1, <2>2, <2>3, <2>4, <2>5, <2>6, <2>7, <2>8, <2>9
      DEF Next, vars, ServerLate, openSyncReturns
  <1>3. Quiet => ReleasedStaysClosed
    BY DEF Quiet, ReleasedStaysClosed
  <1> QED
    BY <1>1, <1>2, <1>3, PTL DEF Spec

-------------------------------------------------------------------------------
\* One loader is moved: the types remain, and the other loaders stay.
LEMMA Moved ==
  ASSUME LoadersTyped, NEW l \in Loaders, NEW to \in Labels,
         pc' = [pc EXCEPT ![l] = to]
  PROVE  /\ pc' \in [Loaders -> Labels]
         /\ pc'[l] = to
         /\ \A k \in Loaders \ {l} : pc'[k] = pc[k]
  BY DEF LoadersTyped

\* A loader that has gone.
LEMMA Unloaded ==
  ASSUME LoadersTyped, NEW l \in Loaders, Unload(l)
  PROVE  /\ pc' \in [Loaders -> Labels]
         /\ uri' \in [Loaders -> Channels \union {None}]
         /\ opened' \subseteq Loaders
         /\ pc'[l] = "none"
         /\ \A k \in Loaders \ {l} :
              pc'[k] = pc[k] /\ uri'[k] = uri[k] /\ (k \in opened' <=> k \in opened)
  BY DEF LoadersTyped, Unload, Labels

\* Requests that are cut off were waiting for the server before.
LEMMA CutLabels ==
  ASSUME LoadersTyped, pc' = Cut
  PROVE  /\ pc' \in [Loaders -> Labels]
         /\ \A l \in Loaders :
              /\ pc'[l] # "sent"
              /\ pc'[l] = pc[l] \/ (pc[l] = "sent" /\ pc'[l] = "cut")
  BY DEF LoadersTyped, Labels, Cut

\* tune() starts a loader for the new channel, and openSync() waits for it.
LEMMA TuneKeeps ==
  ASSUME StreamInv, NEW connected \in BOOLEAN, tune(connected)
  PROVE  StreamInv'
  <1> USE DEF StreamInv
  <1>1. Waiting' /\ mChannelUri # None /\ mCurrentChannelUri' = mChannelUri
    BY DEF tune, Waiting, FirstTune
  <1>2. CASE released
    <2>1. UNCHANGED loaderVars
      BY <1>2 DEF tune, StartLoader
    <2>2. LoadersTyped' /\ FirstTune'
      BY <1>1, <2>1 DEF tune, LoadersTyped, FirstTune
    <2>3. OfThisConnection'
      BY <2>1 DEF tune, connect, OfThisConnection
    <2>4. ~timedOut' => OneRequest' /\ ServerFollows'
      BY <1>1, <2>1 DEF tune, connect, OneRequest, ServerFollows, Waiting
    <2> QED
      BY <2>2, <2>3, <2>4
  <1>3. CASE ~released
    <2>1. PICK l \in Loaders :
            /\ pc[l] = "none"
            /\ pc' = [pc EXCEPT ![l] = "open"]
            /\ uri' = [uri EXCEPT ![l] = mChannelUri]
            /\ active' = l
            /\ UNCHANGED opened
      BY <1>3 DEF tune, StartLoader
    <2>2. /\ pc'[l] = "open" /\ uri'[l] = mChannelUri
          /\ \A k \in Loaders \ {l} : pc'[k] = pc[k] /\ uri'[k] = uri[k]
      BY <2>1 DEF LoadersTyped
    <2>3. LoadersTyped' /\ FirstTune'
      BY <1>1, <2>1 DEF tune, LoadersTyped, FirstTune, Labels
    <2>4. OfThisConnection'
      BY <2>2 DEF tune, connect, OfThisConnection
    <2>5. ~timedOut' => OneRequest' /\ ServerFollows'
      BY <1>1, <2>1, <2>2 DEF tune, connect, OneRequest, ServerFollows, Waiting
    <2> QED
      BY <2>3, <2>4, <2>5
  <1> QED
    BY <1>2, <1>3

\* The other callbacks of the main looper.
LEMMA MainKeeps ==
  ASSUME StreamInv,
         \/ \E c \in Channels : onTune(c)
         \/ channel_not_found \/ openSyncReturns \/ Callback \/ onSetSurface \/ onRelease
  PROVE  StreamInv'
  <1> USE DEF StreamInv
  <1>1. CASE \E c \in Channels : onTune(c)
    BY <1>1, TvAssumption
    DEF onTune, LoadersTyped, FirstTune, OfThisConnection, OneRequest, ServerFollows, Waiting
  <1>2. CASE channel_not_found
    BY <1>2
    DEF channel_not_found, LoadersTyped, FirstTune, OfThisConnection, OneRequest,
        ServerFollows, Waiting
  <1>3. CASE openSyncReturns
    BY <1>3
    DEF openSyncReturns, LoadersTyped, FirstTune, OfThisConnection, OneRequest,
        ServerFollows, Waiting
  <1>4. CASE onBuffering \/ onReady \/ onDisconnect
    BY <1>4, TvAssumption
    DEF onBuffering, onReady, onDisconnect, LoadersTyped, FirstTune, OfThisConnection,
        OneRequest, ServerFollows, Waiting
  <1>5. CASE onPlayerError
    <2>1. active \in Loaders /\ Unload(active)
      BY <1>5 DEF onPlayerError, LoadersTyped
    <2>2. LoadersTyped' /\ FirstTune'
      BY <1>5, <2>1, Unloaded, TvAssumption DEF onPlayerError, LoadersTyped, FirstTune
    <2>3. OfThisConnection'
      BY <1>5, <2>1, Unloaded DEF onPlayerError, OfThisConnection
    <2>4. ~timedOut' => OneRequest' /\ ServerFollows'
      BY <1>5, <2>1, Unloaded DEF onPlayerError, OneRequest, ServerFollows, Waiting
    <2> QED
      BY <2>2, <2>3, <2>4
  <1>6. CASE onSetSurface
    BY <1>6
    DEF onSetSurface, LoadersTyped, FirstTune, OfThisConnection, OneRequest,
        ServerFollows, Waiting
  <1>7. CASE onRelease
    <2>1. LoadersTyped' /\ FirstTune' /\ OfThisConnection'
      BY <1>7, CutLabels DEF onRelease, LoadersTyped, FirstTune, OfThisConnection
    <2>2. ~timedOut' => OneRequest' /\ ServerFollows'
      BY <1>7, CutLabels DEF onRelease, OneRequest, ServerFollows, Waiting, LoadersTyped
    <2> QED
      BY <2>1, <2>2
  <1> QED
    BY <1>1, <1>2, <1>3, <1>4, <1>5, <1>6, <1>7 DEF Callback

\* The steps of a loader thread: its request is that of the tune.
LEMMA LoaderKeeps ==
  ASSUME StreamInv, NEW l \in Loaders, Loader(l) \/ Retry(l)
  PROVE  StreamInv'
  <1> USE DEF StreamInv
  <1>1. CASE open(l) \/ openStream(l) \/ ReadFails(l) \/ Retry(l)
    <2>1. PICK to \in Labels \ {"none"} :
            /\ LoaderStep(l, to)
            /\ to = "sent" => isOpen
            /\ to = "cut" => ~isOpen
            /\ to \in {"lock", "sent", "cut"} => l \notin opened \/ pc[l] = "lock"
            /\ pc[l] # "none"
            /\ UNCHANGED <<tuned, opened, serverVars>>
      BY <1>1 DEF open, AfterOpen, openStream, ReadFails, Retry, Labels
    <2>2. /\ pc' \in [Loaders -> Labels]
          /\ pc'[l] = to
          /\ \A k \in Loaders \ {l} : pc'[k] = pc[k]
      BY <2>1, Moved DEF LoaderStep
    <2>3. LoadersTyped' /\ FirstTune'
      BY <2>1, <2>2 DEF LoaderStep, LoadersTyped, FirstTune
    <2>4. OfThisConnection'
      BY <2>1, <2>2 DEF LoaderStep, OfThisConnection
    <2>5. ~timedOut' => OneRequest' /\ ServerFollows'
      BY <2>1, <2>2 DEF LoaderStep, OneRequest, ServerFollows, Waiting
    <2> QED
      BY <2>3, <2>4, <2>5
  <1>2. CASE onServerTuned(l) \/ NoResponse(l) \/ NoConnection(l)
    <2>1. openReturns(l) /\ pc[l] \in {"sent", "cut"}
      BY <1>2 DEF onServerTuned, NoResponse, NoConnection
    <2>2. /\ pc' \in [Loaders -> Labels]
          /\ pc'[l] = "read"
          /\ \A k \in Loaders \ {l} : pc'[k] = pc[k]
      BY <2>1, Moved DEF openReturns, LoaderStep, Labels
    <2>3. LoadersTyped' /\ FirstTune'
      BY <2>1, <2>2 DEF openReturns, LoaderStep, LoadersTyped, FirstTune
    <2>4. OfThisConnection'
      BY <1>2, <2>1, <2>2
      DEF openReturns, LoaderStep, OfThisConnection, onServerTuned, NoResponse, NoConnection
    <2>5. ASSUME ~timedOut PROVE OneRequest' /\ ServerFollows'
      <3>1. l = active /\ Waiting /\ uri[l] = mCurrentChannelUri /\ mCurrentChannelUri # None
        BY <2>1, <2>5 DEF OneRequest, FirstTune, Waiting
      <3>2. OneRequest'
        BY <2>1, <2>2, <2>5, <3>1 DEF openReturns, LoaderStep, OneRequest
      <3>3. ServerFollows'
        BY <1>2, <2>1, <2>5, <3>1
        DEF openReturns, LoaderStep, OneRequest, OfThisConnection, ServerFollows,
            onServerTuned, NoResponse, NoConnection
      <3> QED
        BY <3>2, <3>3
    <2> QED
      BY <2>1, <2>3, <2>4, <2>5 DEF openReturns, LoaderStep
  <1>3. CASE LoaderEnds(l)
    <2>1. Unload(l)
      BY <1>3 DEF LoaderEnds
    <2>2. LoadersTyped' /\ FirstTune' /\ OfThisConnection'
      BY <1>3, <2>1, Unloaded DEF LoaderEnds, LoadersTyped, FirstTune, OfThisConnection
    <2>3. ~timedOut' => OneRequest' /\ ServerFollows'
      BY <1>3, <2>1, Unloaded DEF LoaderEnds, OneRequest, ServerFollows, Waiting
    <2> QED
      BY <2>2, <2>3
  <1> QED
    BY <1>1, <1>2, <1>3 DEF Loader

\* The server that comes to a request late, and the loss of the connection.
LEMMA ServerKeeps ==
  ASSUME StreamInv, ServerLate \/ ConnectionLost
  PROVE  StreamInv'
  <1> USE DEF StreamInv
  <1>1. CASE ServerLate
    BY <1>1
    DEF ServerLate, LoadersTyped, FirstTune, OfThisConnection, OneRequest, ServerFollows,
        Waiting
  <1>2. CASE ConnectionLost
    <2>1. LoadersTyped' /\ FirstTune' /\ OfThisConnection'
      BY <1>2, CutLabels DEF ConnectionLost, LoadersTyped, FirstTune, OfThisConnection
    <2>2. ~timedOut' => OneRequest' /\ ServerFollows'
      BY <1>2, CutLabels DEF ConnectionLost, OneRequest, ServerFollows, Waiting, LoadersTyped
    <2> QED
      BY <2>1, <2>2
  <1> QED
    BY <1>1, <1>2

(***************************************************************************)
(* When all requests are answered the server streams the channel of the    *)
(* last tune, as long as openSync() has not given up waiting.              *)
(***************************************************************************)
THEOREM StreamFollowsTune == Spec => []StreamIsCurrent
  <1>1. Init => StreamInv
    BY TvAssumption
    DEF Init, StreamInv, LoadersTyped, Labels, FirstTune, OfThisConnection, OneRequest,
        ServerFollows, Waiting
  <1>2. ASSUME StreamInv, [Next]_vars PROVE StreamInv'
    <2>1. CASE UNCHANGED vars
      BY <1>2, <2>1
      DEF vars, StreamInv, LoadersTyped, FirstTune, OfThisConnection, OneRequest,
          ServerFollows, Waiting
    <2> QED
      BY <1>2, <2>1, TuneKeeps, MainKeeps, LoaderKeeps, ServerKeeps DEF Next
  <1>3. StreamInv => StreamIsCurrent
    BY DEF StreamInv, StreamIsCurrent, Settled, ServerFollows, Waiting
  <1> QED
    BY <1>1, <1>2, <1>3, PTL DEF Spec

===============================================================================

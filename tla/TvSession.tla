------------------------------ MODULE TvSession ------------------------------
(***************************************************************************)
(* Live TV: RoboTvSession tunes, Player.openSync() waits for the server's  *)
(* answer, and a loader thread of the player opens and reads the stream    *)
(* through RoboTvDataSource.  All of them share one connection.            *)
(*                                                                         *)
(* The callbacks of session and player run in the main looper, which       *)
(* openSync() blocks.  Delays are left out: a posted callback runs some    *)
(* time after it was posted.  The player library (ExoPlayer) is modelled   *)
(* from how the code uses it: it cancels the loader of the old stream,     *)
(* which ends when it notices, reports states of the new one only, and     *)
(* tries a failed loader again some times before it reports the error.     *)
(***************************************************************************)
EXTENDS Integers, FiniteSets

CONSTANTS
  Channels,
  Loaders,    \* bound: loader threads alive at the same time
  None

VARIABLES
  \* RoboTvSession
  mTune,            \* mTune is posted
  mChannelUri,      \* of mTune
  mCurrentChannelUri,
  playbackStarted,
  released,
  \* Player and RoboTvDataSourceFactory
  opening,          \* the main thread is inside openSync()
  tuned,            \* openConditionVariable is open
  disconnect,       \* the delayed onDisconnect() is posted
  isOpen,           \* of the connection
  \* loader threads
  pc,
  uri,              \* the channel a loader opens
  opened,           \* loaders whose data source has been opened before
  active,           \* the loader of the player's source, the others are cancelled
  \* server
  stream,           \* the channel the server streams on this connection
  late,             \* the channel of a request it has not answered in time
  \* history
  wanted,           \* the channel the user has asked for last
  zapLost,          \* the user's tune was removed, or its query has failed
  timedOut,         \* openSync() has given up waiting
  zombie,           \* something was posted when the session was released
  halted            \* the query of a tune has failed, or the surface was removed

sessionVars == <<mChannelUri, mCurrentChannelUri, playbackStarted, released>>
playerVars == <<opening, tuned>>
loaderVars == <<pc, uri, opened, active>>
serverVars == <<stream, late>>
historyVars == <<wanted, zapLost, timedOut, zombie, halted>>
vars == <<mTune, sessionVars, playerVars, disconnect, isOpen, loaderVars,
          serverVars, historyVars>>

ASSUME TvAssumption == None \notin Channels \union Loaders

\* the main looper takes the next callback
MainIdle == ~opening

-------------------------------------------------------------------------------
(***************************************************************************)
(* RoboTvSession, in the main looper                                       *)
(***************************************************************************)

onTune(c) ==
  /\ MainIdle /\ ~released
  /\ mTune' = TRUE
  /\ mChannelUri' = c
  /\ wanted' = c
  /\ zapLost' = FALSE
  /\ halted' = FALSE
  /\ UNCHANGED <<mCurrentChannelUri, playbackStarted, released, playerVars, disconnect,
                 isOpen, loaderVars, serverVars, timedOut, zombie>>

\* mutant: errors remove the pending tune and post nothing
MutpostTune == FALSE

\* postTune(null, delay): the channel remains
postTune == TRUE

\* prepare() starts a loader, unless the player has been released
StartLoader ==
  IF released
  THEN UNCHANGED loaderVars
  ELSE \E l \in Loaders :
         /\ pc[l] = "none"
         /\ pc' = [pc EXCEPT ![l] = "open"]
         /\ uri' = [uri EXCEPT ![l] = mChannelUri]
         /\ active' = l
         /\ UNCHANGED opened

\* connect() of the data source factory: on a new connection the server streams
\* nothing yet; a failure is reported as a stream error, which posts mTune
connect(connected) ==
  /\ isOpen => connected
  /\ isOpen' = connected
  /\ stream' = IF isOpen THEN stream ELSE None
  /\ mTune' = IF connected THEN FALSE ELSE postTune

\* mTune runs: tune(), with openSync() up to the wait; open() goes on after a
\* connection that failed
tune(connected) ==
  /\ MainIdle
  /\ mTune
  /\ connect(connected)
  /\ StartLoader
  /\ mCurrentChannelUri' = mChannelUri
  /\ playbackStarted' = FALSE
  /\ opening' = TRUE
  /\ tuned' = FALSE
  /\ halted' = FALSE
  /\ UNCHANGED <<mChannelUri, released, disconnect, late, wanted, zapLost, timedOut, zombie>>

\* tune() when the query for the channel fails; a channel that is no longer in
\* the database is not noticed, and is tuned as one the server refuses
channel_not_found ==
  /\ MainIdle
  /\ mTune
  /\ mTune' = FALSE
  /\ zapLost' = (zapLost \/ wanted # mCurrentChannelUri)
  /\ halted' = TRUE
  /\ UNCHANGED <<sessionVars, playerVars, disconnect, isOpen, loaderVars, serverVars, wanted,
                 timedOut, zombie>>

\* openSync() returns: the server has answered, or the wait took too long
openSyncReturns ==
  /\ opening
  /\ opening' = FALSE
  /\ timedOut' = (timedOut \/ ~tuned)
  /\ UNCHANGED <<mTune, sessionVars, tuned, disconnect, isOpen, loaderVars, serverVars,
                 wanted, zapLost, zombie, halted>>

\* STATE_BUFFERING while playing: a pause in the stream, or play() during one
onBuffering ==
  /\ MainIdle /\ ~released
  /\ active # None
  /\ playbackStarted
  /\ mTune' = postTune
  /\ UNCHANGED <<sessionVars, playerVars, disconnect, isOpen, loaderVars, serverVars,
                 historyVars>>

\* STATE_READY while playing; a tune that waits is removed
onReady ==
  /\ MainIdle /\ ~released
  /\ active # None /\ pc[active] = "read"
  /\ playbackStarted' = TRUE
  /\ mTune' = FALSE
  /\ zapLost' = (zapLost \/ (mTune /\ wanted # mCurrentChannelUri))
  /\ UNCHANGED <<mChannelUri, mCurrentChannelUri, released, playerVars, disconnect, isOpen,
                 loaderVars, serverVars, wanted, timedOut, zombie, halted>>

\* the loader is gone
Unload(l) ==
  /\ pc' = [pc EXCEPT ![l] = "none"]
  /\ uri' = [uri EXCEPT ![l] = None]
  /\ opened' = opened \ {l}

onPlayerError ==
  /\ MainIdle /\ ~released
  /\ active # None /\ pc[active] = "failed"
  /\ mTune' = postTune
  /\ Unload(active)
  /\ active' = None
  /\ UNCHANGED <<sessionVars, playerVars, disconnect, isOpen, serverVars, historyVars>>

\* also after the release
onDisconnect ==
  /\ MainIdle
  /\ disconnect
  /\ disconnect' = FALSE
  /\ mTune' = postTune
  /\ UNCHANGED <<sessionVars, playerVars, isOpen, loaderVars, serverVars, historyVars>>

\* onSetSurface(null) stops the player
onSetSurface ==
  /\ MainIdle /\ ~released
  /\ active' = None
  /\ halted' = TRUE
  /\ UNCHANGED <<mTune, sessionVars, playerVars, disconnect, isOpen, pc, uri, opened,
                 serverVars, wanted, zapLost, timedOut, zombie>>

\* threads whose request waits for an answer on a connection that is gone
Cut == [l \in Loaders |-> IF pc[l] = "sent" THEN "cut" ELSE pc[l]]

\* mutant: the player is released and not its connection
MutonRelease ==
  /\ MainIdle /\ ~released
  /\ released' = TRUE
  /\ active' = None
  /\ zombie' = (mTune \/ disconnect)
  /\ UNCHANGED <<mTune, mChannelUri, mCurrentChannelUri, playbackStarted, playerVars,
                 disconnect, isOpen, pc, uri, opened, serverVars, wanted, zapLost, timedOut,
                 halted>>

onRelease ==
  /\ MainIdle /\ ~released
  /\ released' = TRUE
  /\ active' = None
  /\ isOpen' = FALSE
  /\ stream' = None
  /\ late' = None
  /\ pc' = Cut
  /\ zombie' = (mTune \/ disconnect)
  /\ UNCHANGED <<mTune, mChannelUri, mCurrentChannelUri, playbackStarted, playerVars,
                 disconnect, uri, opened, wanted, zapLost, timedOut, halted>>

-------------------------------------------------------------------------------
(***************************************************************************)
(* RoboTvDataSource, in a loader thread                                    *)
(***************************************************************************)

LoaderStep(l, to) ==
  /\ pc' = [pc EXCEPT ![l] = to]
  /\ UNCHANGED <<mTune, sessionVars, opening, disconnect, isOpen, uri, active, historyVars>>

\* where open() goes: a data source that was opened before only reads on
AfterOpen(l) == CASE ~isOpen -> "failed" [] isOpen /\ l \in opened -> "read" [] OTHER -> "lock"

\* mutant: openSync() goes on before the server has answered
Mutopen(l) ==
  /\ pc[l] = "open"
  /\ LoaderStep(l, AfterOpen(l))
  /\ tuned' = TRUE
  /\ UNCHANGED <<opened, serverVars>>

\* open() asks isOpen() and comes to the lock of the session
open(l) ==
  /\ pc[l] = "open"
  /\ LoaderStep(l, AfterOpen(l))
  /\ UNCHANGED <<tuned, opened, serverVars>>

\* openStream(): one request after the other, in any order
openStream(l) ==
  /\ pc[l] = "lock"
  /\ \A k \in Loaders : pc[k] \notin {"sent", "cut"}
  /\ LoaderStep(l, IF isOpen THEN "sent" ELSE "cut")
  /\ UNCHANGED <<tuned, opened, serverVars>>

\* openStream() returns, with whatever status: open() succeeds anyhow
openReturns(l) ==
  /\ LoaderStep(l, "read")
  /\ tuned' = TRUE
  /\ opened' = opened \union {l}

\* the server streams the channel or refuses it
onServerTuned(l) ==
  /\ pc[l] = "sent"
  /\ openReturns(l)
  /\ stream' \in {uri[l], None}
  /\ late' = None

\* STATUS_NORESPONSE on a connection that stays open: the server answers later
NoResponse(l) ==
  /\ pc[l] = "sent"
  /\ openReturns(l)
  /\ late' = uri[l]
  /\ UNCHANGED stream

\* STATUS_NORESPONSE because the connection is gone
NoConnection(l) ==
  /\ pc[l] = "cut"
  /\ openReturns(l)
  /\ UNCHANGED serverVars

\* read() gets no packet in time
ReadFails(l) ==
  /\ pc[l] = "read"
  /\ LoaderStep(l, "failed")
  /\ UNCHANGED <<tuned, opened, serverVars>>

\* the player opens the data source again before it reports the error
Retry(l) ==
  /\ l = active
  /\ pc[l] = "failed"
  /\ LoaderStep(l, "open")
  /\ UNCHANGED <<tuned, opened, serverVars>>

\* a cancelled thread notices it, unless it is inside a request
LoaderEnds(l) ==
  /\ l # active
  /\ pc[l] \in {"open", "read", "failed"}
  /\ Unload(l)
  /\ UNCHANGED <<mTune, sessionVars, playerVars, disconnect, isOpen, active, serverVars,
                 historyVars>>

Loader(l) ==
  \/ open(l) \/ openStream(l) \/ onServerTuned(l) \/ NoResponse(l) \/ NoConnection(l)
  \/ ReadFails(l) \/ LoaderEnds(l)

\* the server comes to the request it has not answered in time
ServerLate ==
  /\ late # None
  /\ stream' \in {late, None}
  /\ late' = None
  /\ UNCHANGED <<mTune, sessionVars, playerVars, disconnect, isOpen, loaderVars, historyVars>>

\* the session of the connection reports its loss
ConnectionLost ==
  /\ isOpen
  /\ isOpen' = FALSE
  /\ stream' = None
  /\ late' = None
  /\ disconnect' = TRUE
  /\ pc' = Cut
  /\ UNCHANGED <<mTune, sessionVars, playerVars, uri, opened, active, historyVars>>

-------------------------------------------------------------------------------
Init ==
  /\ mTune = FALSE
  /\ mChannelUri = None
  /\ mCurrentChannelUri = None
  /\ playbackStarted = FALSE
  /\ released = FALSE
  /\ opening = FALSE
  /\ tuned = FALSE
  /\ disconnect = FALSE
  /\ isOpen = FALSE
  /\ pc = [l \in Loaders |-> "none"]
  /\ uri = [l \in Loaders |-> None]
  /\ opened = {}
  /\ active = None
  /\ stream = None
  /\ late = None
  /\ wanted = None
  /\ zapLost = FALSE
  /\ timedOut = FALSE
  /\ zombie = FALSE
  /\ halted = FALSE

Callback == onBuffering \/ onReady \/ onPlayerError \/ onDisconnect

Next ==
  \/ \E c \in Channels : onTune(c)
  \/ \E connected \in BOOLEAN : tune(connected)
  \/ channel_not_found \/ openSyncReturns \/ Callback \/ onSetSurface \/ onRelease
  \/ \E l \in Loaders : Loader(l) \/ Retry(l)
  \/ ServerLate \/ ConnectionLost

(***************************************************************************)
(* The looper runs what is posted, a request is answered or fails, the     *)
(* player reports an error after some retries, and the server can be       *)
(* reached again and again when it is tried.                               *)
(***************************************************************************)
Spec ==
  /\ Init /\ [][Next]_vars
  /\ SF_vars(tune(TRUE))
  /\ WF_vars(openSyncReturns) /\ SF_vars(onPlayerError) /\ WF_vars(onDisconnect)
  /\ \A l \in Loaders : WF_vars(Loader(l))

-------------------------------------------------------------------------------
\* no loader is on its way to the server
Settled == MainIdle /\ late = None /\ \A l \in Loaders : pc[l] \notin {"open", "lock", "sent", "cut"}

(***************************************************************************)
(* When all requests are answered, the server streams the channel of the   *)
(* last tune and of no tune before, answers that came too late included:   *)
(* openSync() keeps the requests of two tunes apart, unless it has given   *)
(* up waiting for one of them.                                             *)
(***************************************************************************)
StreamIsCurrent ==
  Settled /\ stream # None /\ ~timedOut => stream = mCurrentChannelUri

(***************************************************************************)
(* A channel the user has asked for is tuned or about to be, through all   *)
(* errors, disconnections and retries - unless the query for it fails,     *)
(* or the stream before became ready in between, which removes the tune.   *)
(***************************************************************************)
ZapPending ==
  wanted # mCurrentChannelUri => mTune \/ zapLost

(***************************************************************************)
(* A released session has no connection, unless a tune or the report of a  *)
(* disconnection was still posted; nobody removes it from the looper, and  *)
(* it connects again.                                                      *)
(***************************************************************************)
ReleasedStaysClosed == released /\ isOpen => zombie

(***************************************************************************)
(* After a loss the session connects again, whatever loaders, buffering    *)
(* and the report of the loss do in which order, and as often as it takes, *)
(* unless the query for the channel fails or the player is stopped.        *)
(***************************************************************************)
Reconnects ==
  ~isOpen /\ mCurrentChannelUri # None ~> isOpen \/ released \/ halted

===============================================================================

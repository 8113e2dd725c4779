------------------------------ MODULE DataService ------------------------------
(***************************************************************************)
(* The data service of the Android TV application, which keeps one session *)
(* to the server open for the whole application.  Four threads work on its *)
(* state without a lock: the "dataservice" handler thread that runs        *)
(* mOpenRunnable, the worker of the session that calls onDisconnect, the   *)
(* main looper that runs what was posted to the listeners, and the main    *)
(* thread in onStartCommand and onDestroy.                                 *)
(*                                                                         *)
(* The session is MsgSession seen from outside: "lost" is a session whose  *)
(* worker has ended by itself and has not been joined; Open() fails on it, *)
(* and on one that is open, until Close() was called.                      *)
(***************************************************************************)
EXTENDS Integers, Sequences, FiniteSets

CONSTANTS
  MaxLoss,    \* bound: number of connection losses
  MaxMain     \* bound: runnables waiting in the main looper

ASSUME ServiceAssumption == MaxLoss \in Nat /\ MaxMain \in Nat \ {0}

VARIABLES
  \* DataService
  connectionStatus, \* "connected", or "other": NotConnected = Connecting = 1
  wasConnected,
  listenerQueue,    \* runnables posted to listenerHandler
  posted,           \* mOpenRunnable posted by postOpen()
  delayed,          \* mOpenRunnables posted with the delay of 10 s
  started,          \* onStartCommand with startId 1 has run
  destroyed,        \* onDestroy has run
  \* where the handler thread and the session's worker are
  hpc,
  wpc,
  \* the session, the server and the settings
  session,
  serverUp,
  configured,       \* a server name is set
  losses,
  \* history
  overtaken         \* the session ended while onConnected was still queued

serviceVars == <<connectionStatus, wasConnected, listenerQueue, started, destroyed>>
postVars == <<posted, delayed>>
envVars == <<serverUp, configured>>
vars == <<serviceVars, postVars, hpc, wpc, session, envVars, losses, overtaken>>

Runnables == {"onConnected", "onConnectionError"}

ConnectedQueued ==
  \E i \in 1 .. Len(listenerQueue) : listenerQueue[i] = "onConnected"

\* listenerHandler.post
PostListener(r) ==
  /\ Len(listenerQueue) < MaxMain
  /\ listenerQueue' = Append(listenerQueue, r)

\* mutant: removeCallbacks is left out
MutpostOpen ==
  /\ posted' = 1
  /\ UNCHANGED delayed

\* handler.removeCallbacks(mOpenRunnable); handler.post(mOpenRunnable)
postOpen ==
  /\ posted' = 1
  /\ delayed' = 0

\* handler.postDelayed(mOpenRunnable, 10 * 1000)
PostDelayed ==
  /\ delayed' = delayed + 1
  /\ UNCHANGED posted

(***************************************************************************)
(* Connection.close(): joins the session's worker, so it waits for an      *)
(* onDisconnect that is running; the caller's UNCHANGED leaves wpc alone.  *)
(***************************************************************************)
CloseSession ==
  /\ wpc = "none"
  /\ session' = "closed"
  /\ overtaken' = (overtaken \/ (ConnectedQueued /\ session = "open"))

-------------------------------------------------------------------------------
(***************************************************************************)
(* mOpenRunnable on the handler thread                                     *)
(***************************************************************************)

\* the looper takes the posted runnable, or a delayed one when it is due;
\* open() looks at the status and at the settings
Run ==
  /\ hpc = "idle"
  /\ \/ posted = 1 /\ posted' = 0 /\ UNCHANGED delayed
     \/ delayed > 0 /\ delayed' = delayed - 1 /\ UNCHANGED posted
  /\ hpc' = "run"
  /\ UNCHANGED <<serviceVars, wpc, session, envVars, losses, overtaken>>

\* open(): already connected
OpenConnected ==
  /\ hpc = "run"
  /\ connectionStatus = "connected"
  /\ PostListener("onConnected")
  /\ wasConnected' = TRUE
  /\ hpc' = "idle"
  /\ UNCHANGED <<connectionStatus, started, destroyed, postVars, wpc, session,
                 envVars, losses, overtaken>>

\* mutant: mOpenRunnable is not posted again
MutOpenUnconfigured ==
  /\ hpc = "run"
  /\ connectionStatus # "connected"
  /\ ~configured
  /\ PostListener("onConnectionError")
  /\ hpc' = "idle"
  /\ UNCHANGED <<connectionStatus, wasConnected, started, destroyed, postVars,
                 wpc, session, envVars, losses, overtaken>>

\* open(): no server set
OpenUnconfigured ==
  /\ hpc = "run"
  /\ connectionStatus # "connected"
  /\ ~configured
  /\ connectionStatus' = "other"
  /\ PostListener("onConnectionError")
  /\ PostDelayed
  /\ hpc' = "idle"
  /\ UNCHANGED <<wasConnected, started, destroyed, wpc, session, envVars, losses,
                 overtaken>>

\* open(): status Connecting
OpenConnecting ==
  /\ hpc = "run"
  /\ connectionStatus # "connected"
  /\ configured
  /\ connectionStatus' = "other"
  /\ hpc' = "open"
  /\ UNCHANGED <<wasConnected, listenerQueue, started, destroyed, postVars, wpc,
                 session, envVars, losses, overtaken>>

\* Connection.open: the session is opened
OpenSession ==
  /\ hpc = "open"
  /\ \/ /\ session = "closed" /\ serverUp
        /\ session' = "open"
        /\ hpc' = "login"
     \/ /\ session # "closed" \/ ~serverUp
        /\ hpc' = "failed"
        /\ UNCHANGED session
  /\ UNCHANGED <<serviceVars, postVars, wpc, envVars, losses, overtaken>>

\* Connection.login answered
LoginDone ==
  /\ hpc = "login"
  /\ session = "open"
  /\ hpc' = "opened"
  /\ UNCHANGED <<serviceVars, postVars, wpc, session, envVars, losses, overtaken>>

\* no answer, or that of a server with an older protocol
LoginFailed ==
  /\ hpc = "login"
  /\ hpc' = "failed"
  /\ UNCHANGED <<serviceVars, postVars, wpc, session, envVars, losses, overtaken>>

\* mutant: the session is not closed after a failure
MutOpenFailed ==
  /\ hpc = "failed"
  /\ connectionStatus' = "other"
  /\ PostListener("onConnectionError")
  /\ wasConnected' = FALSE
  /\ PostDelayed
  /\ hpc' = "idle"
  /\ UNCHANGED <<started, destroyed, wpc, session, envVars, losses, overtaken>>

\* open() closes the session, and mOpenRunnable posts itself again
OpenFailed ==
  /\ hpc = "failed"
  /\ CloseSession
  /\ connectionStatus' = "other"
  /\ PostListener("onConnectionError")
  /\ wasConnected' = FALSE
  /\ PostDelayed
  /\ hpc' = "idle"
  /\ UNCHANGED <<started, destroyed, wpc, envVars, losses>>

\* open() returns true: the listeners will be told, the status follows
OpenDone ==
  /\ hpc = "opened"
  /\ PostListener("onConnected")
  /\ overtaken' = (overtaken \/ session # "open")
  /\ wasConnected' = TRUE
  /\ hpc' = "idle"
  /\ UNCHANGED <<connectionStatus, started, destroyed, postVars, wpc, session,
                 envVars, losses>>

-------------------------------------------------------------------------------
\* mutant: onDisconnect leaves the status
MutLost ==
  /\ session = "open"
  /\ losses < MaxLoss
  /\ losses' = losses + 1
  /\ session' = "lost"
  /\ wpc' = "post"
  /\ overtaken' = (overtaken \/ ConnectedQueued)
  /\ UNCHANGED <<serviceVars, postVars, hpc, envVars>>

(***************************************************************************)
(* The session's worker: onDisconnect                                      *)
(***************************************************************************)
Lost ==
  /\ session = "open"
  /\ losses < MaxLoss
  /\ losses' = losses + 1
  /\ session' = "lost"
  /\ connectionStatus' = "other"
  /\ wpc' = "post"
  /\ overtaken' = (overtaken \/ ConnectedQueued)
  /\ UNCHANGED <<wasConnected, listenerQueue, started, destroyed, postVars, hpc,
                 envVars>>

LostPost ==
  /\ wpc = "post"
  /\ postOpen
  /\ wpc' = "none"
  /\ UNCHANGED <<serviceVars, hpc, session, envVars, losses, overtaken>>

-------------------------------------------------------------------------------
(***************************************************************************)
(* The main thread                                                         *)
(***************************************************************************)

\* the runnable of postOnConnected() tells the listeners and sets the status
RunOnConnected ==
  /\ listenerQueue # <<>>
  /\ Head(listenerQueue) = "onConnected"
  /\ listenerQueue' = Tail(listenerQueue)
  /\ connectionStatus' = "connected"
  /\ UNCHANGED <<wasConnected, started, destroyed, postVars, hpc, wpc, session,
                 envVars, losses, overtaken>>

RunOnConnectionError ==
  /\ listenerQueue # <<>>
  /\ Head(listenerQueue) = "onConnectionError"
  /\ listenerQueue' = Tail(listenerQueue)
  /\ UNCHANGED <<connectionStatus, wasConnected, started, destroyed, postVars,
                 hpc, wpc, session, envVars, losses, overtaken>>

(***************************************************************************)
(* onStartCommand with startId 1, the first after onCreate; the status is  *)
(* NotConnected then, and any later start returns at once.                 *)
(***************************************************************************)
onStartCommand ==
  /\ ~started
  /\ started' = TRUE
  /\ postOpen
  /\ UNCHANGED <<connectionStatus, wasConnected, listenerQueue, destroyed, hpc,
                 wpc, session, envVars, losses, overtaken>>

\* interrupt() does not end the looper of the handler thread
onDestroy ==
  /\ started
  /\ ~destroyed
  /\ destroyed' = TRUE
  /\ CloseSession
  /\ connectionStatus' = "other"
  /\ wasConnected' = FALSE
  /\ UNCHANGED <<listenerQueue, started, postVars, hpc, wpc, envVars, losses>>

\* the server comes and goes, the user sets its name
ServerChanges ==
  /\ serverUp' = ~serverUp
  /\ session # "open"
  /\ losses < MaxLoss
  /\ losses' = losses + 1
  /\ UNCHANGED <<serviceVars, postVars, hpc, wpc, session, configured, overtaken>>

Configure ==
  /\ ~configured
  /\ configured' = TRUE
  /\ UNCHANGED <<serviceVars, postVars, hpc, wpc, session, serverUp, losses,
                 overtaken>>

-------------------------------------------------------------------------------
Init ==
  /\ connectionStatus = "other"
  /\ wasConnected = FALSE
  /\ listenerQueue = <<>>
  /\ posted = 0
  /\ delayed = 0
  /\ started = FALSE
  /\ destroyed = FALSE
  /\ hpc = "idle"
  /\ wpc = "none"
  /\ session = "closed"
  /\ serverUp \in BOOLEAN
  /\ configured \in BOOLEAN
  /\ losses = 0
  /\ overtaken = FALSE

OpenStep ==
  \/ Run
  \/ OpenConnected
  \/ OpenUnconfigured
  \/ OpenConnecting
  \/ OpenSession
  \/ LoginDone
  \/ LoginFailed
  \/ OpenFailed
  \/ OpenDone

MainStep == RunOnConnected \/ RunOnConnectionError

Next ==
  \/ OpenStep
  \/ Lost
  \/ LostPost
  \/ MainStep
  \/ onStartCommand
  \/ onDestroy
  \/ ServerChanges
  \/ Configure

Spec == Init /\ [][Next]_vars

(***************************************************************************)
(* The loopers run what was posted to them and the worker finishes its     *)
(* callback.  A login that is tried again and again succeeds one day: the  *)
(* server that is up answers.                                              *)
(***************************************************************************)
FairSpec ==
  /\ Spec
  /\ WF_vars(OpenStep)
  /\ SF_vars(LoginDone)
  /\ WF_vars(MainStep)
  /\ WF_vars(LostPost)

-------------------------------------------------------------------------------
TypeOK ==
  /\ connectionStatus \in {"connected", "other"}
  /\ wasConnected \in BOOLEAN
  /\ listenerQueue \in Seq(Runnables)
  /\ Len(listenerQueue) <= MaxMain
  /\ posted \in {0, 1}
  /\ delayed \in 0 .. 2
  /\ started \in BOOLEAN
  /\ destroyed \in BOOLEAN
  /\ hpc \in {"idle", "run", "open", "login", "opened", "failed"}
  /\ wpc \in {"none", "post"}
  /\ session \in {"closed", "open", "lost"}
  /\ serverUp \in BOOLEAN
  /\ configured \in BOOLEAN
  /\ losses \in 0 .. MaxLoss
  /\ overtaken \in BOOLEAN

(***************************************************************************)
(* The service never gives up: as long as it does not believe itself       *)
(* connected, another attempt is posted, running, or its success is on the *)
(* way to the main looper.                                                 *)
(***************************************************************************)
AttemptPending ==
  started /\ ~destroyed /\ connectionStatus # "connected" =>
    posted + delayed > 0 \/ hpc # "idle" \/ wpc = "post" \/ ConnectedQueued

(***************************************************************************)
(* The service believes itself connected without a session only after a    *)
(* disconnection has overtaken an onConnected runnable in the main looper. *)
(***************************************************************************)
StatusHonest ==
  connectionStatus = "connected" /\ session # "open" => overtaken

(***************************************************************************)
(* After a loss the session is opened again while the server is up, unless *)
(* the status was set wrongly by an onConnected that came late.            *)
(***************************************************************************)
ReconnectsUnlessOvertaken ==
  session = "lost" ~> session = "open" \/ ~serverUp \/ destroyed \/ overtaken

===============================================================================

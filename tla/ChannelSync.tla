----------------------------- MODULE ChannelSync -----------------------------
(***************************************************************************)
(* The import of the server's channel list into Android's TV provider:     *)
(* ChannelSyncAdapter, run by SyncJobService as a job of the system and by *)
(* the setup as a thread of its own.                                       *)
(*                                                                         *)
(* The provider keeps its rows when the process is killed.  The system     *)
(* stops a job whenever it likes and starts the next one while the stopped *)
(* task is still on its way to its next look at the flag.                  *)
(*                                                                         *)
(* Numbers stand for channels that are not marked OBSOLETE, which the code *)
(* skips.  Programs, logos and recommendations are left out; what matters  *)
(* of them is which rows they look for.                                    *)
(***************************************************************************)
EXTENDS Integers, FiniteSets

CONSTANTS
  Jobs,        \* bound: the tasks of the jobs that are started
  Setup,       \* the thread of registerChannels()
  None,
  Numbers,     \* channel numbers
  MaxChanges   \* bound: changes of the server's channel list

Tasks == Jobs \union {Setup}

ASSUME SyncAssumption ==
  /\ Setup \notin Jobs
  /\ None \notin Tasks
  /\ \A list \in SUBSET Numbers : list # None
  /\ MaxChanges \in Nat

VARIABLES
  server,     \* the server's channels
  rows,       \* the provider's channels: [id, number]
  lastId,
  scheduled,  \* the job is known to the system
  syncTask,   \* the task of the job that runs, or None
  stopping,   \* the main thread is inside onStopJob()
  pc,
  existing,   \* existingChannels of a task, as rows
  todo,       \* what is left of the list it has loaded
  cancelled,  \* of the adapter, set by cancel()
  isCancelled,\* of the task, set by cancel(true)
  \* history
  loaded,     \* the list a task has loaded, or None if it could not
  crashed,    \* a task has thrown an exception
  overlap,    \* two tasks were at work at the same time
  undone,     \* tasks whose reset() came after cancel()
  late,       \* tasks that have begun a channel after they were stopped
  changes

systemVars == <<scheduled, syncTask, stopping>>
taskVars == <<pc, existing, todo, cancelled, isCancelled>>
historyVars == <<loaded, crashed, overlap, undone, late>>
vars == <<server, changes, rows, lastId, systemVars, taskVars, historyVars>>

Idle == {"none", "queued", "end"}

\* the tasks that are at work
AtWork == {t \in Tasks : pc[t] \notin Idle}

\* a step of task t to l
Goto(t, l) == pc' = [pc EXCEPT ![t] = l]

RowsOf(n) == {r \in rows : r.number = n}

\* mutant: the map is never filled
MutExistingChannels == {{}}

(***************************************************************************)
(* getExistingChannels(): a map from numbers to rows.  Of the rows with    *)
(* one number the last one of the cursor remains.                          *)
(***************************************************************************)
ExistingChannels ==
  {m \in SUBSET rows : \A r \in rows : Cardinality(m \intersect RowsOf(r.number)) = 1}

-------------------------------------------------------------------------------
(***************************************************************************)
(* Main thread                                                             *)
(***************************************************************************)

\* the server can be reached, otherwise nothing happens
onStartJob(t) ==
  /\ scheduled /\ syncTask = None /\ ~stopping
  /\ t \in Jobs /\ pc[t] = "none"
  /\ syncTask' = t
  /\ Goto(t, "queued")
  /\ UNCHANGED <<server, changes, rows, lastId, scheduled, stopping, existing, todo,
                 cancelled, isCancelled, historyVars>>

\* cancelJob()
onStopJob ==
  /\ syncTask # None /\ ~stopping
  /\ stopping' = TRUE
  /\ cancelled' = [cancelled EXCEPT ![syncTask] = TRUE]
  /\ UNCHANGED <<server, changes, rows, lastId, scheduled, syncTask, pc, existing, todo,
                 isCancelled, historyVars>>

\* cancel(true): a task that is still queued will not run
StopTask ==
  /\ stopping
  /\ stopping' = FALSE
  /\ syncTask' = None
  /\ isCancelled' = [isCancelled EXCEPT ![syncTask] = TRUE]
  /\ pc' = [pc EXCEPT ![syncTask] = IF @ = "queued" THEN "end" ELSE @]
  /\ UNCHANGED <<server, changes, rows, lastId, scheduled, existing, todo, cancelled,
                 historyVars>>

\* onPostExecute() and jobFinished(); not called for a cancelled task
onPostExecute(t) ==
  /\ pc[t] = "post" /\ ~stopping
  /\ syncTask' = IF syncTask = t THEN None ELSE syncTask
  /\ Goto(t, "end")
  /\ UNCHANGED <<server, changes, rows, lastId, scheduled, stopping, existing, todo,
                 cancelled, isCancelled, historyVars>>

\* registerChannels(), when the server can be reached; the system stops the
\* job that runs
registerChannels ==
  /\ ~stopping
  /\ pc[Setup] = "none"
  /\ scheduled' = FALSE
  /\ Goto(Setup, "cleanup")
  /\ overlap' = (overlap \/ AtWork # {})
  /\ UNCHANGED <<server, changes, rows, lastId, syncTask, stopping, existing, todo,
                 cancelled, isCancelled, loaded, crashed, undone, late>>

-------------------------------------------------------------------------------
(***************************************************************************)
(* doInBackground() and the setup's thread                                 *)
(***************************************************************************)

reset(t) ==
  /\ pc[t] = "queued"
  /\ cancelled' = [cancelled EXCEPT ![t] = FALSE]
  /\ undone' = IF cancelled[t] THEN undone \union {t} ELSE undone
  /\ overlap' = (overlap \/ AtWork # {})
  /\ Goto(t, "channels")
  /\ UNCHANGED <<server, changes, rows, lastId, systemVars, existing, todo, isCancelled,
                 loaded, crashed, late>>

\* syncChannels(true) begins with the removal of all channels
Cleanup ==
  /\ pc[Setup] = "cleanup"
  /\ rows' = {}
  /\ Goto(Setup, "channels")
  /\ UNCHANGED <<server, changes, lastId, systemVars, existing, todo, cancelled,
                 isCancelled, historyVars>>

\* the task ends between two of its parts if it was cancelled
Ends(t, part) ==
  /\ pc[t] = part
  /\ isCancelled[t]
  /\ Goto(t, "end")
  /\ UNCHANGED <<server, changes, rows, lastId, systemVars, existing, todo, cancelled,
                 isCancelled, historyVars>>

\* the existing channels are asked for at the begin of a part
Query(t, part, next) ==
  /\ pc[t] = part
  /\ ~isCancelled[t]
  /\ \E m \in ExistingChannels : existing' = [existing EXCEPT ![t] = m]
  /\ Goto(t, next)
  /\ UNCHANGED <<server, changes, rows, lastId, systemVars, todo, cancelled,
                 isCancelled, historyVars>>

\* Channels.load(); a request that fails leaves the list empty
load(t) ==
  /\ pc[t] = "load"
  /\ Goto(t, "list")
  /\ \/ /\ todo' = [todo EXCEPT ![t] = server]
        /\ loaded' = [loaded EXCEPT ![t] = server]
     \/ /\ todo' = [todo EXCEPT ![t] = {}]
        /\ loaded' = [loaded EXCEPT ![t] = None]
  /\ UNCHANGED <<server, changes, rows, lastId, systemVars, existing, cancelled,
                 isCancelled, crashed, overlap, undone, late>>

\* mutant: the flag is not looked at
MutSyncChannel(t) ==
  /\ pc[t] = "list"
  /\ \E n \in todo[t] :
       LET known == {r \in existing[t] : r.number = n} IN
       /\ todo' = [todo EXCEPT ![t] = @ \ {n}]
       /\ existing' = [existing EXCEPT ![t] = @ \ known]
       /\ IF known = {}
          THEN /\ lastId' = lastId + 1
               /\ rows' = rows \union {[id |-> lastId', number |-> n]}
          ELSE UNCHANGED <<rows, lastId>>
  /\ late' = IF isCancelled[t] THEN late \union {t} ELSE late
  /\ UNCHANGED <<server, changes, systemVars, pc, cancelled, isCancelled, loaded,
                 crashed, overlap, undone>>

\* the next channel of the list is inserted or updated
SyncChannel(t) ==
  /\ pc[t] = "list"
  /\ ~cancelled[t]
  /\ \E n \in todo[t] :
       LET known == {r \in existing[t] : r.number = n} IN
       /\ todo' = [todo EXCEPT ![t] = @ \ {n}]
       /\ existing' = [existing EXCEPT ![t] = @ \ known]
       /\ IF known = {}
          THEN /\ lastId' = lastId + 1
               /\ rows' = rows \union {[id |-> lastId', number |-> n]}
          ELSE UNCHANGED <<rows, lastId>>
  /\ late' = IF isCancelled[t] THEN late \union {t} ELSE late
  /\ UNCHANGED <<server, changes, systemVars, pc, cancelled, isCancelled, loaded,
                 crashed, overlap, undone>>

\* mutant: a cancelled task still removes what it has not come to
MutListEnd(t) ==
  /\ pc[t] = "list"
  /\ cancelled[t] \/ todo[t] = {}
  /\ Goto(t, "orphans")
  /\ UNCHANGED <<server, changes, rows, lastId, systemVars, existing, todo, cancelled,
                 isCancelled, historyVars>>

\* the list is done, or syncChannels() returns because of cancel()
ListEnd(t) ==
  /\ pc[t] = "list"
  /\ \/ todo[t] = {} /\ Goto(t, "orphans")
     \/ todo[t] # {} /\ cancelled[t] /\ Goto(t, "epg")
  /\ todo' = [todo EXCEPT ![t] = {}]
  /\ UNCHANGED <<server, changes, rows, lastId, systemVars, existing, cancelled,
                 isCancelled, historyVars>>

\* remove orphaned channels
RemoveOrphan(t) ==
  /\ pc[t] = "orphans"
  /\ \E r \in existing[t] :
       /\ rows' = rows \ {r}
       /\ existing' = [existing EXCEPT ![t] = @ \ {r}]
  /\ UNCHANGED <<server, changes, lastId, systemVars, pc, todo, cancelled, isCancelled,
                 historyVars>>

OrphansEnd(t) ==
  /\ pc[t] = "orphans"
  /\ existing[t] = {}
  /\ Goto(t, IF t = Setup THEN "end" ELSE "epg")
  /\ scheduled' = (scheduled \/ t = Setup)
  /\ UNCHANGED <<server, changes, rows, lastId, syncTask, stopping, existing, todo,
                 cancelled, isCancelled, historyVars>>

(***************************************************************************)
(* syncEPG(), channel by channel.  For a row that is gone getChannelInfo() *)
(* finds nothing and succeeds, and the provider's library throws for the   *)
(* address that is missing then; nobody catches it, the process ends.      *)
(***************************************************************************)
SyncChannelEPG(t) ==
  /\ pc[t] = "programs"
  /\ ~cancelled[t]
  /\ \E r \in existing[t] \intersect rows : existing' = [existing EXCEPT ![t] = @ \ {r}]
  /\ UNCHANGED <<server, changes, rows, lastId, systemVars, pc, todo, cancelled,
                 isCancelled, historyVars>>

EPGEnd(t) ==
  /\ pc[t] = "programs"
  /\ cancelled[t] \/ existing[t] = {}
  /\ Goto(t, "icons")
  /\ existing' = [existing EXCEPT ![t] = {}]
  /\ UNCHANGED <<server, changes, rows, lastId, systemVars, todo, cancelled,
                 isCancelled, historyVars>>

\* syncChannelIcons() and syncRecommendationChannel() change no channel
Rest(t) ==
  /\ pc[t] = "icons"
  /\ ~isCancelled[t]
  /\ Goto(t, "post")
  /\ UNCHANGED <<server, changes, rows, lastId, systemVars, existing, todo, cancelled,
                 isCancelled, historyVars>>

\* the process ends: tasks, flags and the main thread's calls are gone
ProcessEnds(exception) ==
  /\ crashed' = (crashed \/ exception)
  /\ pc' = [t \in Tasks |-> IF pc[t] = "none" THEN "none" ELSE "end"]
  /\ existing' = [t \in Tasks |-> {}]
  /\ todo' = [t \in Tasks |-> {}]
  /\ syncTask' = None
  /\ stopping' = FALSE
  /\ UNCHANGED <<server, changes, rows, lastId, scheduled, cancelled, isCancelled,
                 loaded, overlap, undone, late>>

Exception(t) ==
  /\ pc[t] = "programs"
  /\ ~cancelled[t]
  /\ existing[t] \ rows # {}
  /\ ProcessEnds(TRUE)

Kill == AtWork # {} /\ ProcessEnds(FALSE)

\* channels come and go on the server
ServerChanges ==
  /\ changes < MaxChanges
  /\ changes' = changes + 1
  /\ server' \in SUBSET Numbers \ {server}
  /\ UNCHANGED <<rows, lastId, systemVars, taskVars, historyVars>>

-------------------------------------------------------------------------------
Init ==
  /\ server \in SUBSET Numbers \ {{}}
  /\ changes = 0
  /\ rows = {}
  /\ lastId = 0
  /\ scheduled = TRUE
  /\ syncTask = None
  /\ stopping = FALSE
  /\ pc = [t \in Tasks |-> "none"]
  /\ existing = [t \in Tasks |-> {}]
  /\ todo = [t \in Tasks |-> {}]
  /\ cancelled = [t \in Tasks |-> FALSE]
  /\ isCancelled = [t \in Tasks |-> FALSE]
  /\ loaded = [t \in Tasks |-> None]
  /\ crashed = FALSE
  /\ overlap = FALSE
  /\ undone = {}
  /\ late = {}

Next ==
  \/ onStopJob \/ StopTask \/ registerChannels \/ Cleanup
  \/ Kill \/ ServerChanges
  \/ \E t \in Jobs :
       \/ onStartJob(t) \/ reset(t) \/ onPostExecute(t)
       \/ \E part \in {"channels", "epg", "icons"} : Ends(t, part)
       \/ Query(t, "epg", "programs") \/ Rest(t)
       \/ SyncChannelEPG(t) \/ EPGEnd(t) \/ Exception(t)
  \/ \E t \in Tasks :
       \/ Query(t, "channels", "load") \/ load(t)
       \/ SyncChannel(t) \/ ListEnd(t)
       \/ RemoveOrphan(t) \/ OrphansEnd(t)

Spec == Init /\ [][Next]_vars

-------------------------------------------------------------------------------
(***************************************************************************)
(* A sync that runs to its end leaves exactly the channels it has loaded,  *)
(* whatever syncs that were cancelled or killed before it have left behind *)
(* - and none at all if the list could not be loaded, since then every     *)
(* channel counts as orphaned.                                             *)
(***************************************************************************)
SyncedIsServerList ==
  \A t \in Tasks :
    pc[t] = "orphans" /\ existing[t] = {} /\ ~overlap =>
      {r.number : r \in rows} = IF loaded[t] = None THEN {} ELSE loaded[t]

(***************************************************************************)
(* However often syncs are stopped, killed and repeated, a channel has one *)
(* row, and syncEPG() finds every row it looks for - unless two syncs were *)
(* at work at the same time.  Then both may insert the channel, and no     *)
(* later sync removes the second row; or one removes the row the other     *)
(* gets programs for.                                                      *)
(***************************************************************************)
OneRowPerNumber ==
  ~overlap =>
    /\ \A r, s \in rows : r.number = s.number => r = s
    /\ ~crashed

(***************************************************************************)
(* After onStopJob() the task begins no other channel, unless its reset()  *)
(* came after the cancel() of onStopJob() and has undone it.               *)
(***************************************************************************)
StopHonoured == late \subseteq undone

===============================================================================

--------------------------- MODULE ChannelSyncProofs ---------------------------
(***************************************************************************)
(* Proofs about ChannelSync, for every set of jobs and of channel numbers  *)
(* and every number of changes on the server.                              *)
(***************************************************************************)
EXTENDS ChannelSync, FiniteSetTheorems, TLAPS

USE DEF systemVars, taskVars, historyVars

Labels == {"none", "queued", "end", "cleanup", "channels", "load", "list", "orphans",
           "epg", "programs", "icons", "post"}

Rows == [id : Nat, number : Numbers]

\* The variables the invariants below depend on have their types.
SyncTyped ==
  /\ pc \in [Tasks -> Labels]
  /\ syncTask \in Jobs \union {None}
  /\ server \in SUBSET Numbers
  /\ rows \in SUBSET Rows
  /\ lastId \in Nat
  /\ existing \in [Tasks -> SUBSET Rows]
  /\ todo \in [Tasks -> SUBSET Numbers]
  /\ loaded \in [Tasks -> {None} \union SUBSET Numbers]
  /\ cancelled \in [Tasks -> BOOLEAN]
  /\ isCancelled \in [Tasks -> BOOLEAN]

-------------------------------------------------------------------------------
(***************************************************************************)
(* Stopping.  onStopJob() cancels the adapter before it cancels the task,  *)
(* and only reset() takes that back.                                       *)
(***************************************************************************)
StopInv ==
  /\ SyncTyped
  /\ stopping => syncTask # None /\ (cancelled[syncTask] \/ syncTask \in undone)
  /\ \A t \in Tasks : isCancelled[t] => cancelled[t] \/ t \in undone
  /\ StopHonoured

-------------------------------------------------------------------------------
(***************************************************************************)
(* The rows, while no two tasks were at work at the same time.             *)
(***************************************************************************)
UniqueNumbers == \A r, s \in rows : r.number = s.number => r = s

OneAtWork == \A t, u \in AtWork : t = u

\* the list a task works on: none, if it could not be loaded
Loaded(t) == IF loaded[t] = None THEN {} ELSE loaded[t]

\* the rows a task has dealt with
Done(t) == rows \ existing[t]

\* What a task knows of the rows, at each of its labels.
Knows(t) ==
  /\ pc[t] \in {"load", "list", "orphans", "programs"} => existing[t] \subseteq rows
  /\ pc[t] = "load" => existing[t] = rows
  /\ pc[t] \in {"list", "orphans"} =>
       /\ todo[t] \subseteq Loaded(t)
       /\ {r.number : r \in Done(t)} = Loaded(t) \ todo[t]
  /\ pc[t] = "orphans" => todo[t] = {}

RowsInv ==
  /\ SyncTyped
  /\ ~overlap =>
       /\ OneAtWork
       /\ UniqueNumbers
       /\ ~crashed
       /\ \A t \in AtWork : Knows(t)


-------------------------------------------------------------------------------
\* The maps getExistingChannels() can return hold rows of the provider.
LEMMA ExistingAreRows ==
  ASSUME SyncTyped, NEW m \in ExistingChannels
  PROVE  m \subseteq rows /\ m \in SUBSET Rows
  BY DEF ExistingChannels, SyncTyped

\* Of rows with different numbers none is missing in the map.
LEMMA ExistingAreAll ==
  ASSUME SyncTyped, UniqueNumbers, NEW m \in ExistingChannels
  PROVE  m = rows
  <1>1. m \subseteq rows
    BY DEF ExistingChannels
  <1>2. ASSUME NEW r \in rows PROVE r \in m
    <2>1. RowsOf(r.number) = {r}
      BY DEF RowsOf, UniqueNumbers
    <2>2. Cardinality(m \intersect {r}) = 1
      BY <2>1 DEF ExistingChannels
    <2>3. r \notin m => m \intersect {r} = {}
      OBVIOUS
    <2> QED
      BY <2>2, <2>3, FS_EmptySet
  <1> QED
    BY <1>1, <1>2

\* A task that takes a step to a label of its own, and the others, keep pc typed.
LEMMA GotoTyped ==
  ASSUME SyncTyped, NEW t \in Tasks, NEW l \in Labels, Goto(t, l)
  PROVE  /\ pc' \in [Tasks -> Labels]
         /\ pc'[t] = l
         /\ \A u \in Tasks \ {t} : pc'[u] = pc[u]
  BY DEF SyncTyped, Goto

\* The initial values have their types.
LEMMA InitTyped == Init => SyncTyped
  BY DEF Init, SyncTyped, Labels

\* Every step of a task keeps the types.
LEMMA TaskTyped ==
  ASSUME SyncTyped, NEW t \in Tasks,
         \/ Query(t, "channels", "load") \/ Query(t, "epg", "programs")
         \/ load(t) \/ SyncChannel(t) \/ ListEnd(t)
         \/ RemoveOrphan(t) \/ OrphansEnd(t)
  PROVE  SyncTyped'
  <1>1. ASSUME NEW part, NEW next \in Labels, Query(t, part, next)
        PROVE  SyncTyped'
    <2>1. PICK m \in ExistingChannels : existing' = [existing EXCEPT ![t] = m]
      BY <1>1 DEF Query
    <2>2. existing' \in [Tasks -> SUBSET Rows]
      BY <2>1, ExistingAreRows DEF SyncTyped
    <2> QED
      BY <1>1, <2>2, GotoTyped DEF Query, SyncTyped
  <1>2. CASE load(t)
    BY <1>2, GotoTyped DEF load, SyncTyped, Labels
  <1>3. CASE SyncChannel(t)
    <2>1. PICK n \in todo[t] :
            LET known == {r \in existing[t] : r.number = n} IN
            /\ todo' = [todo EXCEPT ![t] = @ \ {n}]
            /\ existing' = [existing EXCEPT ![t] = @ \ known]
            /\ IF known = {}
               THEN /\ lastId' = lastId + 1
                    /\ rows' = rows \union {[id |-> lastId', number |-> n]}
               ELSE UNCHANGED <<rows, lastId>>
      BY <1>3 DEF SyncChannel
    <2>2. n \in Numbers
      BY DEF SyncTyped
    <2>3. rows' \in SUBSET Rows /\ lastId' \in Nat
      BY <2>1, <2>2 DEF SyncTyped, Rows
    <2>4. todo' \in [Tasks -> SUBSET Numbers] /\ existing' \in [Tasks -> SUBSET Rows]
      BY <2>1 DEF SyncTyped
    <2> QED
      BY <1>3, <2>3, <2>4 DEF SyncChannel, SyncTyped
  <1>4. CASE ListEnd(t)
    <2>1. pc' \in [Tasks -> Labels]
      BY <1>4, GotoTyped DEF ListEnd, Labels
    <2> QED
      BY <1>4, <2>1 DEF ListEnd, SyncTyped
  <1>5. CASE RemoveOrphan(t)
    BY <1>5 DEF RemoveOrphan, SyncTyped
  <1>6. CASE OrphansEnd(t)
    <2>1. pc' \in [Tasks -> Labels]
      BY <1>6, GotoTyped DEF OrphansEnd, Labels
    <2> QED
      BY <1>6, <2>1 DEF OrphansEnd, SyncTyped
  <1> QED
    BY <1>1, <1>2, <1>3, <1>4, <1>5, <1>6 DEF Labels

\* So does every step of a job alone.
LEMMA JobTyped ==
  ASSUME SyncTyped, NEW t \in Jobs,
         \/ onStartJob(t) \/ reset(t) \/ onPostExecute(t)
         \/ \E part \in {"channels", "epg", "icons"} : Ends(t, part)
         \/ Rest(t) \/ SyncChannelEPG(t) \/ EPGEnd(t)
  PROVE  SyncTyped'
  <1>0. t \in Tasks
    BY DEF Tasks
  <1>1. pc' \in [Tasks -> Labels]
    BY <1>0, GotoTyped
    DEF onStartJob, reset, onPostExecute, Ends, Rest, SyncChannelEPG, EPGEnd, Labels, SyncTyped
  <1>2. existing' \in [Tasks -> SUBSET Rows]
    BY <1>0 DEF onStartJob, reset, onPostExecute, Ends, Rest, SyncChannelEPG, EPGEnd, SyncTyped
  <1>3. syncTask' \in Jobs \union {None} /\ cancelled' \in [Tasks -> BOOLEAN]
    BY <1>0 DEF onStartJob, reset, onPostExecute, Ends, Rest, SyncChannelEPG, EPGEnd, SyncTyped
  <1> QED
    BY <1>1, <1>2, <1>3
    DEF onStartJob, reset, onPostExecute, Ends, Rest, SyncChannelEPG, EPGEnd, SyncTyped

\* The end of the process leaves no task at work.
LEMMA ProcessEndTyped ==
  ASSUME SyncTyped, NEW exception \in BOOLEAN, ProcessEnds(exception)
  PROVE  /\ SyncTyped'
         /\ AtWork' = {}
  <1>1. pc' \in [Tasks -> Labels]
    BY DEF ProcessEnds, SyncTyped, Labels
  <1>2. AtWork' = {}
    BY DEF ProcessEnds, AtWork, Idle
  <1> QED
    BY <1>1, <1>2 DEF ProcessEnds, SyncTyped

\* And every other step keeps the types.
LEMMA MainTyped ==
  ASSUME SyncTyped,
         onStopJob \/ StopTask \/ registerChannels \/ Cleanup \/ ServerChanges
  PROVE  SyncTyped'
  <1>0. Setup \in Tasks
    BY DEF Tasks
  <1>1. CASE onStopJob
    BY <1>1 DEF onStopJob, SyncTyped
  <1>2. CASE StopTask
    <2>1. pc' \in [Tasks -> Labels] /\ isCancelled' \in [Tasks -> BOOLEAN]
      BY <1>2 DEF StopTask, SyncTyped, Labels
    <2> QED
      BY <1>2, <2>1 DEF StopTask, SyncTyped
  <1>3. CASE registerChannels \/ Cleanup
    <2>1. pc' \in [Tasks -> Labels]
      BY <1>0, <1>3, GotoTyped DEF registerChannels, Cleanup, Labels
    <2> QED
      BY <1>3, <2>1 DEF registerChannels, Cleanup, SyncTyped
  <1>4. CASE ServerChanges
    BY <1>4 DEF ServerChanges, SyncTyped
  <1> QED
    BY <1>1, <1>2, <1>3, <1>4

\* Together: every step keeps the types.
LEMMA StepTyped ==
  ASSUME SyncTyped, [Next]_vars
  PROVE  SyncTyped'
  <1>1. CASE UNCHANGED vars
    BY <1>1 DEF vars, SyncTyped
  <1>2. CASE Next
    BY <1>2, TaskTyped, JobTyped, MainTyped, ProcessEndTyped DEF Next, Kill, Exception, Tasks
  <1> QED
    BY <1>1, <1>2


-------------------------------------------------------------------------------
\* Every step keeps the invariant about stopping.
LEMMA StopKept ==
  ASSUME StopInv, [Next]_vars
  PROVE  StopInv'
  <1> USE DEF StopInv, StopHonoured
  <1>0. SyncTyped'
    BY StepTyped
  <1>1. CASE onStopJob
    BY <1>0, <1>1 DEF onStopJob, SyncTyped, Tasks
  <1>2. CASE StopTask
    BY <1>0, <1>2 DEF StopTask, SyncTyped, Tasks
  <1>3. ASSUME NEW t \in Jobs, reset(t) PROVE StopInv'
    <2>1. t \in Tasks
      BY DEF Tasks
    <2>2. /\ \A u \in Tasks \ {t} : cancelled'[u] = cancelled[u]
          /\ cancelled[t] => t \in undone'
          /\ undone \subseteq undone'
      BY <1>3, <2>1 DEF reset, SyncTyped
    <2> QED
      BY <1>0, <1>3, <2>2 DEF reset, SyncTyped, Tasks
  <1>4. ASSUME NEW t \in Tasks, SyncChannel(t) PROVE StopInv'
    <2>1. late' \subseteq undone'
      BY <1>4 DEF SyncChannel
    <2> QED
      BY <1>0, <1>4, <2>1 DEF SyncChannel
  <1>5. ASSUME NEW t \in Jobs, onStartJob(t) \/ onPostExecute(t) PROVE StopInv'
    BY <1>0, <1>5 DEF onStartJob, onPostExecute
  <1>6. ASSUME NEW exception \in BOOLEAN, ProcessEnds(exception) PROVE StopInv'
    BY <1>0, <1>6 DEF ProcessEnds
  <1>7. CASE UNCHANGED <<stopping, syncTask, cancelled, isCancelled, undone, late>>
    BY <1>0, <1>7
  <1>8. ASSUME NEW t \in Tasks,
               \/ \E part \in {"channels", "epg", "icons"} : Ends(t, part)
               \/ Query(t, "channels", "load") \/ Query(t, "epg", "programs")
               \/ load(t) \/ ListEnd(t) \/ RemoveOrphan(t) \/ OrphansEnd(t)
               \/ Rest(t) \/ SyncChannelEPG(t) \/ EPGEnd(t)
        PROVE  UNCHANGED <<stopping, syncTask, cancelled, isCancelled, undone, late>>
    BY <1>8 DEF Ends, Query, load, ListEnd, RemoveOrphan, OrphansEnd, Rest,
                SyncChannelEPG, EPGEnd
  <1>9. CASE registerChannels \/ Cleanup \/ ServerChanges \/ UNCHANGED vars
    BY <1>7, <1>9 DEF registerChannels, Cleanup, ServerChanges, vars
  <1> QED
    BY <1>1, <1>2, <1>3, <1>4, <1>5, <1>6, <1>7, <1>8, <1>9
    DEF Next, Kill, Exception, Tasks

(***************************************************************************)
(* A stopped task begins no other channel, unless reset() came after       *)
(* cancel(), however the main thread and the tasks interleave.             *)
(***************************************************************************)
THEOREM StopIsHonoured == Spec => []StopHonoured
  <1>1. Init => StopInv
    BY InitTyped DEF Init, StopInv, StopHonoured
  <1>2. StopInv => StopHonoured
    BY DEF StopInv
  <1> QED
    BY <1>1, <1>2, StopKept, PTL DEF Spec

-------------------------------------------------------------------------------
\* A task at work is the only one, and remains so when it takes a step.
LEMMA Alone ==
  ASSUME SyncTyped, OneAtWork, NEW t \in AtWork,
         UNCHANGED pc \/ \E l \in Labels : Goto(t, l)
  PROVE  AtWork' \subseteq {t} /\ OneAtWork'
  <1>1. t \in Tasks /\ \A u \in Tasks \ {t} : pc[u] \in Idle
    BY DEF AtWork, OneAtWork
  <1>2. \A u \in Tasks \ {t} : pc'[u] = pc[u]
    BY <1>1, GotoTyped
  <1> QED
    BY <1>1, <1>2 DEF AtWork, OneAtWork

\* A task is at work at these labels.
LEMMA Working ==
  ASSUME NEW t \in Tasks, pc[t] \notin {"none", "queued", "end"}
  PROVE  t \in AtWork
  BY DEF AtWork, Idle

\* A step that changes no row, and after which nobody else is at work, keeps
\* the invariant: what the tasks know does not change.
LEMMA NobodyNew ==
  ASSUME RowsInv, SyncTyped', UNCHANGED <<rows, loaded, existing, todo, crashed, overlap>>,
         AtWork' \subseteq AtWork, \A t \in AtWork' : pc'[t] = pc[t]
  PROVE  RowsInv'
  BY DEF RowsInv, OneAtWork, UniqueNumbers, Knows, Loaded, Done

\* The steps of the main thread and the system.
LEMMA MainRows ==
  ASSUME RowsInv, SyncTyped',
         \/ onStopJob \/ StopTask \/ registerChannels \/ Cleanup \/ ServerChanges
         \/ UNCHANGED vars
         \/ \E exception \in BOOLEAN :
              ProcessEnds(exception) /\ (exception => overlap)
  PROVE  RowsInv'
  <1>0. SyncTyped /\ Setup \in Tasks
    BY DEF RowsInv, Tasks
  <1>1. CASE onStopJob \/ StopTask \/ ServerChanges \/ UNCHANGED vars
    <2>1. /\ UNCHANGED <<rows, loaded, existing, todo, crashed, overlap>>
          /\ AtWork' \subseteq AtWork
          /\ \A t \in AtWork' : pc'[t] = pc[t]
      BY <1>0, <1>1 DEF onStopJob, StopTask, ServerChanges, vars, AtWork, Idle, SyncTyped
    <2> QED
      BY <2>1, NobodyNew
  <1>2. CASE registerChannels
    <2> SUFFICES ASSUME ~overlap' PROVE RowsInv'
      BY DEF RowsInv
    <2>1. ~overlap /\ AtWork = {}
      BY <1>2 DEF registerChannels
    <2>2. AtWork' \subseteq {Setup} /\ pc'[Setup] = "cleanup"
      BY <1>0, <1>2, <2>1, GotoTyped DEF registerChannels, AtWork, Labels
    <2>3. OneAtWork' /\ \A t \in AtWork' : Knows(t)'
      BY <2>2 DEF OneAtWork, Knows
    <2> QED
      BY <1>2, <2>1, <2>3 DEF registerChannels, RowsInv, UniqueNumbers
  <1>3. CASE Cleanup
    <2> SUFFICES ASSUME ~overlap' PROVE RowsInv'
      BY DEF RowsInv
    <2>1. ~overlap /\ Setup \in AtWork /\ OneAtWork
      BY <1>0, <1>3, Working DEF Cleanup, RowsInv
    <2>2. AtWork' \subseteq {Setup} /\ OneAtWork'
      BY <1>0, <1>3, <2>1, Alone DEF Cleanup, Labels
    <2>3. pc'[Setup] = "channels"
      BY <1>0, <1>3, GotoTyped DEF Cleanup, Labels
    <2> QED
      BY <1>3, <2>1, <2>2, <2>3 DEF Cleanup, RowsInv, UniqueNumbers, Knows
  <1>4. ASSUME NEW exception \in BOOLEAN, ProcessEnds(exception), exception => overlap
        PROVE  RowsInv'
    <2>1. AtWork' = {}
      BY <1>0, <1>4, ProcessEndTyped
    <2>2. ~overlap' => ~overlap /\ ~crashed'
      BY <1>4 DEF ProcessEnds, RowsInv
    <2> QED
      BY <1>4, <2>1, <2>2 DEF ProcessEnds, RowsInv, OneAtWork, UniqueNumbers
  <1> QED
    BY <1>1, <1>2, <1>3, <1>4

\* The steps of a job outside syncChannels().
LEMMA JobRows ==
  ASSUME RowsInv, SyncTyped', NEW t \in Jobs,
         \/ onStartJob(t) \/ reset(t) \/ onPostExecute(t)
         \/ \E part \in {"channels", "epg", "icons"} : Ends(t, part)
         \/ Rest(t) \/ SyncChannelEPG(t) \/ EPGEnd(t)
  PROVE  RowsInv'
  <1>0. SyncTyped /\ t \in Tasks
    BY DEF RowsInv, Tasks
  <1>1. CASE \/ onStartJob(t) \/ onPostExecute(t)
             \/ \E part \in {"channels", "epg", "icons"} : Ends(t, part)
    <2>1. /\ UNCHANGED <<rows, loaded, existing, todo, crashed, overlap>>
          /\ Goto(t, "queued") \/ Goto(t, "end")
      BY <1>1 DEF onStartJob, onPostExecute, Ends
    <2>2. AtWork' \subseteq AtWork /\ \A u \in AtWork' : pc'[u] = pc[u]
      BY <1>0, <2>1, GotoTyped DEF AtWork, Idle, Labels
    <2> QED
      BY <2>1, <2>2, NobodyNew
  <1>2. CASE reset(t)
    <2> SUFFICES ASSUME ~overlap' PROVE RowsInv'
      BY DEF RowsInv
    <2>1. ~overlap /\ AtWork = {}
      BY <1>2 DEF reset
    <2>2. AtWork' \subseteq {t} /\ pc'[t] = "channels"
      BY <1>0, <1>2, <2>1, GotoTyped DEF reset, AtWork, Labels
    <2>3. OneAtWork' /\ \A u \in AtWork' : Knows(u)'
      BY <2>2 DEF OneAtWork, Knows
    <2> QED
      BY <1>2, <2>1, <2>3 DEF reset, RowsInv, UniqueNumbers
  <1>3. CASE Rest(t) \/ SyncChannelEPG(t) \/ EPGEnd(t)
    <2> SUFFICES ASSUME ~overlap' PROVE RowsInv'
      BY DEF RowsInv
    <2>1. ~overlap /\ OneAtWork /\ t \in AtWork /\ Knows(t)
      BY <1>0, <1>3, Working DEF Rest, SyncChannelEPG, EPGEnd, RowsInv
    <2>2. AtWork' \subseteq {t} /\ OneAtWork'
      BY <1>0, <1>3, <2>1, Alone DEF Rest, SyncChannelEPG, EPGEnd, Labels
    <2>3. pc'[t] \in {"post", "icons"} \/ (pc[t] = "programs" /\ pc'[t] = "programs")
      BY <1>0, <1>3, GotoTyped DEF Rest, SyncChannelEPG, EPGEnd, Labels
    <2>4. existing'[t] \subseteq existing[t] /\ UNCHANGED <<rows, crashed>>
      BY <1>0, <1>3 DEF Rest, SyncChannelEPG, EPGEnd, SyncTyped
    <2>5. Knows(t)'
      BY <2>1, <2>3, <2>4 DEF Knows
    <2> QED
      BY <2>1, <2>2, <2>4, <2>5 DEF RowsInv, UniqueNumbers
  <1> QED
    BY <1>1, <1>2, <1>3

\* A row is inserted for a channel of the list that has none, and for no other.
LEMMA SyncChannelRows ==
  ASSUME SyncTyped, UniqueNumbers, NEW t \in Tasks, Knows(t), SyncChannel(t)
  PROVE  UniqueNumbers' /\ Knows(t)'
  <1>1. PICK n \in todo[t] :
          LET known == {r \in existing[t] : r.number = n} IN
          /\ todo' = [todo EXCEPT ![t] = @ \ {n}]
          /\ existing' = [existing EXCEPT ![t] = @ \ known]
          /\ IF known = {}
             THEN /\ lastId' = lastId + 1
                  /\ rows' = rows \union {[id |-> lastId', number |-> n]}
             ELSE UNCHANGED <<rows, lastId>>
    BY DEF SyncChannel
  <1> DEFINE known == {r \in existing[t] : r.number = n}
             new == [id |-> lastId', number |-> n]
  <1>2. /\ todo'[t] = todo[t] \ {n}
        /\ existing'[t] = existing[t] \ known
        /\ pc[t] = "list" /\ pc'[t] = "list"
        /\ Loaded(t)' = Loaded(t)
    BY <1>1 DEF SyncTyped, SyncChannel, Loaded
  <1>3. /\ existing[t] \subseteq rows
        /\ todo[t] \subseteq Loaded(t)
        /\ {r.number : r \in Done(t)} = Loaded(t) \ todo[t]
    BY <1>2 DEF Knows
  <1>4. CASE known = {}
    <2>1. rows' = rows \union {new} /\ new.number = n
      BY <1>1, <1>4
    <2>2. \A r \in rows : r.number # n
      BY <1>3, <1>4 DEF Done
    <2>3. UniqueNumbers'
      BY <2>1, <2>2 DEF UniqueNumbers
    <2>4. new \notin existing[t]
      BY <1>3, <2>1, <2>2
    <2>5. Done(t)' = Done(t) \union {new}
      BY <1>2, <1>3, <1>4, <2>1, <2>4 DEF Done
    <2>6. {r.number : r \in Done(t)'} = Loaded(t) \ todo'[t]
      <3> HIDE DEF new
      <3>1. {r.number : r \in Done(t)'} = {r.number : r \in Done(t)} \union {n}
        BY <2>1, <2>5
      <3>2. n \in Loaded(t) /\ n \in todo[t]
        BY <1>3
      <3> QED
        BY <1>2, <1>3, <3>1, <3>2
    <2> QED
      BY <1>2, <1>3, <2>1, <2>3, <2>6 DEF Knows
  <1>5. CASE known # {}
    <2>1. UNCHANGED rows
      BY <1>1, <1>5
    <2>2. Done(t)' = Done(t) \union known
      BY <1>2, <1>3, <2>1 DEF Done
    <2>3. {r.number : r \in Done(t)'} = Loaded(t) \ todo'[t]
      BY <1>2, <1>3, <1>5, <2>2
    <2> QED
      BY <1>2, <1>3, <2>1, <2>3 DEF Knows, UniqueNumbers
  <1> QED
    BY <1>4, <1>5

\* The steps of syncChannels(), and the query of syncEPG().
LEMMA TaskRows ==
  ASSUME RowsInv, SyncTyped', NEW t \in Tasks,
         \/ Query(t, "channels", "load") \/ Query(t, "epg", "programs")
         \/ load(t) \/ SyncChannel(t) \/ ListEnd(t)
         \/ RemoveOrphan(t) \/ OrphansEnd(t)
  PROVE  RowsInv'
  <1> SUFFICES ASSUME ~overlap' PROVE RowsInv'
    BY DEF RowsInv
  <1>1. pc[t] \in {"channels", "epg", "load", "list", "orphans"}
    BY DEF Query, load, SyncChannel, ListEnd, RemoveOrphan, OrphansEnd
  <1>2. /\ SyncTyped /\ OneAtWork /\ UniqueNumbers /\ ~crashed /\ ~crashed'
        /\ t \in AtWork /\ Knows(t)
    BY <1>1, Working
    DEF Query, load, SyncChannel, ListEnd, RemoveOrphan, OrphansEnd, RowsInv
  <1>3. UNCHANGED pc \/ \E l \in Labels : Goto(t, l)
    BY DEF Query, load, SyncChannel, ListEnd, RemoveOrphan, OrphansEnd, Labels
  <1>4. AtWork' \subseteq {t} /\ OneAtWork'
    BY <1>2, <1>3, Alone
  <1>5. UniqueNumbers' /\ Knows(t)'
    <2>1. ASSUME NEW part, NEW next \in {"load", "programs"}, Query(t, part, next)
          PROVE  UniqueNumbers' /\ Knows(t)'
      <3>1. existing'[t] = rows /\ UNCHANGED rows
        BY <1>2, <2>1, ExistingAreAll DEF Query, SyncTyped
      <3>2. pc'[t] = next
        BY <1>2, <2>1, GotoTyped DEF Query, Labels
      <3> QED
        BY <1>2, <3>1, <3>2 DEF Knows, UniqueNumbers
    <2>2. CASE load(t)
      <3>1. existing'[t] = rows /\ UNCHANGED rows
        BY <1>2, <2>2 DEF load, Knows
      <3>2. pc'[t] = "list"
        BY <1>2, <2>2, GotoTyped DEF load, Labels
      <3>3. todo'[t] = Loaded(t)'
        BY <1>2, <2>2, SyncAssumption DEF load, Loaded, SyncTyped
      <3>4. Done(t)' = {}
        BY <3>1 DEF Done
      <3> QED
        BY <1>2, <3>1, <3>2, <3>3, <3>4 DEF Knows, UniqueNumbers
    <2>3. CASE SyncChannel(t)
      BY <1>2, <2>3, SyncChannelRows
    <2>4. CASE ListEnd(t)
      <3>1. todo'[t] = {} /\ UNCHANGED <<rows, existing, loaded>>
        BY <1>2, <2>4 DEF ListEnd, SyncTyped
      <3>2. pc'[t] = "epg" \/ (pc'[t] = "orphans" /\ todo[t] = {})
        BY <1>2, <2>4, GotoTyped DEF ListEnd, Labels
      <3>3. Loaded(t)' = Loaded(t) /\ Done(t)' = Done(t)
        BY <3>1 DEF Loaded, Done
      <3> QED
        BY <1>2, <2>4, <3>1, <3>2, <3>3 DEF Knows, UniqueNumbers, ListEnd
    <2>5. CASE RemoveOrphan(t)
      <3>1. PICK r \in existing[t] :
              /\ rows' = rows \ {r}
              /\ existing'[t] = existing[t] \ {r}
        BY <1>2, <2>5 DEF RemoveOrphan, SyncTyped
      <3>2. UNCHANGED <<pc, todo, loaded>>
        BY <2>5 DEF RemoveOrphan
      <3>3. Loaded(t)' = Loaded(t) /\ Done(t)' = Done(t)
        BY <3>1, <3>2 DEF Loaded, Done
      <3> QED
        BY <1>2, <3>1, <3>2, <3>3 DEF Knows, UniqueNumbers
    <2>6. CASE OrphansEnd(t)
      <3>1. pc'[t] \in {"end", "epg"}
        BY <1>2, <2>6, GotoTyped DEF OrphansEnd, Labels
      <3> QED
        BY <1>2, <2>6, <3>1 DEF Knows, UniqueNumbers, OrphansEnd
    <2> QED
      BY <2>1, <2>2, <2>3, <2>4, <2>5, <2>6
  <1> QED
    BY <1>2, <1>4, <1>5 DEF RowsInv

\* Every step keeps the invariant about the rows.  A task alone finds every
\* row it looks for, so an exception needs two of them.
LEMMA RowsKept ==
  ASSUME RowsInv, [Next]_vars
  PROVE  RowsInv'
  <1>0. SyncTyped /\ SyncTyped'
    BY StepTyped DEF RowsInv
  <1>1. ASSUME NEW t \in Jobs, Exception(t) PROVE RowsInv'
    <2>1. t \in AtWork
      BY <1>1, Working DEF Exception, Tasks
    <2>2. overlap
      BY <1>1, <2>1 DEF Exception, RowsInv, Knows
    <2> QED
      BY <1>0, <1>1, <2>2, MainRows DEF Exception
  <1>2. CASE Kill
    BY <1>0, <1>2, MainRows DEF Kill
  <1> QED
    BY <1>0, <1>1, <1>2, MainRows, JobRows, TaskRows DEF Next, Tasks

\* The initial states satisfy the invariant.
LEMMA RowsInit == Init => RowsInv
  <1>1. Init => AtWork = {}
    BY DEF Init, AtWork, Idle
  <1> QED
    BY <1>1, InitTyped DEF Init, RowsInv, OneAtWork, UniqueNumbers

(***************************************************************************)
(* A channel has one row and syncEPG() finds every row it looks for,       *)
(* however often syncs are stopped, killed and repeated, unless two syncs  *)
(* were at work at the same time.                                          *)
(***************************************************************************)
THEOREM RowsAreUnique == Spec => []OneRowPerNumber
  <1>1. RowsInv => OneRowPerNumber
    BY DEF RowsInv, UniqueNumbers, OneRowPerNumber
  <1> QED
    BY <1>1, RowsInit, RowsKept, PTL DEF Spec

(***************************************************************************)
(* A sync that has come to its end leaves exactly the channels of the list *)
(* it has loaded, whatever the syncs before it have left.                  *)
(***************************************************************************)
THEOREM SyncIsComplete == Spec => []SyncedIsServerList
  <1>1. RowsInv => SyncedIsServerList
    <2> SUFFICES ASSUME RowsInv, NEW t \in Tasks,
                        pc[t] = "orphans", existing[t] = {}, ~overlap
                 PROVE  {r.number : r \in rows} = Loaded(t)
      BY DEF SyncedIsServerList, Loaded
    <2>1. Knows(t)
      BY Working DEF RowsInv
    <2>2. Done(t) = rows /\ todo[t] = {}
      BY <2>1 DEF Done, Knows
    <2> QED
      BY <2>1, <2>2 DEF Knows
  <1> QED
    BY <1>1, RowsInit, RowsKept, PTL DEF Spec

===============================================================================

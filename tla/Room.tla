-------------------------------- MODULE Room --------------------------------
(***************************************************************************)
(* The room actor (internal/room/room.go, Run): one goroutine owns the     *)
(* pending queue, the current track, the end timer and the radio binding,  *)
(* and executes one command at a time.  Around it run the callbacks of the *)
(* end timer, the preflight of the current track, the construction of a    *)
(* radio source and the fetch of a radio batch; their answers reach the    *)
(* actor at any later time, whatever it did in between.                    *)
(*                                                                         *)
(* A handler runs to completion, so it is one action.  Wall-clock time is  *)
(* left out (an armed timer may expire at any moment); PlaybackClock has   *)
(* it.  Queue revisions and patches are the subject of QueueSync.          *)
(***************************************************************************)
EXTENDS Integers, SequencesExt, FiniteSetsExt

CONSTANTS
  Entries,       \* queue entry ids; each is created once (NewEntryID)
  Users,         \* identities that request tracks
  Radio,         \* requested_by of the entries a radio adds
  Owner,         \* Owner[e]: requested_by of the entry
  RefOf,         \* RefOf[e]: track_ref of the entry
  Poison,        \* entries whose duration_ms is not positive
  KeysOf,        \* KeysOf[u]: the kind and the roles of a user
  Policies,      \* room policies an administrator may set
  DefaultMaxQueue, \* effective max_queue when the policy says 0 (50)
  BatchSize,     \* tracks asked of a radio at a time (10)
  LowWater,      \* queue length under which a radio refills (3)
  DropCap,       \* unplayable entries one advance may drop (100)
  MaxAdd,        \* bound: entries in one add command
  MaxPlays,      \* bound: radio.play commands in one process lifetime
  StoreFails,    \* whether a write to the store may fail
  LoadFails,     \* whether reading the stored queue at start may fail
  None           \* no entry

VARIABLES
  up,            \* the actor runs
  loaded,        \* the last start could read the stored queue
  policy,        \* policy in force (and in rooms.policy_json)
  queue,         \* pending entries, without the current one
  current,       \* entry being played, or None
  playing,       \* FALSE when paused or idle
  timerFor,      \* entry whose end timer is armed, or None
  liveEnd,       \* entry of the expired timer that carries the latest timerSeq
  staleEnds,     \* entries of expired timers that carry an older timerSeq
  preflights,    \* entries whose preflight has not come back
  radio,         \* id of the bound radio, 0 when there is none
  desired,       \* desiredSourceID
  sourceSeq,     \* number of radio.play commands so far
  building,      \* request whose source is being built, 0 when none
  queuedSource,  \* request that waits for that construction, 0 when none
  reply,         \* reply[i]: answers given to the caller of radio.play i
  fetching,      \* radio whose batch is being fetched, 0 when none
  fetchLimit,    \* size of that batch
  pendingStart,  \* an advance waits for the batch (refillPendingStart)
  pendingReason, \* why it advances (refillPendingReason)
  db,            \* room_queue: the rows and the cursor
  history,       \* play_history: end reasons recorded per entry
  added          \* entries created so far

playVars  == <<queue, current, playing, timerFor, liveEnd, staleEnds, preflights>>
radioVars == <<radio, desired, sourceSeq, building, queuedSource, reply>>
batchVars == <<fetching, fetchLimit, pendingStart, pendingReason>>
storeVars == <<policy, db, history, added>>
vars == <<up, loaded, playVars, radioVars, batchVars, storeVars>>

Reasons == {"finished", "skipped", "unplayable", "", "resume-after-restart"}
Answers == {"ok", "error", "canceled"}
RadioIds == 1..MaxPlays

ASSUME ConstantsAssumption ==
  /\ None \notin Entries
  /\ Radio \notin Users
  /\ Poison \subseteq Entries
  /\ DefaultMaxQueue \in Nat \ {0} /\ BatchSize \in Nat \ {0}
  /\ LowWater \in Nat /\ DropCap \in Nat \ {0}
  /\ MaxAdd \in Nat /\ MaxPlays \in Nat
  /\ Owner \in [Entries -> Users \cup {Radio}]
  /\ \A p \in Policies : p.maxQueue \in Nat

-----------------------------------------------------------------------------
(* Policy: ParsePolicy and Policy.queueLimit *)

\* Effective bound on the pending queue.
MaxQueue == IF policy.maxQueue = 0 THEN DefaultMaxQueue ELSE policy.maxQueue

\* Pending entries user u may have, 0 for no limit: an explicit 0 under any key
\* of the user wins, otherwise the largest limit does.
queueLimit(u) ==
  LET limits == {policy.limits[k] : k \in KeysOf[u] \cap DOMAIN policy.limits}
  IN IF limits = {} \/ 0 \in limits THEN 0 ELSE Max(limits)

PendingOf(u, q) == Cardinality({i \in DOMAIN q : Owner[q[i]] = u})

-----------------------------------------------------------------------------
(* What a handler composes. A handler changes some variables and then calls *)
(* another one, which must see the changes: they travel in a record s.      *)

Here == [queue |-> queue, db |-> db, live |-> liveEnd, checks |-> preflights,
         radio |-> radio, fetching |-> fetching]

\* persistQueue: the current entry is the first row and carries the cursor.
Persisted(cur, q) ==
  [cursor |-> cur, rows |-> (IF cur = None THEN q ELSE <<cur>> \o q)]

\* Mutant: the memory changes and the rows are not written.
CommitUnstored(s, q) == [s EXCEPT !.queue = q]

\* commitQueue: rows and memory change together, or not at all.
Commit(s, q) == [s EXCEPT !.queue = q, !.db = Persisted(current, q)]

\* Mutant: timerSeq is not increased.
ArmTimerSameSeq(s, e) ==
  /\ timerFor' = e
  /\ liveEnd' = s.live
  /\ UNCHANGED staleEnds

\* scheduleEnd with a playing track: the new timerSeq outdates what has expired.
ArmTimer(s, e) ==
  /\ timerFor' = e
  /\ liveEnd' = None
  /\ staleEnds' = staleEnds \cup ({s.live} \ {None})

\* timer.Stop: a callback that has expired already is neither stopped nor outdated.
StopTimer(s) ==
  /\ timerFor' = None
  /\ liveEnd' = s.live
  /\ UNCHANGED staleEnds

Idle(s) ==
  /\ fetching' = s.fetching
  /\ fetchLimit' = IF s.fetching = 0 THEN 0 ELSE fetchLimit

\* refill: at most one fetch at a time, and none while the queue is full.
Refill(s) ==
  LET batch == Min({BatchSize, MaxQueue - Len(s.queue)})
  IN IF s.radio # 0 /\ s.fetching = 0 /\ Len(s.queue) < MaxQueue
     THEN fetching' = s.radio /\ fetchLimit' = batch
     ELSE Idle(s)

\* refill(true, reason): the first reason that waits is the one recorded.
RefillForStart(s, reason) ==
  /\ pendingStart' = TRUE
  /\ pendingReason' = IF pendingStart THEN pendingReason ELSE reason
  /\ Refill(s)

\* The handler ends without advancing.
Settle(s) ==
  /\ queue' = s.queue /\ db' = s.db /\ radio' = s.radio
  /\ liveEnd' = s.live /\ preflights' = s.checks
  /\ UNCHANGED <<current, playing, timerFor, staleEnds, history>>

\* finishCurrent: the row is written after the queue is stored, and an error is ignored.
FinishCurrent(reason) ==
  \/ /\ current # None
     /\ history' = [history EXCEPT ![current] = Append(@, reason)]
  \/ /\ current = None \/ StoreFails
     /\ UNCHANGED history

Playable(q) == {i \in DOMAIN q : i <= DropCap /\ q[i] \notin Poison}

\* Entries an advance takes off the queue: the unplayable ones in front and the
\* first playable one.
Taken(q) == IF Playable(q) # {} THEN Min(Playable(q)) ELSE Min({DropCap, Len(q)})

\* The entry that an advance makes current.
NextOf(q) == IF Playable(q) # {} THEN q[Taken(q)] ELSE None

\* Mutant: off by one, the next track stays in the queue.
RestOffByOne(q) == SubSeq(q, Max({1, Taken(q)}), Len(q))

Rest(q) == SubSeq(q, Taken(q) + 1, Len(q))

\* advanceReady, when the store takes the new queue.
Advanced(s, reason) ==
  LET next == NextOf(s.queue)
      after == [s EXCEPT !.queue = Rest(s.queue)]
  IN /\ queue' = Rest(s.queue)
     /\ db' = Persisted(next, Rest(s.queue))
     /\ radio' = s.radio
     /\ FinishCurrent(reason)
     /\ current' = next
     /\ playing' = (next # None)
     /\ \/ /\ next = None
           /\ StopTimer(s) /\ Idle(s) /\ preflights' = s.checks
        \/ /\ next # None
           /\ ArmTimer(s, next)
           /\ preflights' = s.checks \cup {next}
           /\ IF Len(Rest(s.queue)) < LowWater THEN Refill(after) ELSE Idle(s)

\* Mutant: the history row is written before the queue is stored.
AdvanceReadyHistoryFirst(s, reason) ==
  \/ Advanced(s, reason)
  \/ /\ StoreFails
     /\ FinishCurrent(reason)
     /\ queue' = s.queue /\ db' = s.db /\ radio' = s.radio
     /\ liveEnd' = s.live /\ preflights' = s.checks
     /\ UNCHANGED <<current, playing, timerFor, staleEnds>>
     /\ Idle(s)

\* advanceReady: a failed write leaves the room as it was.
AdvanceReady(s, reason) ==
  \/ Advanced(s, reason)
  \/ StoreFails /\ Settle(s) /\ Idle(s)

Advance(s, reason) ==
  \/ /\ pendingStart
     /\ Settle(s) /\ Idle(s) /\ UNCHANGED <<pendingStart, pendingReason>>
  \/ /\ ~pendingStart /\ s.queue = <<>> /\ s.radio # 0
     /\ Settle(s) /\ RefillForStart(s, reason)
  \/ /\ ~pendingStart /\ (s.queue # <<>> \/ s.radio = 0)
     /\ AdvanceReady(s, reason) /\ UNCHANGED <<pendingStart, pendingReason>>

\* completePendingStart: the result of the fetch, or a stop, lets the advance go on.
CompletePendingStart(s) ==
  \/ /\ pendingStart
     /\ pendingStart' = FALSE /\ pendingReason' = ""
     /\ AdvanceReady(s, pendingReason)
  \/ /\ ~pendingStart
     /\ Settle(s) /\ Idle(s) /\ UNCHANGED <<pendingStart, pendingReason>>

-----------------------------------------------------------------------------
(* Commands on the queue. A refused command changes nothing and is left out. *)

\* Sequences of n entries that do not exist yet and that u would own.
Fresh(u, n) ==
  {es \in [1..n -> {e \in Entries \ added : Owner[e] = u}] :
     \A i, j \in 1..n : es[i] = es[j] => i = j}

Command == up /\ UNCHANGED <<up, loaded>>

\* Mutant: the bound is checked for one entry of the batch.
AdmittedOne(u, es) == Len(queue) < MaxQueue

\* The bounds are checked for the whole batch.
Admitted(u, es) ==
  /\ Len(queue) + Len(es) <= MaxQueue
  /\ queueLimit(u) = 0 \/ PendingOf(u, queue) + Len(es) <= queueLimit(u)

\* actAdd (AddFor, AddBatchFor): a failed start keeps the entries.
Add(u, es) ==
  LET s == Commit(Here, queue \o es)
  IN /\ Command
     /\ Admitted(u, es)
     /\ added' = added \cup ToSet(es)
     /\ \/ current = None /\ Advance(s, "")
        \/ /\ current # None
           /\ Settle(s) /\ Idle(s) /\ UNCHANGED <<pendingStart, pendingReason>>
     /\ UNCHANGED <<policy, desired, sourceSeq, building, queuedSource, reply>>

\* The queue edits that leave playback alone.
Edit(q) ==
  /\ Command
  /\ Settle(Commit(Here, q))
  /\ UNCHANGED <<policy, added, desired, sourceSeq, building, queuedSource, reply, batchVars>>

\* actRemove: by the owner of the entry, or by a controller (any).
RemoveEntry(u, any, i) ==
  /\ i \in DOMAIN queue
  /\ any \/ Owner[queue[i]] = u
  /\ Edit(RemoveAt(queue, i))

\* actMove: the entry at i ends at position j of the new queue.
MoveEntry(i, j) ==
  /\ i \in DOMAIN queue /\ j \in DOMAIN queue
  /\ Edit(InsertAt(RemoveAt(queue, i), j, queue[i]))

\* actClear
Clear == Edit(<<>>)

\* actSetPolicy: stored, then applied.
SetPolicy(p) ==
  /\ Command
  /\ policy' = p
  /\ UNCHANGED <<playVars, radioVars, batchVars, db, history, added>>

-----------------------------------------------------------------------------
(* Commands on playback *)

Control ==
  /\ Command
  /\ UNCHANGED <<queue, current, preflights, radioVars, batchVars, storeVars>>

\* actPause
Pause ==
  /\ current # None /\ playing
  /\ playing' = FALSE
  /\ StopTimer(Here)
  /\ Control

\* Mutant: resuming does not arm the end timer.
ResumeUnarmed ==
  /\ current # None /\ ~playing
  /\ playing' = TRUE
  /\ StopTimer(Here)
  /\ Control

\* actResume
Resume ==
  /\ current # None /\ ~playing
  /\ playing' = TRUE
  /\ IF current \in Poison THEN StopTimer(Here) ELSE ArmTimer(Here, current)
  /\ Control

\* actSeek: scheduleEnd again, which arms a timer only for a playing track.
Seek ==
  /\ current # None
  /\ IF playing /\ current \notin Poison THEN ArmTimer(Here, current) ELSE StopTimer(Here)
  /\ UNCHANGED playing
  /\ Control

Advances ==
  /\ Command
  /\ UNCHANGED <<policy, added, desired, sourceSeq, building, queuedSource, reply>>

\* actSkip
Skip == Advances /\ Advance(Here, "skipped")

\* time.AfterFunc: the timer expires and its callback is on its way to inbound.
TimerFire ==
  /\ up /\ timerFor # None
  /\ timerFor' = None /\ liveEnd' = timerFor
  /\ UNCHANGED <<up, loaded, queue, current, playing, staleEnds, preflights,
                 radioVars, batchVars, storeVars>>

\* actTimerEnd with timerID = timerSeq
TimerEnd ==
  /\ liveEnd # None
  /\ Advances
  /\ Advance([Here EXCEPT !.live = None], "finished")

\* actTimerEnd of an outdated timer: ignored.
StaleTimerEnd(e) ==
  /\ Command
  /\ e \in staleEnds
  /\ staleEnds' = staleEnds \ {e}
  /\ UNCHANGED <<queue, current, playing, timerFor, liveEnd, preflights,
                 radioVars, batchVars, storeVars>>

\* preflightCurrent finds the track playable and reports nothing, or its report
\* names a track that is no longer current and is ignored.
PreflightDone(e) ==
  /\ Command
  /\ e \in preflights
  /\ preflights' = preflights \ {e}
  /\ UNCHANGED <<queue, current, playing, timerFor, liveEnd, staleEnds,
                 radioVars, batchVars, storeVars>>

\* actUnplayable: the report names the reference of the current track.
Unplayable(e) ==
  /\ e \in preflights
  /\ current # None /\ RefOf[current] = RefOf[e]
  /\ Advances
  /\ Advance([Here EXCEPT !.checks = preflights \ {e}], "unplayable")

-----------------------------------------------------------------------------
(* The radio: at most one source is being built and at most one batch is     *)
(* being fetched; the last radio.play or radio.stop decides.                 *)

Answer(i, a) == [reply EXCEPT ![i] = Append(@, a)]

\* Mutant: the superseded caller is forgotten.
CancelQueuedSilently == reply

\* The caller of the waiting request, if any, learns that it is superseded.
CancelQueued == IF queuedSource = 0 THEN reply ELSE Answer(queuedSource, "canceled")

\* actRadioPlay
RadioPlay ==
  /\ Command
  /\ sourceSeq < MaxPlays
  /\ sourceSeq' = sourceSeq + 1 /\ desired' = sourceSeq + 1
  /\ \/ /\ building # 0
        /\ reply' = CancelQueued /\ queuedSource' = sourceSeq + 1
        /\ UNCHANGED building
     \/ /\ building = 0
        /\ building' = sourceSeq + 1
        /\ UNCHANGED <<reply, queuedSource>>
  /\ UNCHANGED <<playVars, radio, batchVars, storeVars>>

\* actRadioStop
RadioStop ==
  /\ Command
  /\ desired' = 0
  /\ reply' = CancelQueued /\ queuedSource' = 0
  /\ CompletePendingStart([Here EXCEPT !.radio = 0])
  /\ UNCHANGED <<policy, added, sourceSeq, building>>

\* sourceResults: the construction ends, and the waiting request begins its own.
SourceDone(a) ==
  /\ Command
  /\ building # 0
  /\ reply' = Answer(building, a)
  /\ building' = queuedSource /\ queuedSource' = 0
  /\ UNCHANGED <<queue, current, playing, timerFor, liveEnd, staleEnds, preflights,
                 sourceSeq, storeVars>>

\* The request was superseded or stopped while its source was built.
SourceCanceled ==
  /\ desired # building
  /\ SourceDone("canceled")
  /\ UNCHANGED <<radio, desired, batchVars>>

\* Mutant: the failed request stays the desired one.
SourceFailedKeepsDesired ==
  /\ desired = building
  /\ SourceDone("error")
  /\ UNCHANGED <<desired, radio, batchVars>>

\* NewSourceFromSpec failed: the radio that was bound stays.
SourceFailed ==
  /\ desired = building
  /\ SourceDone("error")
  /\ desired' = radio
  /\ UNCHANGED <<radio, batchVars>>

\* The source is bound. An idle room starts with its first batch.
SourceReady ==
  LET s == [Here EXCEPT !.radio = building]
  IN /\ desired = building
     /\ SourceDone("ok")
     /\ radio' = building
     /\ \/ current = None /\ RefillForStart(s, "")
        \/ /\ current # None
           /\ UNCHANGED <<pendingStart, pendingReason>>
           /\ IF Len(queue) < LowWater THEN Refill(s) ELSE Idle(s)
     /\ UNCHANGED desired

\* refillResults
BatchDone ==
  /\ Command
  /\ fetching # 0
  /\ UNCHANGED <<policy, desired, sourceSeq, building, queuedSource, reply>>

\* The batch was fetched for the radio that is bound now.
FromBoundRadio == radio = fetching

Received == [Here EXCEPT !.fetching = 0]

\* Mutant: no batch is fetched for the radio that is bound now.
BatchStaleDropped ==
  /\ radio # fetching
  /\ BatchDone
  /\ UNCHANGED <<added, pendingStart, pendingReason>>
  /\ Settle(Received) /\ Idle(Received)

\* The batch belongs to a radio that is no longer bound: it is dropped, and
\* another one is fetched for the radio that is.
BatchStale ==
  /\ ~FromBoundRadio
  /\ BatchDone
  /\ UNCHANGED added
  /\ Settle(Received)
  /\ \/ /\ radio = 0
        /\ pendingStart' = FALSE /\ pendingReason' = ""
        /\ Idle(Received)
     \/ /\ radio # 0
        /\ UNCHANGED <<pendingStart, pendingReason>>
        /\ IF pendingStart \/ Len(queue) < LowWater THEN Refill(Received) ELSE Idle(Received)

\* NextBatch failed, or its entries could not be stored: the radio stops.
BatchFailed ==
  /\ FromBoundRadio
  /\ BatchDone
  /\ UNCHANGED added
  /\ CompletePendingStart([Received EXCEPT !.radio = 0])

\* Entries made of n tracks: cut to the size asked for and to the room left now.
Accepted(n) == Min({n, fetchLimit, Max({0, MaxQueue - Len(queue)})})

\* NextBatch returned n tracks, es are the entries made of them.  A batch longer
\* than asked for is not the last one.
BatchAdded(n, exhausted, es) ==
  LET s == IF es = <<>> THEN Received ELSE Commit(Received, queue \o es)
      last == exhausted /\ n <= fetchLimit
  IN /\ FromBoundRadio
     /\ BatchDone
     /\ added' = added \cup ToSet(es)
     /\ CompletePendingStart(IF last THEN [s EXCEPT !.radio = 0] ELSE s)

-----------------------------------------------------------------------------
(* Process lifetime *)

Memory ==
  /\ queue' = <<>> /\ current' = None /\ playing' = FALSE
  /\ timerFor' = None /\ liveEnd' = None /\ staleEnds' = {} /\ preflights' = {}
  /\ radio' = 0 /\ desired' = 0 /\ sourceSeq' = 0 /\ building' = 0 /\ queuedSource' = 0
  /\ reply' = [i \in RadioIds |-> <<>>]
  /\ fetching' = 0 /\ fetchLimit' = 0 /\ pendingStart' = FALSE /\ pendingReason' = ""

\* The process stops between two handlers, or inside advanceReady after the
\* queue is stored and before the history row is written.
Crash ==
  /\ up /\ up' = FALSE
  /\ Memory
  /\ \/ UNCHANGED db
     \/ /\ pendingStart \/ queue # <<>> \/ radio = 0
        /\ db' = Persisted(NextOf(queue), Rest(queue))
  /\ UNCHANGED <<loaded, policy, history, added>>

\* loadQueue: the row under the cursor is the current track, what follows it is
\* pending; without a cursor everything is.
LoadedCurrent == db.cursor
LoadedQueue == IF db.cursor = None THEN db.rows ELSE Tail(db.rows)

\* Run, before its loop: the current track plays again from its beginning, and
\* a room that has only pending entries starts the first of them.
Restart ==
  LET resumed == LoadedCurrent
      s == [Here EXCEPT !.queue = LoadedQueue]
  IN /\ ~up /\ up' = TRUE /\ loaded' = TRUE
     /\ \/ /\ resumed # None /\ resumed \notin Poison
           /\ queue' = LoadedQueue /\ current' = resumed /\ playing' = TRUE
           /\ ArmTimer(Here, resumed)
           /\ preflights' = {resumed}
           /\ UNCHANGED <<db, history, radio, batchVars>>
        \/ /\ resumed \in Poison \/ (resumed = None /\ LoadedQueue # <<>>)
           /\ Advance(s, "resume-after-restart")
        \/ /\ resumed = None /\ LoadedQueue = <<>>
           /\ Settle(s) /\ UNCHANGED batchVars
     /\ UNCHANGED <<desired, sourceSeq, building, queuedSource, reply, policy, added>>

\* loadQueue treats an unreadable queue as an empty one.
RestartUnread ==
  /\ LoadFails
  /\ ~up /\ up' = TRUE /\ loaded' = FALSE
  /\ UNCHANGED <<playVars, radioVars, batchVars, storeVars>>

Init ==
  /\ up = TRUE /\ loaded = TRUE
  /\ policy \in Policies
  /\ queue = <<>> /\ current = None /\ playing = FALSE
  /\ timerFor = None /\ liveEnd = None /\ staleEnds = {} /\ preflights = {}
  /\ radio = 0 /\ desired = 0 /\ sourceSeq = 0 /\ building = 0 /\ queuedSource = 0
  /\ reply = [i \in RadioIds |-> <<>>]
  /\ fetching = 0 /\ fetchLimit = 0 /\ pendingStart = FALSE /\ pendingReason = ""
  /\ db = Persisted(None, <<>>)
  /\ history = [e \in Entries |-> <<>>]
  /\ added = {}

QueueCommand ==
  \/ \E u \in Users, n \in 1..MaxAdd : \E es \in Fresh(u, n) : Add(u, es)
  \/ \E u \in Users, any \in BOOLEAN, i \in DOMAIN queue : RemoveEntry(u, any, i)
  \/ \E i, j \in DOMAIN queue : MoveEntry(i, j)
  \/ Clear
  \/ \E p \in Policies : SetPolicy(p)

PlaybackStep ==
  \/ Pause \/ Resume \/ Seek \/ Skip
  \/ TimerFire \/ TimerEnd
  \/ \E e \in Entries : StaleTimerEnd(e) \/ PreflightDone(e) \/ Unplayable(e)

SourceStep == SourceCanceled \/ SourceFailed \/ SourceReady

BatchStep ==
  \/ BatchStale \/ BatchFailed
  \/ \E n \in 0..(BatchSize + 1), exhausted \in BOOLEAN :
       \E es \in Fresh(Radio, Accepted(n)) : BatchAdded(n, exhausted, es)

RadioStep == RadioPlay \/ RadioStop \/ SourceStep \/ BatchStep

Lifetime == Crash \/ Restart \/ RestartUnread

Next == QueueCommand \/ PlaybackStep \/ RadioStep \/ Lifetime

Spec == Init /\ [][Next]_vars

\* Workers answer within their timeouts (20 s to build a source, 15 s to fetch a
\* batch) and the actor receives the answer.  Nobody has to send a command.
FairSpec == Spec /\ WF_vars(SourceStep) /\ WF_vars(BatchStep)

-----------------------------------------------------------------------------
(* Properties *)

TypeOK ==
  /\ up \in BOOLEAN /\ loaded \in BOOLEAN
  /\ policy \in Policies
  /\ queue \in Seq(Entries)
  /\ current \in Entries \cup {None}
  /\ playing \in BOOLEAN
  /\ timerFor \in Entries \cup {None} /\ liveEnd \in Entries \cup {None}
  /\ staleEnds \subseteq Entries /\ preflights \subseteq Entries
  /\ radio \in 0..MaxPlays /\ desired \in 0..MaxPlays /\ sourceSeq \in 0..MaxPlays
  /\ building \in 0..MaxPlays /\ queuedSource \in 0..MaxPlays
  /\ reply \in [RadioIds -> Seq(Answers)]
  /\ fetching \in 0..MaxPlays /\ fetchLimit \in 0..BatchSize
  /\ pendingStart \in BOOLEAN /\ pendingReason \in Reasons
  /\ db \in [cursor : Entries \cup {None}, rows : Seq(Entries)]
  /\ history \in [Entries -> Seq(Reasons)]
  /\ added \subseteq Entries

\* What a restart would bring back is what the room plays and shows: every
\* handler that changes the current track or the queue stores both, and a failed
\* write changes neither (persistQueue, commitQueueWithCurrent, advanceReady).
DurableQueue == up /\ loaded => db = Persisted(current, queue)

\* No entry is in the room twice, pending or current, in memory or in the rows,
\* after any sequence of adds, moves, advances, batches and restarts.
EntriesUnique ==
  /\ \A i, j \in DOMAIN queue : queue[i] = queue[j] => i = j
  /\ current \notin ToSet(queue)
  /\ \A i, j \in DOMAIN db.rows : db.rows[i] = db.rows[j] => i = j

\* A played entry has at most one play_history row, over failed writes, crashes
\* and the replay after a restart (advanceReady stores the queue first).
HistoryOnce == \A e \in Entries : Len(history[e]) <= 1

\* The reasons that only steer an advance ("" and "resume-after-restart") never
\* reach play_history, although a waiting advance keeps its reason for long.
EndReasons ==
  \A e \in Entries : ToSet(history[e]) \subseteq {"finished", "skipped", "unplayable"}

\* An expired timer that the actor still accepts belongs to the current track:
\* the end of one track never cuts short another one (timerSeq).
EndOfCurrent ==
  /\ liveEnd # None => current \in {liveEnd, None}
  /\ timerFor # None => timerFor = current /\ playing /\ liveEnd = None

\* An advance waits for a batch only while a radio is bound: every way to unbind
\* it completes the advance.
PendingStartBound == pendingStart => radio # 0

\* Every radio.play command is being built, waits, or has been answered, and was
\* answered once (a second answer would block the actor on the reply channel).
AnsweredOnce ==
  \A i \in RadioIds :
    Len(reply[i]) = IF i <= sourceSeq /\ i \notin {building, queuedSource} THEN 1 ELSE 0

\* The last radio.play or radio.stop decides: once nothing is being built, the
\* room is bound to the request it wants or to none, and the waiting request is
\* the wanted one.
LastCommandWins ==
  /\ building = 0 => radio \in {0, desired}
  /\ queuedSource # 0 => queuedSource = desired /\ building # 0 /\ building # desired

\* The end of the current track is coming: an armed timer, an expired one, or an
\* advance that waits for a batch.
EndComing == timerFor = current \/ liveEnd = current \/ pendingStart

\* A playing track has its end coming, while the store takes every write.
StallFree == playing => EndComing

\* Writes that fail cost a playing track its end in one way only: the advance that
\* its expired timer, or a batch, brought about is refused by the store.  No command,
\* late timer, radio or restart does, and no track starts without its end.
EndKept ==
  [][playing' /\ ~EndComing' =>
       /\ playing /\ current' = current
       /\ EndComing =>
            /\ StoreFails
            /\ \/ liveEnd = current /\ liveEnd' = None
               \/ pendingStart /\ ~pendingStart']_vars

\* The queue only grows up to the bound in force, whatever was pending or
\* fetched when the growth was decided (actAdd, refillResults).
QueueBounded ==
  [][up /\ Len(queue') > Len(queue) => Len(queue') <= MaxQueue]_vars

\* Every radio.play is answered, however often it is superseded.
PlayAnswered ==
  \A i \in RadioIds : (up /\ i <= sourceSeq) ~> (~up \/ reply[i] # <<>>)

\* An advance that waits for a radio is completed or given up.
PendingStartEnds == pendingStart ~> ~pendingStart

\* Whoever waits for a radio is served: the caller of radio.play and the advance.
RadioSettles == PlayAnswered /\ PendingStartEnds

\* What the comment on refill says of a waiting advance: the result handler
\* completes it, so a result has to be on its way.
PendingHasFetch == pendingStart => fetching # 0
=============================================================================

------------------------------ MODULE QueueSync ------------------------------
(***************************************************************************)
(* The revisioned queue protocol between a room and one client library:     *)
(* internal/room/queue_protocol.go cuts snapshots and patches into parts,   *)
(* the room actor sends them (room.go), the connection's read loop serves   *)
(* room.join, room.leave and queue.sync (internal/wsapi/wsapi.go), and the  *)
(* client assembles, applies and, when it cannot, asks for a new baseline   *)
(* (internal/client/queue_protocol.go).                                     *)
(*                                                                          *)
(* The WebSocket delivers in order.  Join and Leave reach a room's actor    *)
(* through its inbound channel, some time after the read loop has answered. *)
(***************************************************************************)
EXTENDS Integers, SequencesExt, FiniteSetsExt

CONSTANTS
  Items,       \* queue entries
  Rooms,       \* rooms of the server
  NoRoom,      \* no room
  MaxRevision, \* bound: queue changes per room
  MaxCalls,    \* bound: joins and leaves of the client
  MaxSyncs     \* bound: queue.sync calls of the client

VARIABLES
  versions,    \* versions[r]: queue of room r at revisions 0, 1, ...
  members,     \* rooms whose actor has the client among its clients
  inbound,     \* inbound[r]: what waits for the actor of room r
  connRoom,    \* room of the connection, as the read loop sees it
  awaiting,    \* the queue.sync the read loop is blocked in, or NoSync
  toServer,    \* requests on their way
  toClient,    \* messages on their way
  appCall,     \* the application's call: what it asks and what was answered
  calls,       \* joins and leaves so far
  queueRoomID, \* client: room whose queue is followed
  replica,     \* client: the queue on display
  snapshot,    \* client: parts of a snapshot received so far, or Nothing
  patch,       \* client: parts of a patch received so far, or Nothing
  resyncing,   \* client: queueResyncing
  syncs,       \* client: state of each queue.sync call
  base         \* room of the last snapshot displayed (observation)

serverVars == <<versions, members, inbound, connRoom, awaiting>>
callVars == <<appCall, calls, queueRoomID>>
replicaVars == <<replica, snapshot, patch, base>>
vars == <<serverVars, toServer, toClient, callVars, replicaVars, resyncing, syncs>>

ASSUME SyncAssumption ==
  /\ NoRoom \notin Rooms
  /\ MaxRevision \in Nat /\ MaxCalls \in Nat /\ MaxSyncs \in Nat

Nothing == [next |-> -1]
NoCall == [kind |-> "none", state |-> "none"]
NoSync == [ref |-> 0, result |-> "none"]
Empty == [ready |-> FALSE, revision |-> 0, items |-> <<>>, resyncRequired |-> FALSE]

Queue(r) == Last(versions[r])
Revision(r) == Len(versions[r]) - 1

-----------------------------------------------------------------------------
(* Messages *)

\* The ways to cut s into parts: the envelope budget decides, which depends on
\* sizes that are not modelled.  Nothing to send still makes one part.
Cuts(s) ==
  LET Piece(ends, k) ==
        SubSeq(s, IF k = 1 THEN 1 ELSE ends[k - 1] + 1, ends[k])
      EndsOf(C) == SetToSortSeq(C \cup {Len(s)}, <)
  IN IF s = <<>> THEN {<< <<>> >>}
     ELSE {[k \in 1..(Cardinality(C) + 1) |-> Piece(EndsOf(C), k)] :
             C \in SUBSET (1..(Len(s) - 1))}

\* Mutant: every part says that it is the last one.
SnapshotMessagesDone(r, cut) ==
  [k \in DOMAIN cut |->
     [type |-> "snapshot", revision |-> Revision(r), part |-> k - 1,
      items |-> cut[k], done |-> TRUE, room |-> r]]

\* QueueSnapshotMessages
SnapshotMessages(r, cut) ==
  [k \in DOMAIN cut |->
     [type |-> "snapshot", revision |-> Revision(r), part |-> k - 1,
      items |-> cut[k], done |-> (k = Len(cut)), room |-> r]]

\* Mutant: the last part is looked for one too far.
PatchMessagesOpen(r, cut) ==
  [k \in DOMAIN cut |->
     [type |-> "patch", base |-> Revision(r), revision |-> Revision(r) + 1,
      part |-> k - 1, ops |-> cut[k], done |-> (k - 1 = Len(cut)), room |-> r]]

\* QueuePatchMessages
PatchMessages(r, cut) ==
  [k \in DOMAIN cut |->
     [type |-> "patch", base |-> Revision(r), revision |-> Revision(r) + 1,
      part |-> k - 1, ops |-> cut[k], done |-> (k = Len(cut)), room |-> r]]

Ack(call, ok, ref) == [type |-> "ack", call |-> call, ok |-> ok, ref |-> ref]

-----------------------------------------------------------------------------
(* The room actor *)

\* commitQueueWithCurrent: the change and the operations that describe it.
Change(r, q, ops) ==
  /\ Revision(r) < MaxRevision
  /\ versions' = [versions EXCEPT ![r] = Append(@, q)]
  /\ \E cut \in Cuts(ops) :
       toClient' = IF r \in members THEN toClient \o PatchMessages(r, cut) ELSE toClient
  /\ UNCHANGED <<members, inbound, connRoom, awaiting, toServer, callVars, replicaVars, resyncing, syncs>>

AddOps(r, es) ==
  [i \in DOMAIN es |-> [op |-> "add", index |-> Len(Queue(r)) + i - 1, item |-> es[i]]]

Known == UNION {UNION {ToSet(versions[r][i]) : i \in DOMAIN versions[r]} : r \in Rooms}

\* actAdd and the batches of a radio. An entry is added to one room, once.
AddEntries(r) ==
  \E n \in 1..2 : \E es \in [1..n -> Items \ Known] :
    /\ \A i, j \in 1..n : es[i] = es[j] => i = j
    /\ Change(r, Queue(r) \o es, AddOps(r, es))

\* actRemove, and advanceReady, which takes off a prefix of the queue.
RemoveEntries(r) ==
  \/ \E i \in DOMAIN Queue(r) :
       Change(r, RemoveAt(Queue(r), i), <<[op |-> "remove", item |-> Queue(r)[i]]>>)
  \/ \E k \in 1..Len(Queue(r)) :
       Change(r, SubSeq(Queue(r), k + 1, Len(Queue(r))),
              [i \in 1..k |-> [op |-> "remove", item |-> Queue(r)[i]]])

\* actMove
MoveEntry(r) ==
  \E i, j \in DOMAIN Queue(r) :
    Change(r, InsertAt(RemoveAt(Queue(r), i), j, Queue(r)[i]),
           <<[op |-> "move", item |-> Queue(r)[i], to |-> j - 1]>>)

\* actClear
ClearQueue(r) == Change(r, <<>>, <<[op |-> "clear"]>>)

\* actJoin, actLeave and actQueueSync, in the order they were sent.
Serve(r) ==
  /\ inbound[r] # <<>>
  /\ inbound' = [inbound EXCEPT ![r] = Tail(@)]
  /\ \/ /\ Head(inbound[r]) = "join"
        /\ members' = members \cup {r}
        /\ \E cut \in Cuts(Queue(r)) : toClient' = toClient \o SnapshotMessages(r, cut)
        /\ UNCHANGED awaiting
     \/ /\ Head(inbound[r]) = "leave"
        /\ members' = members \ {r}
        /\ UNCHANGED <<toClient, awaiting>>
     \/ /\ Head(inbound[r]) = "sync"
        /\ \/ /\ r \in members
              /\ \E cut \in Cuts(Queue(r)) : toClient' = toClient \o SnapshotMessages(r, cut)
              /\ awaiting' = [awaiting EXCEPT !.result = "ok"]
           \/ /\ r \notin members
              /\ awaiting' = [awaiting EXCEPT !.result = "error"]
              /\ UNCHANGED toClient
        /\ UNCHANGED members
  /\ UNCHANGED <<versions, connRoom, toServer, callVars, replicaVars, resyncing, syncs>>

-----------------------------------------------------------------------------
(* The read loop of the connection. While it waits for the actor's answer to  *)
(* queue.sync it reads nothing else.                                          *)

Post(r, m) == [inbound EXCEPT ![r] = Append(@, m)]

Request(k) ==
  /\ awaiting = NoSync
  /\ toServer # <<>> /\ Head(toServer).call = k
  /\ toServer' = Tail(toServer)
  /\ UNCHANGED <<versions, members, callVars, replicaVars, resyncing, syncs>>

\* room.join: the room left hears of it through its own channel.
JoinRoom ==
  LET r == Head(toServer).room
      left == IF connRoom = NoRoom THEN inbound ELSE Post(connRoom, "leave")
  IN /\ Request("join")
     /\ connRoom' = r
     /\ inbound' = [left EXCEPT ![r] = Append(@, "join")]
     /\ toClient' = Append(toClient, Ack("join", TRUE, 0))
     /\ UNCHANGED awaiting

\* room.join by somebody the room does not admit.
RefuseJoin ==
  /\ Request("join")
  /\ toClient' = Append(toClient, Ack("join", FALSE, 0))
  /\ UNCHANGED <<connRoom, inbound, awaiting>>

\* room.leave
LeaveRoom ==
  /\ Request("leave")
  /\ \/ /\ connRoom # NoRoom
        /\ inbound' = Post(connRoom, "leave")
        /\ toClient' = Append(toClient, Ack("leave", TRUE, 0))
     \/ /\ connRoom = NoRoom
        /\ toClient' = Append(toClient, Ack("leave", FALSE, 0))
        /\ UNCHANGED inbound
  /\ connRoom' = NoRoom
  /\ UNCHANGED awaiting

\* queue.sync: refused for another room than the connection's (requireRoom).
SyncQueue ==
  LET m == Head(toServer)
  IN /\ Request("sync")
     /\ \/ /\ connRoom = m.room
           /\ inbound' = Post(m.room, "sync")
           /\ awaiting' = [ref |-> m.ref, result |-> "waiting"]
           /\ UNCHANGED toClient
        \/ /\ connRoom # m.room
           /\ toClient' = Append(toClient, Ack("sync", FALSE, m.ref))
           /\ UNCHANGED <<inbound, awaiting>>
     /\ UNCHANGED connRoom

\* The actor has answered: the read loop acknowledges and goes on.
SyncAnswered ==
  /\ awaiting.result \in {"ok", "error"}
  /\ toClient' = Append(toClient, Ack("sync", awaiting.result = "ok", awaiting.ref))
  /\ awaiting' = NoSync
  /\ UNCHANGED <<versions, members, inbound, connRoom, toServer, callVars, replicaVars, resyncing, syncs>>

-----------------------------------------------------------------------------
(* The client's calls *)

Client == UNCHANGED <<serverVars, base>>

\* Client.Join: the room is followed before the request is written.
Join(r) ==
  /\ Client
  /\ appCall = NoCall /\ calls < MaxCalls
  /\ appCall' = [kind |-> "join", state |-> "new", room |-> r, previous |-> queueRoomID]
  /\ calls' = calls + 1
  /\ queueRoomID' = r
  /\ UNCHANGED <<toServer, toClient, replica, snapshot, patch, resyncing, syncs>>

\* Client.Leave
Leave ==
  /\ Client
  /\ appCall = NoCall /\ calls < MaxCalls
  /\ appCall' = [kind |-> "leave", state |-> "new"]
  /\ calls' = calls + 1
  /\ UNCHANGED <<queueRoomID, toServer, toClient, replica, snapshot, patch, resyncing, syncs>>

\* Client.call writes the request.
WriteCall ==
  /\ Client
  /\ appCall.state = "new"
  /\ appCall' = [appCall EXCEPT !.state = "sent"]
  /\ toServer' = Append(toServer,
       IF appCall.kind = "join" THEN [call |-> "join", room |-> appCall.room] ELSE [call |-> "leave"])
  /\ UNCHANGED <<calls, queueRoomID, toClient, replica, snapshot, patch, resyncing, syncs>>

\* The call returns: a refused join follows the previous room again, a leave
\* forgets the queue (setQueueRoom, resetQueueRoom).
CallReturns ==
  /\ Client
  /\ appCall.state \in {"ok", "error"}
  /\ appCall' = NoCall
  /\ \/ /\ appCall.kind = "join" /\ appCall.state = "error"
        /\ queueRoomID' = appCall.previous
        /\ UNCHANGED <<replica, snapshot, patch, resyncing>>
     \/ /\ appCall.kind = "leave" /\ appCall.state = "ok"
        /\ queueRoomID' = NoRoom
        /\ replica' = Empty /\ snapshot' = Nothing /\ patch' = Nothing
        /\ resyncing' = FALSE
     \/ /\ (appCall.kind = "join") = (appCall.state = "ok")
        /\ UNCHANGED <<queueRoomID, replica, snapshot, patch, resyncing>>
  /\ UNCHANGED <<calls, toServer, toClient, syncs>>

\* The goroutine of startQueueResync writes queue.sync for the room followed
\* when it was started.
WriteSync(i) ==
  /\ Client
  /\ syncs[i].state = "new"
  /\ syncs' = [syncs EXCEPT ![i].state = "sent"]
  /\ toServer' = Append(toServer, [call |-> "sync", room |-> syncs[i].room, ref |-> i])
  /\ UNCHANGED <<callVars, toClient, replica, snapshot, patch, resyncing>>

\* Its ten seconds are over before the answer comes.
SyncTimeout(i) ==
  /\ Client
  /\ syncs[i].state = "sent"
  /\ syncs' = [syncs EXCEPT ![i].state = "error"]
  /\ UNCHANGED <<callVars, toServer, toClient, replica, snapshot, patch, resyncing>>

\* The goroutine ends.
SyncReturns(i) ==
  /\ Client
  /\ syncs[i].state \in {"ok", "error"}
  /\ syncs' = [syncs EXCEPT ![i].state = "over"]
  /\ resyncing' = FALSE
  /\ replica' = IF syncs[i].state = "error" THEN [replica EXCEPT !.resyncRequired = TRUE] ELSE replica
  /\ UNCHANGED <<callVars, toServer, toClient, snapshot, patch>>

-----------------------------------------------------------------------------
(* The client's read pump *)

\* applyQueuePatch, one operation: an invalid one makes the whole patch invalid.
ApplyOp(acc, op) ==
  LET q == acc.items
      at == IF op.op \in {"remove", "move"} /\ op.item \in ToSet(q)
            THEN CHOOSE i \in DOMAIN q : q[i] = op.item ELSE 0
      Result(ok, items) == [ok |-> acc.ok /\ ok, items |-> IF ok THEN items ELSE q]
  IN CASE op.op = "add" -> Result(op.index <= Len(q) /\ op.item \notin ToSet(q),
                                  InsertAt(q, op.index + 1, op.item))
       [] op.op = "remove" -> Result(at # 0, RemoveAt(q, at))
       [] op.op = "move" -> Result(at # 0 /\ op.to < Len(q),
                                   InsertAt(RemoveAt(q, at), op.to + 1, op.item))
       [] op.op = "clear" -> Result(TRUE, <<>>)

ApplyQueuePatch(items, ops) == FoldLeft(ApplyOp, [ok |-> TRUE, items |-> items], ops)

FreeSync == {i \in 1..MaxSyncs : syncs[i].state = "unused"}

\* markQueueResyncLocked and startQueueResync: what is half received is dropped,
\* what is displayed stays, and a baseline is asked for unless one is already.
MarkResync ==
  /\ replica' = [replica EXCEPT !.resyncRequired = TRUE]
  /\ snapshot' = Nothing /\ patch' = Nothing
  /\ \/ resyncing /\ UNCHANGED <<resyncing, syncs>>
     \/ /\ ~resyncing /\ FreeSync # {}
        /\ resyncing' = TRUE
        /\ syncs' = [syncs EXCEPT ![Min(FreeSync)] = [state |-> "new", room |-> queueRoomID]]
  /\ UNCHANGED base

Incoming(t) ==
  /\ toClient # <<>> /\ Head(toClient).type = t
  /\ toClient' = Tail(toClient)
  /\ UNCHANGED <<serverVars, toServer, calls, queueRoomID>>

\* acceptQueueSnapshotLocked
ReceiveSnapshot ==
  LET m == Head(toClient)
      assembly == IF m.part = 0 THEN [next |-> 0, revision |-> m.revision, items |-> <<>>] ELSE snapshot
      items == assembly.items \o m.items
      fits == assembly.next = m.part /\ assembly.revision = m.revision
  IN /\ Incoming("snapshot")
     /\ queueRoomID # NoRoom
     /\ \/ /\ fits /\ ~m.done
           /\ snapshot' = [assembly EXCEPT !.next = @ + 1, !.items = items]
           /\ patch' = IF m.part = 0 THEN Nothing ELSE patch
           /\ UNCHANGED <<replica, base, resyncing, syncs>>
        \/ /\ fits /\ m.done
           /\ replica' = [ready |-> TRUE, revision |-> m.revision, items |-> items, resyncRequired |-> FALSE]
           /\ snapshot' = Nothing /\ patch' = Nothing
           /\ base' = m.room
           /\ UNCHANGED <<resyncing, syncs>>
        \/ ~fits /\ MarkResync
     /\ UNCHANGED appCall

\* acceptQueuePatchLocked: a patch is applied as a whole, to the revision it is for.
ReceivePatch ==
  LET m == Head(toClient)
      assembly == IF m.part = 0 THEN [next |-> 0, base |-> m.base, revision |-> m.revision, ops |-> <<>>] ELSE patch
      ops == assembly.ops \o m.ops
      fits == assembly.next = m.part /\ assembly.base = m.base /\ assembly.revision = m.revision
      result == ApplyQueuePatch(replica.items, ops)
      applies == replica.ready /\ replica.revision = m.base /\ result.ok
  IN /\ Incoming("patch")
     /\ queueRoomID # NoRoom
     /\ \/ /\ fits /\ ~m.done
           /\ patch' = [assembly EXCEPT !.next = @ + 1, !.ops = ops]
           /\ UNCHANGED <<replica, snapshot, base, resyncing, syncs>>
        \/ /\ fits /\ m.done /\ applies
           /\ replica' = [replica EXCEPT !.items = result.items, !.revision = m.revision, !.resyncRequired = FALSE]
           /\ patch' = Nothing
           /\ UNCHANGED <<snapshot, base, resyncing, syncs>>
        \/ ~(fits /\ (m.done => applies)) /\ MarkResync
     /\ UNCHANGED appCall

\* Queue messages that arrive while no room is followed are ignored.
ReceiveUnwanted ==
  /\ queueRoomID = NoRoom
  /\ Incoming("snapshot") \/ Incoming("patch")
  /\ UNCHANGED <<appCall, replicaVars, resyncing, syncs>>

\* An answer wakes the call that waits for it; a late one is dropped.
ReceiveAck ==
  LET m == Head(toClient)
      answer == IF m.ok THEN "ok" ELSE "error"
  IN /\ Incoming("ack")
     /\ \/ /\ m.call = "sync"
           /\ syncs' = IF syncs[m.ref].state = "sent" THEN [syncs EXCEPT ![m.ref].state = answer] ELSE syncs
           /\ UNCHANGED appCall
        \/ /\ m.call # "sync"
           /\ appCall' = [appCall EXCEPT !.state = answer]
           /\ UNCHANGED syncs
     /\ UNCHANGED <<replicaVars, resyncing>>

-----------------------------------------------------------------------------
Init ==
  /\ versions = [r \in Rooms |-> << <<>> >>]
  /\ members = {} /\ inbound = [r \in Rooms |-> <<>>]
  /\ connRoom = NoRoom /\ awaiting = NoSync
  /\ toServer = <<>> /\ toClient = <<>>
  /\ appCall = NoCall /\ calls = 0 /\ queueRoomID = NoRoom
  /\ replica = Empty /\ snapshot = Nothing /\ patch = Nothing
  /\ resyncing = FALSE
  /\ syncs = [i \in 1..MaxSyncs |-> [state |-> "unused", room |-> NoRoom]]
  /\ base = NoRoom

QueueChange ==
  \E r \in Rooms : AddEntries(r) \/ RemoveEntries(r) \/ MoveEntry(r) \/ ClearQueue(r)

ServerStep ==
  \/ \E r \in Rooms : Serve(r)
  \/ JoinRoom \/ RefuseJoin \/ LeaveRoom \/ SyncQueue \/ SyncAnswered

ClientStep ==
  \/ WriteCall \/ CallReturns
  \/ \E i \in 1..MaxSyncs : WriteSync(i) \/ SyncReturns(i)
  \/ ReceiveSnapshot \/ ReceivePatch \/ ReceiveUnwanted \/ ReceiveAck

Next ==
  \/ QueueChange \/ ServerStep \/ ClientStep
  \/ Leave \/ \E r \in Rooms : Join(r)
  \/ \E i \in 1..MaxSyncs : SyncTimeout(i)

Spec == Init /\ [][Next]_vars

\* Goroutines that can go on do, and the connection delivers.
FairSpec == Spec /\ WF_vars(ServerStep) /\ WF_vars(ClientStep)

-----------------------------------------------------------------------------
(* Properties *)

\* What queue_protocol.go wants of a display, and keeps while the client stays in one
\* room: a displayed queue is exactly the queue its room had at the displayed revision,
\* however snapshots and patches were cut and in whichever order joins, leaves,
\* resyncs and changes met.
ReplicaExact ==
  replica.ready =>
    /\ replica.revision + 1 \in DOMAIN versions[base]
    /\ replica.items = versions[base][replica.revision + 1]

\* Once the room is quiet and the client is settled in it, the client displays
\* the room's queue: no lost patch or resync leaves it behind.
Converges ==
  <>[](connRoom # NoRoom /\ queueRoomID = connRoom
         => replica.ready /\ replica.items = Queue(connRoom))

TheRoom == CHOOSE r \in Rooms : TRUE

\* With one room, the client's display implements QueueView.
View == INSTANCE QueueView WITH
          versions <- versions[TheRoom],
          shown <- IF replica.ready THEN replica.revision + 1 ELSE 0,
          display <- replica.items
ImplementsView == View!Spec
=============================================================================

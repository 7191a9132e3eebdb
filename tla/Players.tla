------------------------------ MODULE Players -------------------------------
(* The player plane: one persistent Player, the connections of its agent, the  *)
(* rooms it is assigned to and the administrators who manage it.               *)
(* Threads are the read loops (one per connection) and the HTTP handlers.  Each *)
(* has a location th[t].at; two locations are apart where another thread can   *)
(* step between them: a query, the registry lock, a channel, and the field     *)
(* client.room, which no lock protects.                                        *)
(* A message put on a connection arrives in order or never, so the last volume *)
(* sent is the one the agent ends with.                                        *)
(* Join and Leave take effect where they are sent: an actor handles its        *)
(* channel in order, and the rooms are independent of each other.              *)
EXTENDS Naturals, FiniteSets

CONSTANTS
  Conns,       \* WebSocket connections the agent opens
  Tasks,       \* HTTP handlers that run at the same time
  Rooms,
  None,
  MaxKeys,     \* bound: Player keys issued
  MaxVolumes,  \* bound: room volumes stored
  MaxTasks     \* bound: HTTP requests

ASSUME PlayersAssumption ==
  /\ MaxKeys \in Nat /\ MaxVolumes \in Nat /\ MaxTasks \in Nat
  /\ None \notin Conns \cup Tasks \cup Rooms /\ Conns \cap Tasks = {}

VARIABLES
  row,       \* players row: exists, key (0 = none configured), active
  binding,   \* room_player_bindings row of the Player
  output,    \* room_output_state: stamp of the volume stored per room (0 = no row)
  registry,  \* wsapi.Server.players[id]
  key,       \* client.playerKey of each connection (0 = not authenticated)
  player,    \* client.player # nil
  room,      \* client.room
  members,   \* clients of each room actor
  closed,    \* client.closeOnce is closed
  sent,      \* stamps of the volumes put on each connection: the last one, all
  th,        \* thread states
  issued, stored, handled,  \* counters behind the bounds
  crashed    \* the process has panicked

store == <<row, binding, output>>
conn == <<key, player, room, closed, sent>>
counters == <<issued, stored, handled>>
vars == <<store, conn, counters, registry, members, th, crashed>>

Threads == Conns \cup Tasks
Home(t) == IF t \in Conns THEN "idle" ELSE "free"
Self(t) == IF t \in Conns THEN t ELSE None
\* at: location; c: the connection handled; r: the room it is to go to (None = leave);
\* v: a value read earlier; ret: location after a close.
Resting(t) == [at |-> Home(t), c |-> Self(t), r |-> None, v |-> 0, ret |-> "free"]

At(t, at) == th[t].at = at
Run(t, state) == th' = [th EXCEPT ![t] = state]
Finish(t) == Run(t, Resting(t))
Goto(t, at) == IF at = Home(t) THEN Finish(t) ELSE th' = [th EXCEPT ![t].at = at]

Init ==
  /\ row \in {[exists |-> TRUE, key |-> 1, active |-> TRUE],
              [exists |-> TRUE, key |-> 0, active |-> FALSE]}
  /\ binding \in Rooms \cup {None}
  /\ output = [r \in Rooms |-> 0]
  /\ registry = None
  /\ key = [c \in Conns |-> 0] /\ player = [c \in Conns |-> FALSE]
  /\ room = [c \in Conns |-> None] /\ members = [r \in Rooms |-> {}]
  /\ closed = [c \in Conns |-> FALSE]
  /\ sent = [c \in Conns |-> [last |-> 0, all |-> {0}]]
  /\ th = [t \in Threads |-> [Resting(t) EXCEPT !.at = IF t \in Conns THEN "off" ELSE @]]
  /\ issued = row.key /\ stored = 0 /\ handled = 0 /\ crashed = FALSE

(* -------------------------------- the store -------------------------------- *)
Resolves(k) == row.exists /\ row.active /\ row.key = k
InsertPlayer(k) == row' = [exists |-> TRUE, key |-> k, active |-> TRUE]
SaveActive(active) == row' = [row EXCEPT !.active = active]
SaveToken(k) == row' = [row EXCEPT !.key = k]
\* The assignment goes with the row.
RemovePlayer ==
  /\ row' = [exists |-> FALSE, key |-> 0, active |-> FALSE]
  /\ binding' = None
SaveBinding(r) == binding' = r
RemoveBinding == binding' = None
SaveVolume(r, v) == output' = [output EXCEPT ![r] = v]

(* ---------------------------- closing a connection ------------------------- *)
Return(t) == Goto(t, th[t].ret)

\* disconnect: the select finds closeOnce closed, or goes on to close it.
Disconnect(t) ==
  /\ At(t, "close")
  /\ IF closed[th[t].c] THEN Return(t) ELSE Goto(t, "closing")
  /\ UNCHANGED <<store, conn, counters, registry, members, crashed>>

\* close(closeOnce) panics when another thread has closed it since the select.
CloseOnce(t) ==
  /\ At(t, "closing")
  /\ crashed' = closed[th[t].c]
  /\ closed' = [closed EXCEPT ![th[t].c] = TRUE]
  /\ Return(t)
  /\ UNCHANGED <<store, counters, registry, members, key, player, room, sent>>

(* ---------------------- the read loop of a connection ---------------------- *)
\* A new connection and its "auth": only the key of the row resolves, while active.
AuthPlayer(c) ==
  /\ At(c, "off")
  /\ Resolves(row.key)
  /\ key' = [key EXCEPT ![c] = row.key]
  /\ Finish(c)
  /\ UNCHANGED <<store, counters, registry, members, player, room, closed, sent, crashed>>

\* handlePlayerHello: the assignment is read before the connection is registered.
HelloBinding(c) ==
  /\ At(c, "idle") /\ ~closed[c] /\ key[c] # 0 /\ ~player[c]
  /\ th' = [th EXCEPT ![c].at = "register", ![c].r = binding]
  /\ UNCHANGED <<store, conn, counters, registry, members, crashed>>

\* registerPlayer: the new connection takes the entry, then the previous one is closed.
HelloRegister(c) ==
  /\ At(c, "register")
  /\ player' = [player EXCEPT ![c] = TRUE]
  /\ registry' = c
  /\ IF registry \in {None, c} THEN Goto(c, "validate")
     ELSE th' = [th EXCEPT ![c].at = "close", ![c].c = registry, ![c].ret = "validate"]
  /\ UNCHANGED <<store, counters, members, key, room, closed, sent, crashed>>

\* Mutant: whatever connection holds the entry loses it.
UnregisteredAny(c) == IF player[c] THEN None ELSE registry
Unregistered(c) == IF player[c] /\ registry = c THEN None ELSE registry

KeyValid(c) == Resolves(key[c])

\* The key is checked again now that a revocation would find the connection.
HelloRevoked(c) ==
  /\ At(c, "validate")
  /\ ~KeyValid(c)
  /\ registry' = Unregistered(c)
  /\ player' = [player EXCEPT ![c] = FALSE]
  /\ th' = [th EXCEPT ![c].at = "close", ![c].c = c, ![c].ret = "idle"]
  /\ UNCHANGED <<store, counters, members, key, room, closed, sent, crashed>>

\* Mutant: the key is not validated again.
HelloUnchecked(c) ==
  /\ At(c, "validate")
  /\ th' = [th EXCEPT ![c].at = IF th[c].r = None THEN "apply" ELSE "lookup", ![c].c = c]
  /\ UNCHANGED <<store, conn, counters, registry, members, crashed>>
HelloConfirmed(c) ==
  /\ At(c, "validate")
  /\ KeyValid(c)
  /\ th' = [th EXCEPT ![c].at = IF th[c].r = None THEN "apply" ELSE "lookup", ![c].c = c]
  /\ UNCHANGED <<store, conn, counters, registry, members, crashed>>

\* conn.Read fails: the network ends, or the connection was closed on this side.
ReadFails(c) ==
  /\ At(c, "idle")
  /\ th' = [th EXCEPT ![c].at = "close", ![c].c = c, ![c].ret = "quit"]
  /\ UNCHANGED <<store, conn, counters, registry, members, crashed>>

QuitLeave(c) ==
  /\ At(c, "quit")
  /\ members' = [r \in Rooms |-> IF r = room[c] THEN members[r] \ {c} ELSE members[r]]
  /\ Goto(c, "unregister")
  /\ UNCHANGED <<store, conn, counters, registry, crashed>>

\* unregisterPlayer: only the entry that is still this connection's own.
QuitUnregister(c) ==
  /\ At(c, "unregister")
  /\ registry' = Unregistered(c)
  /\ Run(c, [Resting(c) EXCEPT !.at = "dead"])
  /\ UNCHANGED <<store, conn, counters, members, crashed>>

(* --------- JoinPlayerRoom and LeavePlayerRoom, on any thread --------------- *)
\* playerConn; the rooms outlive this module, so GetRoom finds its room.
\* A failure in the hello leaves only the output to apply.
MoveLookup(t) ==
  /\ At(t, "lookup")
  /\ IF registry # None
     THEN th' = [th EXCEPT ![t].at = "leave", ![t].c = registry]
     ELSE th' = [th EXCEPT ![t].at = IF t \in Conns THEN "apply" ELSE Home(t),
                           ![t].c = Self(t)]
  /\ UNCHANGED <<store, conn, counters, registry, members, crashed>>

MoveLeave(t) ==
  LET c == th[t].c IN
  /\ At(t, "leave")
  /\ members' = [r \in Rooms |-> IF r = room[c] THEN members[r] \ {c} ELSE members[r]]
  /\ Goto(t, "set")
  /\ UNCHANGED <<store, conn, counters, registry, crashed>>

\* Mutant: a connection that is in the room already does not join.
MoveSetKnown(t) ==
  LET c == th[t].c IN
  /\ At(t, "set")
  /\ room' = [room EXCEPT ![c] = th[t].r]
  /\ Goto(t, IF th[t].r \in {None, room[c]} THEN Home(t) ELSE "join")
  /\ UNCHANGED <<store, counters, registry, members, key, player, closed, sent, crashed>>
\* client.room is written without a lock; room.joined or room.left is sent.
MoveSet(t) ==
  LET c == th[t].c IN
  /\ At(t, "set")
  /\ room' = [room EXCEPT ![c] = th[t].r]
  /\ Goto(t, IF th[t].r = None THEN Home(t) ELSE "join")
  /\ UNCHANGED <<store, counters, registry, members, key, player, closed, sent, crashed>>

MoveJoin(t) ==
  /\ At(t, "join")
  /\ members' = [members EXCEPT ![th[t].r] = @ \cup {th[t].c}]
  /\ Goto(t, "apply")
  /\ UNCHANGED <<store, conn, counters, registry, crashed>>

\* applyRoomOutput reads the volume of the room the connection is in by now ...
ApplyRead(t) ==
  LET r == room[th[t].c] IN
  /\ At(t, "apply")
  /\ IF ~player[th[t].c] \/ r = None THEN Finish(t)
     ELSE IF output[r] = 0
     THEN Finish(t)
     ELSE th' = [th EXCEPT ![t].at = "send", ![t].v = output[r]]
  /\ UNCHANGED <<store, conn, counters, registry, members, crashed>>

\* ... and sends it; so does CommandRoomPlayers.
SendVolume(t) ==
  /\ At(t, "send")
  /\ sent' = [sent EXCEPT ![th[t].c] =
       [last |-> th[t].v, all |-> @.all \cup {th[t].v}]]
  /\ Finish(t)
  /\ UNCHANGED <<store, counters, registry, members, key, player, room, closed, crashed>>

(* ----------------------------- HTTP handlers ------------------------------- *)
\* A request enters; requireRole and the decoding of the body are not modelled.
Request(t) ==
  /\ At(t, "free") /\ handled < MaxTasks
  /\ handled' = handled + 1

CreatePlayer(t) ==
  /\ Request(t) /\ ~row.exists /\ issued < MaxKeys
  /\ issued' = issued + 1
  /\ InsertPlayer(issued + 1)
  /\ UNCHANGED <<binding, output, conn, stored, registry, members, th, crashed>>

\* updatePlayer reads the whole row; v: the activity the request leaves (1) or sets (2, 3).
UpdateRead(t, v) ==
  /\ Request(t) /\ row.exists
  /\ LET active == CASE v = 1 -> row.active [] v = 2 -> FALSE [] v = 3 -> TRUE IN
     /\ active => row.key # 0
     /\ Run(t, [Resting(t) EXCEPT !.at = "update", !.v = IF active THEN 1 ELSE 0])
  /\ UNCHANGED <<store, conn, issued, stored, registry, members, crashed>>

\* ... and writes the whole row; a row deleted meanwhile is an error.
UpdateWrite(t) ==
  /\ At(t, "update")
  /\ IF row.exists
     THEN /\ SaveActive(th[t].v = 1)
          /\ Goto(t, "reread")
     ELSE Finish(t) /\ UNCHANGED row
  /\ UNCHANGED <<binding, output, conn, counters, registry, members, crashed>>

UpdateReread(t) ==
  /\ At(t, "reread")
  /\ IF row.exists /\ ~row.active THEN Goto(t, "revoke") ELSE Finish(t)
  /\ UNCHANGED <<store, conn, counters, registry, members, crashed>>

RotateKey(t) ==
  /\ Request(t) /\ row.exists /\ issued < MaxKeys
  /\ issued' = issued + 1
  /\ SaveToken(issued + 1)
  /\ Goto(t, "revoke")
  /\ UNCHANGED <<binding, output, conn, stored, registry, members, crashed>>

DeletePlayer(t) ==
  /\ Request(t) /\ row.exists
  /\ RemovePlayer
  /\ Goto(t, "revoke")
  /\ UNCHANGED <<output, conn, issued, stored, registry, members, crashed>>

\* DisconnectPlayer: the entry is removed before the connection is closed.
Revoke(t) ==
  /\ At(t, "revoke")
  /\ IF registry = None THEN Finish(t)
     ELSE th' = [th EXCEPT ![t].at = "close", ![t].c = registry, ![t].ret = "free"]
  /\ registry' = None
  /\ UNCHANGED <<store, conn, counters, members, crashed>>

BindRoomPlayer(t, r) ==
  /\ Request(t) /\ row.exists
  /\ SaveBinding(r)
  /\ Run(t, [Resting(t) EXCEPT !.at = "lookup", !.r = r])
  /\ UNCHANGED <<row, output, conn, issued, stored, registry, members, crashed>>

UnbindRoomPlayer(t) ==
  /\ Request(t) /\ binding # None
  /\ RemoveBinding
  /\ Run(t, [Resting(t) EXCEPT !.at = "check", !.r = binding])
  /\ UNCHANGED <<row, output, conn, issued, stored, registry, members, crashed>>

\* Registered connections in a room, and in which room one is.
RoomPlayers(r) == {c \in Conns : registry = c /\ room[c] = r}

\* The player leaves if it is online in that room now; the move looks it up again.
UnbindCheck(t) ==
  /\ At(t, "check")
  /\ IF registry # None /\ room[registry] = th[t].r
     THEN th' = [th EXCEPT ![t].at = "lookup", ![t].r = None]
     ELSE Finish(t)
  /\ UNCHANGED <<store, conn, counters, registry, members, crashed>>

SetRoomOutputVolume(t, r) ==
  /\ Request(t) /\ stored < MaxVolumes
  /\ stored' = stored + 1
  /\ SaveVolume(r, stored + 1)
  /\ Run(t, [Resting(t) EXCEPT !.at = "targets", !.r = r, !.v = stored + 1])
  /\ UNCHANGED <<row, binding, conn, issued, registry, members, crashed>>

\* CommandRoomPlayers collects the registered connections of the room under the lock.
CommandTargets(t) ==
  /\ At(t, "targets")
  /\ IF RoomPlayers(th[t].r) # {}
     THEN th' = [th EXCEPT ![t].at = "send", ![t].c = registry]
     ELSE Finish(t)
  /\ UNCHANGED <<store, conn, counters, registry, members, crashed>>

ReadLoop(c) ==
  \/ AuthPlayer(c)
  \/ HelloBinding(c) \/ HelloRegister(c) \/ HelloRevoked(c) \/ HelloConfirmed(c)
  \/ ReadFails(c) \/ QuitLeave(c) \/ QuitUnregister(c)
Handler(t) ==
  \/ CreatePlayer(t) \/ (\E v \in 1 .. 3 : UpdateRead(t, v)) \/ UpdateWrite(t) \/ UpdateReread(t)
  \/ RotateKey(t) \/ DeletePlayer(t) \/ Revoke(t)
  \/ (\E r \in Rooms : BindRoomPlayer(t, r) \/ SetRoomOutputVolume(t, r))
  \/ UnbindRoomPlayer(t) \/ UnbindCheck(t) \/ CommandTargets(t)
Move(t) ==
  \/ MoveLookup(t) \/ MoveLeave(t) \/ MoveSet(t) \/ MoveJoin(t)
  \/ ApplyRead(t) \/ SendVolume(t)

Next ==
  /\ ~crashed
  /\ \/ \E t \in Threads : Disconnect(t) \/ CloseOnce(t)
     \/ \E c \in Conns : ReadLoop(c)
     \/ \E t \in Tasks : Handler(t)
     \/ \E t \in Conns \cup Tasks : Move(t)

Spec == Init /\ [][Next]_vars

(* -------------------------------- properties ------------------------------- *)
Confirmed(c) == player[c] /\ th[c].at \notin {"register", "close", "closing", "validate"}
Ended(c) == th[c].at \in {"quit", "unregister", "dead"}
\* A thread is about to close the connection.
BeingClosed(c) == \E t \in Threads : th[t].c = c /\ th[t].at \in {"close", "closing"}
\* A row has changed and its DisconnectPlayer is still to come.
Revoking == \E t \in Tasks : th[t].at \in {"reread", "revoke"}
Quiet == /\ \A t \in Tasks : At(t, "free")
         /\ \A c \in Conns : th[c].at \in {"off", "idle", "dead"} /\ (closed[c] => At(c, "dead"))
Online(c) == registry = c /\ At(c, "idle")

(* The registry holds no connection that has ended, and a registered player    *)
(* that is open is either the entry of the registry or about to be closed: an  *)
(* old connection never takes the entry of its successor with it               *)
(* (registerPlayer, unregisterPlayer, DisconnectPlayer).                       *)
RegistryExact ==
  /\ registry # None => player[registry] /\ ~At(registry, "dead")
  /\ \A c \in Conns : player[c] /\ ~closed[c] /\ ~Ended(c) /\ ~At(c, "register") =>
       registry = c \/ BeingClosed(c)

(* Once a rotation, a disabling or a deletion has been answered, no connection *)
(* with the old key stays registered, also one whose hello ran at that moment  *)
(* (the key is validated again after the registration).                        *)
RevokedOffline ==
  \A c \in Conns : registry = c /\ Confirmed(c) /\ ~Revoking =>
    row.exists /\ row.active /\ row.key = key[c]

(* A player that is online in a room has been sent the volume stored for the   *)
(* room, whichever of storing, registering and moving came first.              *)
VolumeOffered ==
  Quiet => \A c \in Conns : Online(c) /\ room[c] # None => output[room[c]] \in sent[c].all

(* A player that is online in a room is a client of its actor, and has been   *)
(* sent the volume of the room, whatever moves ran at the same time.           *)
PresentInRoom ==
  /\ Quiet => \A c \in Conns : Online(c) /\ room[c] # None => c \in members[room[c]]
  /\ VolumeOffered

(* No thread closes closeOnce a second time.                                   *)
NoPanic == ~crashed

(* The persistent assignment decides where an online player is.                *)
AssignmentRules == Quiet => \A c \in Conns : Online(c) => room[c] = binding

(* The last volume an online player was sent is the one stored for its room.   *)
VolumeConverges ==
  Quiet => \A c \in Conns : Online(c) /\ room[c] # None => output[room[c]] \in {0, sent[c].last}
=============================================================================

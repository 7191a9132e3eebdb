---------------------------- MODULE PlayersProofs ----------------------------
(* What the player plane keeps for any number of connections, rooms and        *)
(* requests.  The properties of Players speak of moments when something has    *)
(* settled; an invariant that every step keeps has to say, of each promise not *)
(* yet fulfilled, which thread still owes it: a connection that is not in the  *)
(* room it shows is being moved there, one whose key was replaced is about to  *)
(* be revoked, and a volume that was not sent is on some thread's way.         *)
EXTENDS Players, TLAPS

\* What a location says about the other fields of its thread.
OnConn == {"close", "closing", "leave", "set", "join", "apply", "send"}
Places == OnConn \cup {"off", "idle", "register", "validate", "lookup", "quit", "unregister", "dead",
                      "free", "update", "reread", "revoke", "check", "targets"}
ThreadState == [at : Places, c : Conns \cup {None}, r : Rooms \cup {None}, v : Nat,
                ret : {"free", "validate", "idle", "quit"}]
Sound(s) ==
  /\ s \in ThreadState
  /\ s.at \in OnConn => s.c \in Conns
  /\ s.at = "join" => s.r \in Rooms

TypeOK ==
  /\ row \in [exists : BOOLEAN, key : Nat, active : BOOLEAN]
  /\ binding \in Rooms \cup {None} /\ output \in [Rooms -> Nat]
  /\ registry \in Conns \cup {None}
  /\ key \in [Conns -> Nat] /\ player \in [Conns -> BOOLEAN]
  /\ room \in [Conns -> Rooms \cup {None}] /\ members \in [Rooms -> SUBSET Conns]
  /\ closed \in [Conns -> BOOLEAN] /\ sent \in [Conns -> [last : Nat, all : SUBSET Nat]]
  /\ issued \in Nat /\ stored \in Nat

ThreadsOK ==
  /\ th \in [Threads -> ThreadState]
  /\ \A t \in Threads : Sound(th[t])
  /\ \A c \in Conns : th[c].at = "off" => ~player[c]

TypeInv == TypeOK /\ ThreadsOK

\* The two halves of RegistryExact.
HolderIsPlayer == registry # None => player[registry] /\ ~At(registry, "dead")
OpenIsHolder == \A c \in Conns :
  player[c] /\ ~closed[c] /\ ~Ended(c) /\ ~At(c, "register") => registry = c \/ BeingClosed(c)

\* The hello of the connection has got past its second look at the key.
Admitted(c) ==
  /\ player[c] /\ th[c].at \notin {"register", "validate"}
  /\ ~(th[c].at \in {"close", "closing"} /\ th[c].ret = "validate")

KeyOwed == \A c \in Conns :
  registry = c /\ Admitted(c) /\ (~row.exists \/ row.key # key[c]) =>
    \E t \in Tasks : th[t].at = "revoke"
DisableOwed == \A c \in Conns :
  registry = c /\ Admitted(c) /\ row.exists /\ ~row.active => Revoking
RevokeInv == KeyOwed /\ DisableOwed

\* Thread t brings the connection to room r.
Brings(t, c, r) ==
  /\ th[t].c = c
  /\ th[t].at = "set" \/ (th[t].at = "join" /\ th[t].r = r)
PresenceInv == \A c \in Conns :
  ~Ended(c) /\ room[c] # None /\ c \notin members[room[c]] =>
    \E t \in Threads : Brings(t, c, room[c])

\* Thread t is on its way to send the connection volume v of room r.
Carries(t, c, r, v) ==
  \/ th[t].at = "targets" /\ th[t].r = r /\ th[t].v = v
  \/ th[t].at = "send" /\ th[t].c = c /\ th[t].v = v
  \/ th[t].at \in {"leave", "set", "join", "apply"} /\ th[t].c = c
  \/ t = c /\ th[t].at \in {"validate", "lookup"}
  \/ t = c /\ th[t].at \in {"close", "closing"} /\ th[t].ret = "validate"
OfferInv ==
  /\ \A c \in Conns : 0 \in sent[c].all
  /\ \A c \in Conns :
       registry = c /\ room[c] # None /\ output[room[c]] \notin sent[c].all =>
         \E t \in Threads : Carries(t, c, room[c], output[room[c]])

PlaneInv == TypeInv /\ RegistryExact /\ RevokeInv /\ PresenceInv /\ OfferInv
-----------------------------------------------------------------------------
\* What the provers need of a step of thread t: it is alone, and its new fields.
Alone(t) == \A u \in Threads : u # t => th'[u] = th[u]
Into(t, at, c, r, v, ret) ==
  /\ th' \in [Threads -> ThreadState] /\ Sound(th'[t]) /\ Alone(t)
  /\ th'[t].at = at /\ th'[t].c = c /\ th'[t].r = r /\ th'[t].v = v /\ th'[t].ret = ret
Rests(t) == Into(t, Home(t), Self(t), None, 0, "free")
Passes(t, at) == Into(t, at, th[t].c, th[t].r, th[t].v, th[t].ret)
Returns(t) == IF th[t].ret = Home(t) THEN Rests(t) ELSE Passes(t, th[t].ret)

(* ---------------------------- steps of one thread -------------------------- *)
LEMMA RestingState ==
  ASSUME NEW t \in Threads
  PROVE  /\ Sound(Resting(t)) /\ Home(t) \in {"idle", "free"}
         /\ Resting(t).at = Home(t) /\ Resting(t).c = Self(t)
         /\ Resting(t).r = None /\ Resting(t).v = 0 /\ Resting(t).ret = "free"
<1>1. Home(t) \in {"idle", "free"}
  BY DEF Home
<1>2. Self(t) \in Conns \cup {None}
  BY DEF Self
<1>3. QED
  BY <1>1, <1>2 DEF Resting, Sound, ThreadState, OnConn, Places

LEMMA MoveThread ==
  ASSUME ThreadsOK, NEW t \in Threads, NEW s, Sound(s), th' = [th EXCEPT ![t] = s]
  PROVE  Into(t, s.at, s.c, s.r, s.v, s.ret)
<1>1. th' \in [Threads -> ThreadState] /\ th'[t] = s
  BY DEF ThreadsOK, Sound
<1>2. Alone(t)
  BY DEF ThreadsOK, Alone
<1>3. QED
  BY <1>1, <1>2 DEF Into

LEMMA GotoMoves ==
  ASSUME ThreadsOK, NEW t \in Threads, NEW at \in Places, Goto(t, at),
         at \in OnConn => th[t].c \in Conns, at = "join" => th[t].r \in Rooms
  PROVE  IF at = Home(t) THEN Rests(t) ELSE Passes(t, at)
<1>1. th[t] \in ThreadState
  BY DEF ThreadsOK
<1>2. CASE at = Home(t)
  BY <1>2, RestingState, MoveThread DEF Goto, Finish, Run, Rests
<1>3. CASE at # Home(t)
  <2> DEFINE s == [th[t] EXCEPT !.at = at]
  <2>1. /\ Sound(s)
        /\ s.at = at /\ s.c = th[t].c /\ s.r = th[t].r /\ s.v = th[t].v /\ s.ret = th[t].ret
    BY <1>1 DEF ThreadState, Sound
  <2>2. th' = [th EXCEPT ![t] = s]
    BY <1>3 DEF Goto, ThreadsOK
  <2>3. Into(t, s.at, s.c, s.r, s.v, s.ret)
    BY <2>1, <2>2, MoveThread
  <2>4. QED
    BY <2>1, <2>3, <1>3 DEF Passes
<1>4. QED
  BY <1>2, <1>3

LEMMA FinishMoves ==
  ASSUME ThreadsOK, NEW t \in Threads, Finish(t)
  PROVE  Rests(t)
  BY RestingState, MoveThread DEF Finish, Run, Rests

LEMMA MovedThreads ==
  ASSUME TypeInv, NEW t \in Threads, NEW at, NEW c, NEW r, NEW v, NEW ret,
         Into(t, at, c, r, v, ret), at # "off",
         \A d \in Conns : d # t => player'[d] = player[d]
  PROVE  ThreadsOK'
<1>1. \A u \in Threads : Sound(th'[u])
  BY DEF TypeInv, ThreadsOK, Into, Alone
<1>2. \A d \in Conns : th'[d].at = "off" => ~player'[d]
  BY DEF TypeInv, ThreadsOK, Into, Alone, Threads
<1>3. QED
  BY <1>1, <1>2 DEF ThreadsOK, Into

\* Where each action takes its thread.
LEMMA DisconnectMoves ==
  ASSUME TypeInv, NEW t \in Threads, Disconnect(t)
  PROVE  IF closed[th[t].c] THEN Returns(t) ELSE Passes(t, "closing")
<1>1. th[t].ret \in Places /\ th[t].ret \notin OnConn /\ th[t].c \in Conns
  BY DEF TypeInv, ThreadsOK, Sound, ThreadState, Places, OnConn, Disconnect, At
<1>2. QED
  BY <1>1, GotoMoves DEF TypeInv, Disconnect, Return, Returns, Places, OnConn, Home

LEMMA CloseOnceMoves ==
  ASSUME TypeInv, NEW t \in Threads, CloseOnce(t)
  PROVE  Returns(t)
<1>1. th[t].ret \in Places /\ th[t].ret \notin OnConn /\ th[t].c \in Conns
  BY DEF TypeInv, ThreadsOK, Sound, ThreadState, Places, OnConn, CloseOnce, At
<1>2. QED
  BY <1>1, GotoMoves DEF TypeInv, CloseOnce, Return, Returns, Places, OnConn, Home

LEMMA AuthPlayerMoves ==
  ASSUME TypeInv, NEW c \in Conns, AuthPlayer(c)
  PROVE  Rests(c)
  BY PlayersAssumption, GotoMoves, FinishMoves DEF TypeInv, ThreadsOK, Sound, At, AuthPlayer,
     Threads, Places, OnConn, Home

LEMMA HelloBindingMoves ==
  ASSUME TypeInv, NEW c \in Conns, HelloBinding(c)
  PROVE  Into(c, "register", th[c].c, binding, th[c].v, th[c].ret)
<1> DEFINE s == [th[c] EXCEPT !.at = "register", !.r = binding]
<1>1. c \in Threads /\ th[c] \in ThreadState
  BY DEF TypeInv, ThreadsOK, Threads
<1>2. Sound(s) /\ s.at = "register" /\ s.c = th[c].c /\ s.r = binding /\ s.v = th[c].v /\ s.ret = th[c].ret
  BY <1>1 DEF Sound, ThreadState, TypeInv, TypeOK, Places, OnConn
<1>3. th' = [th EXCEPT ![c] = s]
  BY  DEF HelloBinding, Run, TypeInv, ThreadsOK
<1>4. Into(c, s.at, s.c, s.r, s.v, s.ret)
  BY <1>1, <1>2, <1>3, MoveThread DEF TypeInv
<1>5. QED
  BY <1>2, <1>4

LEMMA HelloRegisterMoves ==
  ASSUME TypeInv, NEW c \in Conns, HelloRegister(c)
  PROVE  IF registry \in {None, c} THEN Passes(c, "validate")
         ELSE Into(c, "close", registry, th[c].r, th[c].v, "validate")
<1>1. CASE registry \notin {None, c}
  <2> DEFINE s == [th[c] EXCEPT !.at = "close", !.c = registry, !.ret = "validate"]
  <2>1. c \in Threads /\ th[c] \in ThreadState
    BY DEF TypeInv, ThreadsOK, Threads
  <2>2. Sound(s) /\ s.at = "close" /\ s.c = registry /\ s.r = th[c].r /\ s.v = th[c].v /\ s.ret = "validate"
    BY <1>1, <2>1 DEF Sound, ThreadState, TypeInv, TypeOK, Places, OnConn
  <2>3. th' = [th EXCEPT ![c] = s]
    BY <1>1 DEF HelloRegister, Run, TypeInv, ThreadsOK
  <2>4. Into(c, s.at, s.c, s.r, s.v, s.ret)
    BY <2>1, <2>2, <2>3, MoveThread DEF TypeInv
  <2>5. QED
    BY <1>1, <2>2, <2>4
<1>2. CASE registry \in {None, c}
  BY <1>2, GotoMoves DEF TypeInv, HelloRegister, Places, OnConn, Home, Threads
<1>3. QED
  BY <1>1, <1>2

LEMMA HelloRevokedMoves ==
  ASSUME TypeInv, NEW c \in Conns, HelloRevoked(c)
  PROVE  Into(c, "close", c, th[c].r, th[c].v, "idle")
<1> DEFINE s == [th[c] EXCEPT !.at = "close", !.c = c, !.ret = "idle"]
<1>1. c \in Threads /\ th[c] \in ThreadState
  BY DEF TypeInv, ThreadsOK, Threads
<1>2. Sound(s) /\ s.at = "close" /\ s.c = c /\ s.r = th[c].r /\ s.v = th[c].v /\ s.ret = "idle"
  BY <1>1 DEF Sound, ThreadState, TypeInv, TypeOK, Places, OnConn
<1>3. th' = [th EXCEPT ![c] = s]
  BY  DEF HelloRevoked, Run, TypeInv, ThreadsOK
<1>4. Into(c, s.at, s.c, s.r, s.v, s.ret)
  BY <1>1, <1>2, <1>3, MoveThread DEF TypeInv
<1>5. QED
  BY <1>2, <1>4

LEMMA HelloConfirmedMoves ==
  ASSUME TypeInv, NEW c \in Conns, HelloConfirmed(c)
  PROVE  IF th[c].r = None THEN Into(c, "apply", c, th[c].r, th[c].v, th[c].ret)
         ELSE Into(c, "lookup", c, th[c].r, th[c].v, th[c].ret)
<1>1. c \in Threads /\ th[c] \in ThreadState
  BY DEF TypeInv, ThreadsOK, Threads
<1>2. PICK at \in {"apply", "lookup"} : at = IF th[c].r = None THEN "apply" ELSE "lookup"
  OBVIOUS
<1> DEFINE s == [th[c] EXCEPT !.at = at, !.c = c]
<1>3. Sound(s) /\ s.at = at /\ s.c = c /\ s.r = th[c].r /\ s.v = th[c].v /\ s.ret = th[c].ret
  BY <1>1 DEF Sound, ThreadState, Places, OnConn
<1>4. th' = [th EXCEPT ![c] = s]
  BY <1>2 DEF HelloConfirmed, TypeInv, ThreadsOK
<1>5. Into(c, s.at, s.c, s.r, s.v, s.ret)
  BY <1>1, <1>3, <1>4, MoveThread DEF TypeInv
<1>6. QED
  BY <1>2, <1>3, <1>5

LEMMA ReadFailsMoves ==
  ASSUME TypeInv, NEW c \in Conns, ReadFails(c)
  PROVE  Into(c, "close", c, th[c].r, th[c].v, "quit")
<1> DEFINE s == [th[c] EXCEPT !.at = "close", !.c = c, !.ret = "quit"]
<1>1. c \in Threads /\ th[c] \in ThreadState
  BY DEF TypeInv, ThreadsOK, Threads
<1>2. Sound(s) /\ s.at = "close" /\ s.c = c /\ s.r = th[c].r /\ s.v = th[c].v /\ s.ret = "quit"
  BY <1>1 DEF Sound, ThreadState, TypeInv, TypeOK, Places, OnConn
<1>3. th' = [th EXCEPT ![c] = s]
  BY  DEF ReadFails, Run, TypeInv, ThreadsOK
<1>4. Into(c, s.at, s.c, s.r, s.v, s.ret)
  BY <1>1, <1>2, <1>3, MoveThread DEF TypeInv
<1>5. QED
  BY <1>2, <1>4

LEMMA QuitLeaveMoves ==
  ASSUME TypeInv, NEW c \in Conns, QuitLeave(c)
  PROVE  Passes(c, "unregister")
  BY PlayersAssumption, GotoMoves, FinishMoves DEF TypeInv, ThreadsOK, Sound, At, QuitLeave,
     Threads, Places, OnConn, Home

LEMMA QuitUnregisterMoves ==
  ASSUME TypeInv, NEW c \in Conns, QuitUnregister(c)
  PROVE  Into(c, "dead", Self(c), None, 0, "free")
<1> DEFINE s == [Resting(c) EXCEPT !.at = "dead"]
<1>1. c \in Threads /\ Resting(c) \in ThreadState
  BY RestingState DEF Sound, Threads
<1>2. Sound(s) /\ s.at = "dead" /\ s.c = Self(c) /\ s.r = None /\ s.v = 0 /\ s.ret = "free"
  BY <1>1, RestingState DEF Sound, ThreadState, TypeInv, TypeOK, Places, OnConn
<1>3. th' = [th EXCEPT ![c] = s]
  BY  DEF QuitUnregister, Run, TypeInv, ThreadsOK
<1>4. Into(c, s.at, s.c, s.r, s.v, s.ret)
  BY <1>1, <1>2, <1>3, MoveThread DEF TypeInv
<1>5. QED
  BY <1>2, <1>4

LEMMA UpdateReadMoves ==
  ASSUME TypeInv, NEW t \in Tasks, NEW v \in 1 .. 3, UpdateRead(t, v)
  PROVE  \E n \in Nat : Into(t, "update", Self(t), None, n, "free")
<1>1. PICK n \in {0, 1} : Run(t, [Resting(t) EXCEPT !.at = "update", !.v = n])
  BY DEF UpdateRead
<1>2. t \in Threads /\ n \in Nat /\ Resting(t) \in ThreadState
  BY RestingState DEF Sound, Threads
<1> DEFINE s == [Resting(t) EXCEPT !.at = "update", !.v = n]
<1>3. Sound(s) /\ s.at = "update" /\ s.c = Self(t) /\ s.r = None /\ s.v = n /\ s.ret = "free"
  BY <1>2, RestingState DEF Sound, ThreadState, Places, OnConn
<1>4. Into(t, s.at, s.c, s.r, s.v, s.ret)
  BY <1>1, <1>2, <1>3, MoveThread DEF TypeInv, Run
<1>5. QED
  BY <1>2, <1>3, <1>4

LEMMA UpdateWriteMoves ==
  ASSUME TypeInv, NEW t \in Tasks, UpdateWrite(t)
  PROVE  IF row.exists THEN Passes(t, "reread") ELSE Rests(t)
  BY PlayersAssumption, GotoMoves, FinishMoves DEF TypeInv, ThreadsOK, Sound, At, UpdateWrite,
     Threads, Places, OnConn, Home

LEMMA UpdateRereadMoves ==
  ASSUME TypeInv, NEW t \in Tasks, UpdateReread(t)
  PROVE  IF row.exists /\ ~row.active THEN Passes(t, "revoke") ELSE Rests(t)
  BY PlayersAssumption, GotoMoves, FinishMoves DEF TypeInv, ThreadsOK, Sound, At, UpdateReread,
     Threads, Places, OnConn, Home

LEMMA RotateKeyMoves ==
  ASSUME TypeInv, NEW t \in Tasks, RotateKey(t)
  PROVE  Passes(t, "revoke")
  BY PlayersAssumption, GotoMoves, FinishMoves DEF TypeInv, ThreadsOK, Sound, At, RotateKey,
     Threads, Places, OnConn, Home

LEMMA DeletePlayerMoves ==
  ASSUME TypeInv, NEW t \in Tasks, DeletePlayer(t)
  PROVE  Passes(t, "revoke")
  BY PlayersAssumption, GotoMoves, FinishMoves DEF TypeInv, ThreadsOK, Sound, At, DeletePlayer,
     Threads, Places, OnConn, Home

LEMMA RevokeMoves ==
  ASSUME TypeInv, NEW t \in Tasks, Revoke(t)
  PROVE  IF registry = None THEN Rests(t)
         ELSE Into(t, "close", registry, th[t].r, th[t].v, "free")
<1>1. CASE registry # None
  <2> DEFINE s == [th[t] EXCEPT !.at = "close", !.c = registry, !.ret = "free"]
  <2>1. t \in Threads /\ th[t] \in ThreadState
    BY DEF TypeInv, ThreadsOK, Threads
  <2>2. Sound(s) /\ s.at = "close" /\ s.c = registry /\ s.r = th[t].r /\ s.v = th[t].v /\ s.ret = "free"
    BY <1>1, <2>1 DEF Sound, ThreadState, TypeInv, TypeOK, Places, OnConn
  <2>3. th' = [th EXCEPT ![t] = s]
    BY <1>1 DEF Revoke, Run, TypeInv, ThreadsOK
  <2>4. Into(t, s.at, s.c, s.r, s.v, s.ret)
    BY <2>1, <2>2, <2>3, MoveThread DEF TypeInv
  <2>5. QED
    BY <1>1, <2>2, <2>4
<1>2. CASE ~(registry # None)
  BY <1>2, FinishMoves DEF TypeInv, Threads, Revoke
<1>3. QED
  BY <1>1, <1>2

LEMMA BindRoomPlayerMoves ==
  ASSUME TypeInv, NEW t \in Tasks, NEW r \in Rooms, BindRoomPlayer(t, r)
  PROVE  Into(t, "lookup", Self(t), r, 0, "free")
<1> DEFINE s == [Resting(t) EXCEPT !.at = "lookup", !.r = r]
<1>1. t \in Threads /\ Resting(t) \in ThreadState
  BY RestingState DEF Sound, Threads
<1>2. Sound(s) /\ s.at = "lookup" /\ s.c = Self(t) /\ s.r = r /\ s.v = 0 /\ s.ret = "free"
  BY <1>1, RestingState DEF Sound, ThreadState, TypeInv, TypeOK, Places, OnConn
<1>3. th' = [th EXCEPT ![t] = s]
  BY  DEF BindRoomPlayer, Run, TypeInv, ThreadsOK
<1>4. Into(t, s.at, s.c, s.r, s.v, s.ret)
  BY <1>1, <1>2, <1>3, MoveThread DEF TypeInv
<1>5. QED
  BY <1>2, <1>4

LEMMA SetRoomOutputVolumeMoves ==
  ASSUME TypeInv, NEW t \in Tasks, NEW r \in Rooms, SetRoomOutputVolume(t, r)
  PROVE  Into(t, "targets", Self(t), r, stored + 1, "free")
<1>1. t \in Threads /\ stored + 1 \in Nat /\ Resting(t) \in ThreadState
  BY RestingState DEF TypeInv, TypeOK, Sound, Threads
<1>2. PICK v \in Nat : v = stored + 1
  BY <1>1
<1> DEFINE s == [Resting(t) EXCEPT !.at = "targets", !.r = r, !.v = v]
<1>3. Sound(s) /\ s.at = "targets" /\ s.c = Self(t) /\ s.r = r /\ s.v = v /\ s.ret = "free"
  BY <1>1, RestingState DEF Sound, ThreadState, Places, OnConn
<1>4. th' = [th EXCEPT ![t] = s]
  BY <1>2 DEF SetRoomOutputVolume, Run, TypeInv, ThreadsOK
<1>5. Into(t, s.at, s.c, s.r, s.v, s.ret)
  BY <1>1, <1>3, <1>4, MoveThread DEF TypeInv
<1>6. QED
  BY <1>2, <1>3, <1>5

LEMMA UnbindRoomPlayerMoves ==
  ASSUME TypeInv, NEW t \in Tasks, UnbindRoomPlayer(t)
  PROVE  Into(t, "check", Self(t), binding, 0, "free")
<1> DEFINE s == [Resting(t) EXCEPT !.at = "check", !.r = binding]
<1>1. t \in Threads /\ Resting(t) \in ThreadState
  BY RestingState DEF Sound, Threads
<1>2. Sound(s) /\ s.at = "check" /\ s.c = Self(t) /\ s.r = binding /\ s.v = 0 /\ s.ret = "free"
  BY <1>1, RestingState DEF Sound, ThreadState, TypeInv, TypeOK, Places, OnConn
<1>3. th' = [th EXCEPT ![t] = s]
  BY  DEF UnbindRoomPlayer, Run, TypeInv, ThreadsOK
<1>4. Into(t, s.at, s.c, s.r, s.v, s.ret)
  BY <1>1, <1>2, <1>3, MoveThread DEF TypeInv
<1>5. QED
  BY <1>2, <1>4

LEMMA UnbindCheckMoves ==
  ASSUME TypeInv, NEW t \in Tasks, UnbindCheck(t)
  PROVE  Rests(t) \/ Into(t, "lookup", th[t].c, None, th[t].v, th[t].ret)
<1>1. CASE registry # None /\ room[registry] = th[t].r
  <2> DEFINE s == [th[t] EXCEPT !.at = "lookup", !.r = None]
  <2>1. t \in Threads /\ th[t] \in ThreadState
    BY DEF TypeInv, ThreadsOK, Threads
  <2>2. Sound(s) /\ s.at = "lookup" /\ s.c = th[t].c /\ s.r = None /\ s.v = th[t].v /\ s.ret = th[t].ret
    BY <1>1, <2>1 DEF Sound, ThreadState, TypeInv, TypeOK, Places, OnConn
  <2>3. th' = [th EXCEPT ![t] = s]
    BY <1>1 DEF UnbindCheck, Run, TypeInv, ThreadsOK
  <2>4. Into(t, s.at, s.c, s.r, s.v, s.ret)
    BY <2>1, <2>2, <2>3, MoveThread DEF TypeInv
  <2>5. QED
    BY <1>1, <2>2, <2>4
<1>2. CASE ~(registry # None /\ room[registry] = th[t].r)
  BY <1>2, FinishMoves DEF TypeInv, Threads, UnbindCheck
<1>3. QED
  BY <1>1, <1>2

LEMMA CommandTargetsMoves ==
  ASSUME TypeInv, NEW t \in Tasks, CommandTargets(t)
  PROVE  IF RoomPlayers(th[t].r) = {} THEN Rests(t)
         ELSE Into(t, "send", registry, th[t].r, th[t].v, th[t].ret)
<1>1. CASE RoomPlayers(th[t].r) # {}
  <2> DEFINE s == [th[t] EXCEPT !.at = "send", !.c = registry]
  <2>1. t \in Threads /\ th[t] \in ThreadState
    BY DEF TypeInv, ThreadsOK, Threads
  <2>2. Sound(s) /\ s.at = "send" /\ s.c = registry /\ s.r = th[t].r /\ s.v = th[t].v /\ s.ret = th[t].ret
    BY <1>1, <2>1 DEF Sound, ThreadState, TypeInv, TypeOK, Places, OnConn, RoomPlayers
  <2>3. th' = [th EXCEPT ![t] = s]
    BY <1>1 DEF CommandTargets, Run, TypeInv, ThreadsOK, RoomPlayers
  <2>4. Into(t, s.at, s.c, s.r, s.v, s.ret)
    BY <2>1, <2>2, <2>3, MoveThread DEF TypeInv
  <2>5. QED
    BY <1>1, <2>2, <2>4
<1>2. CASE ~(RoomPlayers(th[t].r) # {})
  BY <1>2, FinishMoves DEF TypeInv, Threads, CommandTargets, RoomPlayers
<1>3. QED
  BY <1>1, <1>2

LEMMA MoveLookupMoves ==
  ASSUME TypeInv, NEW t \in Threads, MoveLookup(t)
  PROVE  IF registry # None THEN Into(t, "leave", registry, th[t].r, th[t].v, th[t].ret)
         ELSE IF t \in Conns THEN Into(t, "apply", Self(t), th[t].r, th[t].v, th[t].ret)
         ELSE Into(t, "free", Self(t), th[t].r, th[t].v, th[t].ret)
<1>1. CASE registry # None
  <2> DEFINE s == [th[t] EXCEPT !.at = "leave", !.c = registry]
  <2>1. t \in Threads /\ th[t] \in ThreadState
    BY DEF TypeInv, ThreadsOK, Threads
  <2>2. Sound(s) /\ s.at = "leave" /\ s.c = registry /\ s.r = th[t].r /\ s.v = th[t].v /\ s.ret = th[t].ret
    BY <1>1, <2>1 DEF Sound, ThreadState, TypeInv, TypeOK, Places, OnConn
  <2>3. th' = [th EXCEPT ![t] = s]
    BY <1>1 DEF MoveLookup, Run, TypeInv, ThreadsOK
  <2>4. Into(t, s.at, s.c, s.r, s.v, s.ret)
    BY <2>1, <2>2, <2>3, MoveThread DEF TypeInv
  <2>5. QED
    BY <1>1, <2>2, <2>4
<1>2. CASE registry = None
  <2>1. PICK at \in {"apply", "free"} : at = IF t \in Conns THEN "apply" ELSE Home(t)
    BY DEF Home
  <2> DEFINE s == [th[t] EXCEPT !.at = at, !.c = Self(t)]
  <2>2. th[t] \in ThreadState /\ Self(t) \in Conns \cup {None} /\ (at = "apply" => Self(t) \in Conns)
    BY <2>1 DEF TypeInv, ThreadsOK, Self, Home
  <2>3. Sound(s) /\ s.at = at /\ s.c = Self(t) /\ s.r = th[t].r /\ s.v = th[t].v /\ s.ret = th[t].ret
    BY <2>2 DEF Sound, ThreadState, Places, OnConn
  <2>4. th' = [th EXCEPT ![t] = s]
    BY <1>2, <2>1 DEF MoveLookup, TypeInv, ThreadsOK
  <2>5. Into(t, s.at, s.c, s.r, s.v, s.ret)
    BY <2>3, <2>4, MoveThread DEF TypeInv
  <2>6. QED
    BY <1>2, <2>1, <2>3, <2>5 DEF Home
<1>3. QED
  BY <1>1, <1>2

LEMMA MoveLeaveMoves ==
  ASSUME TypeInv, NEW t \in Threads, MoveLeave(t)
  PROVE  Passes(t, "set")
  BY PlayersAssumption, GotoMoves, FinishMoves DEF TypeInv, ThreadsOK, Sound, At, MoveLeave,
     Threads, Places, OnConn, Home

LEMMA MoveSetMoves ==
  ASSUME TypeInv, NEW t \in Threads, MoveSet(t)
  PROVE  IF th[t].r = None THEN Rests(t) ELSE Passes(t, "join")
<1>1. th[t].c \in Conns /\ th[t].r \in Rooms \cup {None} /\ Home(t) \in Places \ OnConn /\ Home(t) # "join"
  BY DEF TypeInv, ThreadsOK, Sound, ThreadState, OnConn, Places, Home, MoveSet, At
<1>2. "join" \in Places
  BY DEF Places, OnConn
<1>3. CASE th[t].r = None
  BY <1>1, <1>3, GotoMoves DEF TypeInv, MoveSet
<1>4. CASE th[t].r # None
  BY <1>1, <1>2, <1>4, GotoMoves DEF TypeInv, MoveSet, Home
<1>5. QED
  BY <1>3, <1>4

LEMMA MoveJoinMoves ==
  ASSUME TypeInv, NEW t \in Threads, MoveJoin(t)
  PROVE  Passes(t, "apply")
  BY PlayersAssumption, GotoMoves, FinishMoves DEF TypeInv, ThreadsOK, Sound, At, MoveJoin,
     Threads, Places, OnConn, Home

LEMMA ApplyReadMoves ==
  ASSUME TypeInv, NEW t \in Threads, ApplyRead(t)
  PROVE  LET r == room[th[t].c] IN
         IF ~player[th[t].c] \/ r = None \/ output[r] = 0 THEN Rests(t)
         ELSE Into(t, "send", th[t].c, th[t].r, output[r], th[t].ret)
<1> DEFINE r == room[th[t].c]
<1> DEFINE s == [th[t] EXCEPT !.at = "send", !.v = output[r]]
<1>1. th[t] \in ThreadState /\ th[t].c \in Conns
  BY DEF TypeInv, ThreadsOK, ApplyRead, At, Sound, OnConn
<1>2. CASE ~player[th[t].c] \/ r = None \/ output[r] = 0
  BY <1>2, FinishMoves DEF TypeInv, ApplyRead
<1>3. CASE ~(~player[th[t].c] \/ r = None \/ output[r] = 0)
  <2>1. output[r] \in Nat
    BY <1>1, <1>3 DEF TypeInv, TypeOK
  <2>2. Sound(s) /\ s.at = "send" /\ s.c = th[t].c /\ s.r = th[t].r /\ s.v = output[r] /\ s.ret = th[t].ret
    BY <1>1, <2>1 DEF Sound, ThreadState, Places, OnConn
  <2>3. th' = [th EXCEPT ![t] = s]
    BY <1>3 DEF ApplyRead, TypeInv, ThreadsOK
  <2>4. Into(t, s.at, s.c, s.r, s.v, s.ret)
    BY <2>2, <2>3, MoveThread DEF TypeInv
  <2>5. QED
    BY <1>3, <2>2, <2>4
<1>4. QED
  BY <1>2, <1>3

LEMMA SendVolumeMoves ==
  ASSUME TypeInv, NEW t \in Threads, SendVolume(t)
  PROVE  Rests(t)
  BY PlayersAssumption, GotoMoves, FinishMoves DEF TypeInv, ThreadsOK, Sound, At, SendVolume,
     Threads, Places, OnConn, Home

(* ------------------------------- types ------------------------------------- *)
LEMMA InitType == Init => TypeInv
<1> SUFFICES ASSUME Init PROVE TypeInv
  OBVIOUS
<1>1. ASSUME NEW t \in Threads PROVE Sound(th[t]) /\ (th[t].at = "off" => t \in Conns)
  <2>1. CASE t \in Conns
    <3>1. th[t] = [Resting(t) EXCEPT !.at = "off"]
      BY <2>1 DEF Init
    <3>2. QED
      BY <2>1, <3>1, RestingState DEF Sound, ThreadState, Places, OnConn
  <2>2. CASE t \notin Conns
    <3>1. th[t] = Resting(t)
      BY <2>2, RestingState DEF Init, Sound, ThreadState
    <3>2. QED
      BY <2>2, <3>1, RestingState DEF Sound, Resting
  <2>3. QED
    BY <2>1, <2>2
<1>2. th \in [Threads -> ThreadState]
  BY <1>1 DEF Init, Sound
<1>3. row \in [exists : BOOLEAN, key : Nat, active : BOOLEAN] /\ issued \in Nat
  <2>1. CASE row = [exists |-> TRUE, key |-> 1, active |-> TRUE]
    BY <2>1 DEF Init
  <2>2. CASE row = [exists |-> TRUE, key |-> 0, active |-> FALSE]
    BY <2>2 DEF Init
  <2>3. QED
    BY <2>1, <2>2 DEF Init
<1>4. TypeOK
  BY <1>3 DEF Init, TypeOK
<1>5. ThreadsOK
  BY <1>1, <1>2 DEF ThreadsOK, Init
<1>6. QED
  BY <1>4, <1>5 DEF TypeInv

LEMMA StepType == TypeInv /\ [Next]_vars => TypeInv'
<1> SUFFICES ASSUME TypeInv, [Next]_vars PROVE TypeInv'
  OBVIOUS
<1> USE DEF TypeInv, store, conn, counters
<1>1. ASSUME NEW t \in Threads, Disconnect(t) PROVE TypeInv'
  <2>1. TypeOK'
    BY <1>1 DEF Disconnect, TypeOK, ThreadsOK, Sound, OnConn, ThreadState, At, Threads
  <2>2. ThreadsOK'
    BY <1>1, DisconnectMoves, MovedThreads DEF Disconnect, TypeOK, Threads, Rests, Passes,
       Returns, Home, Places, ThreadsOK, Sound, ThreadState
  <2>3. QED
    BY <2>1, <2>2
<1>2. ASSUME NEW t \in Threads, CloseOnce(t) PROVE TypeInv'
  <2>1. TypeOK'
    BY <1>2 DEF CloseOnce, TypeOK, ThreadsOK, Sound, OnConn, ThreadState, At, Threads
  <2>2. th[t].ret # "off"
    BY DEF ThreadsOK, ThreadState
  <2>3. ThreadsOK'
    BY <1>2, <2>2, CloseOnceMoves, MovedThreads DEF CloseOnce, Rests, Passes, Returns, Home
  <2>4. QED
    BY <2>1, <2>3
<1>3. ASSUME NEW c \in Conns, AuthPlayer(c) PROVE TypeInv'
  <2>1. TypeOK'
    BY <1>3 DEF AuthPlayer, TypeOK, ThreadsOK, Sound, OnConn, ThreadState, At, Threads
  <2>2. ThreadsOK'
    BY <1>3, AuthPlayerMoves, MovedThreads DEF AuthPlayer, TypeOK, Threads, Rests, Passes,
       Returns, Home, Places, ThreadsOK, Sound, ThreadState
  <2>3. QED
    BY <2>1, <2>2
<1>4. ASSUME NEW c \in Conns, HelloBinding(c) PROVE TypeInv'
  <2>1. TypeOK'
    BY <1>4 DEF HelloBinding, TypeOK, ThreadsOK, Sound, OnConn, ThreadState, At, Threads
  <2>2. ThreadsOK'
    BY <1>4, HelloBindingMoves, MovedThreads DEF HelloBinding, TypeOK, Threads, Rests, Passes,
       Returns, Home, Places, ThreadsOK, Sound, ThreadState
  <2>3. QED
    BY <2>1, <2>2
<1>5. ASSUME NEW c \in Conns, HelloRegister(c) PROVE TypeInv'
  <2>1. TypeOK'
    BY <1>5 DEF HelloRegister, TypeOK, ThreadsOK, Sound, OnConn, ThreadState, At, Threads
  <2>2. ThreadsOK'
    BY <1>5, HelloRegisterMoves, MovedThreads DEF HelloRegister, TypeOK, Threads, Rests, Passes,
       Returns, Home, Places, ThreadsOK, Sound, ThreadState
  <2>3. QED
    BY <2>1, <2>2
<1>6. ASSUME NEW c \in Conns, HelloRevoked(c) PROVE TypeInv'
  <2>1. TypeOK'
    BY <1>6 DEF HelloRevoked, TypeOK, ThreadsOK, Sound, OnConn, ThreadState, At, Threads,
       Unregistered
  <2>2. ThreadsOK'
    BY <1>6, HelloRevokedMoves, MovedThreads DEF HelloRevoked, TypeOK, Threads, Rests, Passes,
       Returns, Home, Places, ThreadsOK, Sound, ThreadState
  <2>3. QED
    BY <2>1, <2>2
<1>7. ASSUME NEW c \in Conns, HelloConfirmed(c) PROVE TypeInv'
  <2>1. TypeOK'
    BY <1>7 DEF HelloConfirmed, TypeOK, ThreadsOK, Sound, OnConn, ThreadState, At, Threads
  <2>2. ThreadsOK'
    BY <1>7, HelloConfirmedMoves, MovedThreads DEF HelloConfirmed, TypeOK, Threads, Rests, Passes,
       Returns, Home, Places, ThreadsOK, Sound, ThreadState
  <2>3. QED
    BY <2>1, <2>2
<1>8. ASSUME NEW c \in Conns, ReadFails(c) PROVE TypeInv'
  <2>1. TypeOK'
    BY <1>8 DEF ReadFails, TypeOK, ThreadsOK, Sound, OnConn, ThreadState, At, Threads
  <2>2. ThreadsOK'
    BY <1>8, ReadFailsMoves, MovedThreads DEF ReadFails, TypeOK, Threads, Rests, Passes, Returns,
       Home, Places, ThreadsOK, Sound, ThreadState
  <2>3. QED
    BY <2>1, <2>2
<1>9. ASSUME NEW c \in Conns, QuitLeave(c) PROVE TypeInv'
  <2>1. TypeOK'
    BY <1>9 DEF QuitLeave, TypeOK, ThreadsOK, Sound, OnConn, ThreadState, At, Threads
  <2>2. ThreadsOK'
    BY <1>9, QuitLeaveMoves, MovedThreads DEF QuitLeave, TypeOK, Threads, Rests, Passes, Returns,
       Home, Places, ThreadsOK, Sound, ThreadState
  <2>3. QED
    BY <2>1, <2>2
<1>10. ASSUME NEW c \in Conns, QuitUnregister(c) PROVE TypeInv'
  <2>1. TypeOK'
    BY <1>10 DEF QuitUnregister, TypeOK, ThreadsOK, Sound, OnConn, ThreadState, At, Threads,
       Unregistered
  <2>2. ThreadsOK'
    BY <1>10, QuitUnregisterMoves, MovedThreads DEF QuitUnregister, TypeOK, Threads, Rests,
       Passes, Returns, Home, Places, ThreadsOK, Sound, ThreadState
  <2>3. QED
    BY <2>1, <2>2
<1>11. ASSUME NEW t \in Tasks, CreatePlayer(t) PROVE TypeInv'
  <2>1. TypeOK'
    BY <1>11 DEF CreatePlayer, TypeOK, ThreadsOK, Sound, OnConn, ThreadState, At, Threads,
       InsertPlayer, Request
  <2>2. ThreadsOK'
    BY <1>11 DEF CreatePlayer, ThreadsOK, Request
  <2>3. QED
    BY <2>1, <2>2
<1>12. ASSUME NEW t \in Tasks, NEW v \in 1 .. 3, UpdateRead(t, v) PROVE TypeInv'
  <2>1. TypeOK'
    BY <1>12 DEF UpdateRead, TypeOK, ThreadsOK, Sound, OnConn, ThreadState, At, Threads, Request
  <2>2. ThreadsOK'
    BY <1>12, UpdateReadMoves, MovedThreads DEF UpdateRead, TypeOK, Threads, Rests, Passes,
       Returns, Home, Places, ThreadsOK, Sound, ThreadState
  <2>3. QED
    BY <2>1, <2>2
<1>13. ASSUME NEW t \in Tasks, UpdateWrite(t) PROVE TypeInv'
  <2>1. TypeOK'
    BY <1>13 DEF UpdateWrite, TypeOK, ThreadsOK, Sound, OnConn, ThreadState, At, Threads, SaveActive
  <2>2. ThreadsOK'
    BY <1>13, UpdateWriteMoves, MovedThreads DEF UpdateWrite, TypeOK, Threads, Rests, Passes,
       Returns, Home, Places, ThreadsOK, Sound, ThreadState
  <2>3. QED
    BY <2>1, <2>2
<1>14. ASSUME NEW t \in Tasks, UpdateReread(t) PROVE TypeInv'
  <2>1. TypeOK'
    BY <1>14 DEF UpdateReread, TypeOK, ThreadsOK, Sound, OnConn, ThreadState, At, Threads
  <2>2. ThreadsOK'
    BY <1>14, UpdateRereadMoves, MovedThreads DEF UpdateReread, TypeOK, Threads, Rests, Passes,
       Returns, Home, Places, ThreadsOK, Sound, ThreadState
  <2>3. QED
    BY <2>1, <2>2
<1>15. ASSUME NEW t \in Tasks, RotateKey(t) PROVE TypeInv'
  <2>1. TypeOK'
    BY <1>15 DEF RotateKey, TypeOK, ThreadsOK, Sound, OnConn, ThreadState, At, Threads, SaveToken,
       Request
  <2>2. ThreadsOK'
    BY <1>15, RotateKeyMoves, MovedThreads DEF RotateKey, TypeOK, Threads, Rests, Passes, Returns,
       Home, Places, ThreadsOK, Sound, ThreadState
  <2>3. QED
    BY <2>1, <2>2
<1>16. ASSUME NEW t \in Tasks, DeletePlayer(t) PROVE TypeInv'
  <2>1. TypeOK'
    BY <1>16 DEF DeletePlayer, TypeOK, ThreadsOK, Sound, OnConn, ThreadState, At, Threads,
       RemovePlayer, Request
  <2>2. ThreadsOK'
    BY <1>16, DeletePlayerMoves, MovedThreads DEF DeletePlayer, TypeOK, Threads, Rests, Passes,
       Returns, Home, Places, ThreadsOK, Sound, ThreadState
  <2>3. QED
    BY <2>1, <2>2
<1>17. ASSUME NEW t \in Tasks, Revoke(t) PROVE TypeInv'
  <2>1. TypeOK'
    BY <1>17 DEF Revoke, TypeOK, ThreadsOK, Sound, OnConn, ThreadState, At, Threads
  <2>2. ThreadsOK'
    BY <1>17, RevokeMoves, MovedThreads DEF Revoke, TypeOK, Threads, Rests, Passes, Returns, Home,
       Places, ThreadsOK, Sound, ThreadState
  <2>3. QED
    BY <2>1, <2>2
<1>18. ASSUME NEW t \in Tasks, NEW r \in Rooms, BindRoomPlayer(t, r) PROVE TypeInv'
  <2>1. TypeOK'
    BY <1>18 DEF BindRoomPlayer, TypeOK, ThreadsOK, Sound, OnConn, ThreadState, At, Threads,
       SaveBinding, Request
  <2>2. ThreadsOK'
    BY <1>18, BindRoomPlayerMoves, MovedThreads DEF BindRoomPlayer, TypeOK, Threads, Rests,
       Passes, Returns, Home, Places, ThreadsOK, Sound, ThreadState
  <2>3. QED
    BY <2>1, <2>2
<1>19. ASSUME NEW t \in Tasks, NEW r \in Rooms, SetRoomOutputVolume(t, r) PROVE TypeInv'
  <2>1. TypeOK'
    BY <1>19 DEF SetRoomOutputVolume, TypeOK, ThreadsOK, Sound, OnConn, ThreadState, At, Threads,
       SaveVolume, Request
  <2>2. ThreadsOK'
    BY <1>19, SetRoomOutputVolumeMoves, MovedThreads DEF SetRoomOutputVolume, TypeOK, Threads,
       Rests, Passes, Returns, Home, Places, ThreadsOK, Sound, ThreadState
  <2>3. QED
    BY <2>1, <2>2
<1>20. ASSUME NEW t \in Tasks, UnbindRoomPlayer(t) PROVE TypeInv'
  <2>1. TypeOK'
    BY <1>20 DEF UnbindRoomPlayer, TypeOK, ThreadsOK, Sound, OnConn, ThreadState, At, Threads,
       RemoveBinding, Request
  <2>2. ThreadsOK'
    BY <1>20, UnbindRoomPlayerMoves, MovedThreads DEF UnbindRoomPlayer, TypeOK, Threads, Rests,
       Passes, Returns, Home, Places, ThreadsOK, Sound, ThreadState
  <2>3. QED
    BY <2>1, <2>2
<1>21. ASSUME NEW t \in Tasks, UnbindCheck(t) PROVE TypeInv'
  <2>1. TypeOK'
    BY <1>21 DEF UnbindCheck, TypeOK, ThreadsOK, Sound, OnConn, ThreadState, At, Threads
  <2>2. ThreadsOK'
    BY <1>21, UnbindCheckMoves, MovedThreads DEF UnbindCheck, TypeOK, Threads, Rests, Passes,
       Returns, Home, Places, ThreadsOK, Sound, ThreadState
  <2>3. QED
    BY <2>1, <2>2
<1>22. ASSUME NEW t \in Tasks, CommandTargets(t) PROVE TypeInv'
  <2>1. TypeOK'
    BY <1>22 DEF CommandTargets, TypeOK, ThreadsOK, Sound, OnConn, ThreadState, At, Threads
  <2>2. ThreadsOK'
    BY <1>22, CommandTargetsMoves, MovedThreads DEF CommandTargets, TypeOK, Threads, Rests,
       Passes, Returns, Home, Places, ThreadsOK, Sound, ThreadState
  <2>3. QED
    BY <2>1, <2>2
<1>23. ASSUME NEW t \in Threads, MoveLookup(t) PROVE TypeInv'
  <2>1. TypeOK'
    BY <1>23 DEF MoveLookup, TypeOK, ThreadsOK, Sound, OnConn, ThreadState, At, Threads
  <2>2. ThreadsOK'
    BY <1>23, MoveLookupMoves, MovedThreads DEF MoveLookup, TypeOK, Threads, Rests, Passes,
       Returns, Home, Places, ThreadsOK, Sound, ThreadState
  <2>3. QED
    BY <2>1, <2>2
<1>24. ASSUME NEW t \in Threads, MoveLeave(t) PROVE TypeInv'
  <2>1. TypeOK'
    BY <1>24 DEF MoveLeave, TypeOK, ThreadsOK, Sound, OnConn, ThreadState, At, Threads
  <2>2. ThreadsOK'
    BY <1>24, MoveLeaveMoves, MovedThreads DEF MoveLeave, TypeOK, Threads, Rests, Passes, Returns,
       Home, Places, ThreadsOK, Sound, ThreadState
  <2>3. QED
    BY <2>1, <2>2
<1>25. ASSUME NEW t \in Threads, MoveSet(t) PROVE TypeInv'
  <2>1. TypeOK'
    BY <1>25 DEF MoveSet, TypeOK, ThreadsOK, Sound, OnConn, ThreadState, At, Threads
  <2>2. ThreadsOK'
    BY <1>25, MoveSetMoves, MovedThreads DEF MoveSet, TypeOK, Threads, Rests, Passes, Returns,
       Home, Places, ThreadsOK, Sound, ThreadState
  <2>3. QED
    BY <2>1, <2>2
<1>26. ASSUME NEW t \in Threads, MoveJoin(t) PROVE TypeInv'
  <2>1. TypeOK'
    BY <1>26 DEF MoveJoin, TypeOK, ThreadsOK, Sound, OnConn, ThreadState, At, Threads
  <2>2. ThreadsOK'
    BY <1>26, MoveJoinMoves, MovedThreads DEF MoveJoin, TypeOK, Threads, Rests, Passes, Returns,
       Home, Places, ThreadsOK, Sound, ThreadState
  <2>3. QED
    BY <2>1, <2>2
<1>27. ASSUME NEW t \in Threads, ApplyRead(t) PROVE TypeInv'
  <2>1. TypeOK'
    BY <1>27 DEF ApplyRead, TypeOK, ThreadsOK, Sound, OnConn, ThreadState, At, Threads
  <2>2. ThreadsOK'
    BY <1>27, ApplyReadMoves, MovedThreads DEF ApplyRead, TypeOK, Threads, Rests, Passes, Returns,
       Home, Places, ThreadsOK, Sound, ThreadState
  <2>3. QED
    BY <2>1, <2>2
<1>28. ASSUME NEW t \in Threads, SendVolume(t) PROVE TypeInv'
  <2>1. TypeOK'
    BY <1>28 DEF SendVolume, TypeOK, ThreadsOK, Sound, OnConn, ThreadState, At, Threads
  <2>2. ThreadsOK'
    BY <1>28, SendVolumeMoves, MovedThreads DEF SendVolume, TypeOK, Threads, Rests, Passes,
       Returns, Home, Places, ThreadsOK, Sound, ThreadState
  <2>3. QED
    BY <2>1, <2>2
<1>29. CASE UNCHANGED vars
  BY <1>29 DEF vars, TypeOK, ThreadsOK
<1>30. QED
  BY <1>1, <1>2, <1>3, <1>4, <1>5, <1>6, <1>7, <1>8, <1>9, <1>10, <1>11, <1>12, <1>13, <1>14,
     <1>15, <1>16, <1>17, <1>18, <1>19, <1>20, <1>21, <1>22, <1>23, <1>24, <1>25, <1>26, <1>27,
     <1>28, <1>29 DEF Next, ReadLoop, Handler, Move, Threads

(* -------------------- what a step does to the registry -------------------- *)
\* A frame lemma is what the steps that do not touch an invariant's state have in
\* common; the others have a step of their own.
LEMMA HolderFrame ==
  ASSUME TypeInv, HolderIsPlayer, NEW t \in Threads, Alone(t),
         th'[t].at # "dead", registry' = registry, player' = player
  PROVE  HolderIsPlayer'
  BY DEF HolderIsPlayer, Alone, At, TypeInv, TypeOK, Threads

LEMMA StepHolder == TypeInv /\ HolderIsPlayer /\ [Next]_vars => HolderIsPlayer'
<1> SUFFICES ASSUME TypeInv /\ HolderIsPlayer, [Next]_vars PROVE HolderIsPlayer'
  OBVIOUS
<1> USE PlayersAssumption DEF store, conn, counters
<1>1. ASSUME NEW t \in Threads, Disconnect(t) PROVE HolderIsPlayer'
  <2>1. th[t].ret # "dead"
    BY DEF TypeInv, ThreadsOK, ThreadState
  <2>2. QED
    BY <1>1, <2>1, DisconnectMoves, HolderFrame DEF Disconnect, Into, Rests, Passes, Returns, Home
<1>2. ASSUME NEW t \in Threads, CloseOnce(t) PROVE HolderIsPlayer'
  <2>1. th[t].ret # "dead"
    BY DEF TypeInv, ThreadsOK, ThreadState
  <2>2. QED
    BY <1>2, <2>1, CloseOnceMoves, HolderFrame DEF CloseOnce, Into, Rests, Passes, Returns, Home
<1>3. ASSUME NEW c \in Conns, AuthPlayer(c) PROVE HolderIsPlayer'
  BY <1>3, AuthPlayerMoves, HolderFrame DEF AuthPlayer, Into, Rests, Passes, Returns, Home, Self,
     Threads, At, Resolves
<1>4. ASSUME NEW c \in Conns, HelloBinding(c) PROVE HolderIsPlayer'
  BY <1>4, HelloBindingMoves, HolderFrame DEF HelloBinding, Into, Rests, Passes, Returns, Home,
     Self, Threads, At
<1>5. ASSUME NEW c \in Conns, HelloRegister(c) PROVE HolderIsPlayer'
  BY <1>5, HelloRegisterMoves DEF HelloRegister, HolderIsPlayer, Into, Passes, At, TypeInv, TypeOK
<1>6. ASSUME NEW c \in Conns, HelloRevoked(c) PROVE HolderIsPlayer'
  <2>1. registry # c => registry' = registry /\ player'[registry] = player[registry]
    BY <1>6 DEF HelloRevoked, Unregistered, TypeInv, TypeOK
  <2>2. registry = c => registry' = None
    BY <1>6 DEF HelloRevoked, Unregistered, HolderIsPlayer
  <2>3. Alone(c)
    BY <1>6, HelloRevokedMoves DEF Into
  <2>4. QED
    BY <2>1, <2>2, <2>3 DEF HolderIsPlayer, At, Alone, TypeInv, TypeOK, Threads
<1>7. ASSUME NEW c \in Conns, HelloConfirmed(c) PROVE HolderIsPlayer'
  BY <1>7, HelloConfirmedMoves, HolderFrame DEF HelloConfirmed, Into, Rests, Passes, Returns,
     Home, Self, Threads, At, KeyValid, Resolves
<1>8. ASSUME NEW c \in Conns, ReadFails(c) PROVE HolderIsPlayer'
  BY <1>8, ReadFailsMoves, HolderFrame DEF ReadFails, Into, Rests, Passes, Returns, Home, Self,
     Threads, At
<1>9. ASSUME NEW c \in Conns, QuitLeave(c) PROVE HolderIsPlayer'
  BY <1>9, QuitLeaveMoves, HolderFrame DEF QuitLeave, Into, Rests, Passes, Returns, Home, Self,
     Threads, At
<1>10. ASSUME NEW c \in Conns, QuitUnregister(c) PROVE HolderIsPlayer'
  <2>1. registry = c => registry' = None
    BY <1>10 DEF QuitUnregister, Unregistered, HolderIsPlayer
  <2>2. registry # c => registry' = registry
    BY <1>10 DEF QuitUnregister, Unregistered
  <2>3. player' = player /\ Alone(c)
    BY <1>10, QuitUnregisterMoves DEF QuitUnregister, Into
  <2>4. QED
    BY <2>1, <2>2, <2>3 DEF HolderIsPlayer, At, Alone, TypeInv, TypeOK, Threads
<1>11. ASSUME NEW t \in Tasks, CreatePlayer(t) PROVE HolderIsPlayer'
  BY <1>11 DEF CreatePlayer, Request, HolderIsPlayer, At
<1>12. ASSUME NEW t \in Tasks, NEW v \in 1 .. 3, UpdateRead(t, v) PROVE HolderIsPlayer'
  BY <1>12, UpdateReadMoves, HolderFrame DEF UpdateRead, Into, Rests, Passes, Returns, Home, Self,
     Threads, At, Request
<1>13. ASSUME NEW t \in Tasks, UpdateWrite(t) PROVE HolderIsPlayer'
  BY <1>13, UpdateWriteMoves, HolderFrame DEF UpdateWrite, Into, Rests, Passes, Returns, Home,
     Self, Threads, At, SaveActive
<1>14. ASSUME NEW t \in Tasks, UpdateReread(t) PROVE HolderIsPlayer'
  BY <1>14, UpdateRereadMoves, HolderFrame DEF UpdateReread, Into, Rests, Passes, Returns, Home,
     Self, Threads, At
<1>15. ASSUME NEW t \in Tasks, RotateKey(t) PROVE HolderIsPlayer'
  BY <1>15, RotateKeyMoves, HolderFrame DEF RotateKey, Into, Rests, Passes, Returns, Home, Self,
     Threads, At, Request, SaveToken
<1>16. ASSUME NEW t \in Tasks, DeletePlayer(t) PROVE HolderIsPlayer'
  BY <1>16, DeletePlayerMoves, HolderFrame DEF DeletePlayer, Into, Rests, Passes, Returns, Home,
     Self, Threads, At, Request, RemovePlayer
<1>17. ASSUME NEW t \in Tasks, Revoke(t) PROVE HolderIsPlayer'
  BY <1>17 DEF Revoke, HolderIsPlayer
<1>18. ASSUME NEW t \in Tasks, NEW r \in Rooms, BindRoomPlayer(t, r) PROVE HolderIsPlayer'
  BY <1>18, BindRoomPlayerMoves, HolderFrame DEF BindRoomPlayer, Into, Rests, Passes, Returns,
     Home, Self, Threads, At, Request, SaveBinding
<1>19. ASSUME NEW t \in Tasks, NEW r \in Rooms, SetRoomOutputVolume(t, r) PROVE HolderIsPlayer'
  BY <1>19, SetRoomOutputVolumeMoves, HolderFrame DEF SetRoomOutputVolume, Into, Rests, Passes,
     Returns, Home, Self, Threads, At, Request, SaveVolume
<1>20. ASSUME NEW t \in Tasks, UnbindRoomPlayer(t) PROVE HolderIsPlayer'
  BY <1>20, UnbindRoomPlayerMoves, HolderFrame DEF UnbindRoomPlayer, Into, Rests, Passes, Returns,
     Home, Self, Threads, At, Request, RemoveBinding
<1>21. ASSUME NEW t \in Tasks, UnbindCheck(t) PROVE HolderIsPlayer'
  BY <1>21, UnbindCheckMoves, HolderFrame DEF UnbindCheck, Into, Rests, Passes, Returns, Home,
     Self, Threads, At
<1>22. ASSUME NEW t \in Tasks, CommandTargets(t) PROVE HolderIsPlayer'
  BY <1>22, CommandTargetsMoves, HolderFrame DEF CommandTargets, Into, Rests, Passes, Returns,
     Home, Self, Threads, At, RoomPlayers
<1>23. ASSUME NEW t \in Threads, MoveLookup(t) PROVE HolderIsPlayer'
  BY <1>23, MoveLookupMoves, HolderFrame DEF MoveLookup, Into, Rests, Passes, Returns, Home, Self,
     Threads, At
<1>24. ASSUME NEW t \in Threads, MoveLeave(t) PROVE HolderIsPlayer'
  BY <1>24, MoveLeaveMoves, HolderFrame DEF MoveLeave, Into, Rests, Passes, Returns, Home, Self,
     Threads, At
<1>25. ASSUME NEW t \in Threads, MoveSet(t) PROVE HolderIsPlayer'
  BY <1>25, MoveSetMoves, HolderFrame DEF MoveSet, Into, Rests, Passes, Returns, Home, Self,
     Threads, At
<1>26. ASSUME NEW t \in Threads, MoveJoin(t) PROVE HolderIsPlayer'
  BY <1>26, MoveJoinMoves, HolderFrame DEF MoveJoin, Into, Rests, Passes, Returns, Home, Self,
     Threads, At
<1>27. ASSUME NEW t \in Threads, ApplyRead(t) PROVE HolderIsPlayer'
  BY <1>27, ApplyReadMoves, HolderFrame DEF ApplyRead, Into, Rests, Passes, Returns, Home, Self,
     Threads, At
<1>28. ASSUME NEW t \in Threads, SendVolume(t) PROVE HolderIsPlayer'
  BY <1>28, SendVolumeMoves, HolderFrame DEF SendVolume, Into, Rests, Passes, Returns, Home, Self,
     Threads, At
<1>29. CASE UNCHANGED vars
  BY <1>29 DEF vars, HolderIsPlayer, At
<1>30. QED
  BY <1>1, <1>2, <1>3, <1>4, <1>5, <1>6, <1>7, <1>8, <1>9, <1>10, <1>11, <1>12, <1>13, <1>14,
     <1>15, <1>16, <1>17, <1>18, <1>19, <1>20, <1>21, <1>22, <1>23, <1>24, <1>25, <1>26, <1>27,
     <1>28, <1>29 DEF Next, ReadLoop, Handler, Move, Threads

\* The threads that close connections, and the connections that need no entry.
Closing(t) == th[t].at \in {"close", "closing"}
Exempt(c) == ~player[c] \/ closed[c] \/ Ended(c) \/ At(c, "register")

LEMMA OpenFrame ==
  ASSUME OpenIsHolder, NEW t \in Threads, Alone(t),
         registry' = registry, ~Closing(t),
         \A d \in Conns : Exempt(d) => Exempt(d)'
  PROVE  OpenIsHolder'
<1> SUFFICES ASSUME NEW d \in Conns, ~Exempt(d)' PROVE (registry = d \/ BeingClosed(d))'
  BY DEF OpenIsHolder, Exempt
<1>1. registry = d \/ BeingClosed(d)
  BY DEF OpenIsHolder, Exempt
<1>2. ASSUME NEW u \in Threads, th[u].c = d, Closing(u) PROVE BeingClosed(d)'
  BY <1>2 DEF Alone, Closing, BeingClosed
<1>3. QED
  BY <1>1, <1>2 DEF BeingClosed, Closing, Alone

LEMMA StepOpen == TypeInv /\ HolderIsPlayer /\ OpenIsHolder /\ [Next]_vars => OpenIsHolder'
<1> SUFFICES ASSUME TypeInv /\ HolderIsPlayer /\ OpenIsHolder, [Next]_vars PROVE OpenIsHolder'
  OBVIOUS
<1> USE PlayersAssumption DEF store, conn, counters
<1>1. ASSUME NEW t \in Threads, Disconnect(t) PROVE OpenIsHolder'
  <2>1. th[t].ret \in {"free", "validate", "idle", "quit"} /\ th[t].c \in Conns
    BY <1>1 DEF TypeInv, ThreadsOK, Sound, ThreadState, Disconnect, At, OnConn
  <2>2. ASSUME NEW d \in Conns, ~Exempt(d)' PROVE ~Exempt(d)
    BY <1>1, <2>1, <2>2, DisconnectMoves DEF Disconnect, Into, Rests, Passes, Returns, Home, Self,
       Threads, At, Alone, Exempt, Ended
  <2>3. ASSUME NEW d \in Conns, ~Exempt(d), BeingClosed(d) PROVE BeingClosed(d)'
    <3>1. PICK u \in Threads : th[u].c = d /\ Closing(u)
      BY <2>3 DEF BeingClosed, Closing, Alone
    <3>2. CASE u # t
      BY <1>1, <3>1, <3>2, DisconnectMoves DEF Into, Rests, Passes, Returns, Home, Self, Threads,
         At, Alone, BeingClosed, Closing
    <3>3. CASE u = t
      <4>1. ~closed[th[t].c]
        BY <2>3, <3>1, <3>3 DEF Exempt
      <4>2. QED
        BY <1>1, <3>1, <3>3, <4>1, DisconnectMoves DEF Into, Passes, BeingClosed
    <3>4. QED
      BY <3>2, <3>3
  <2>4. QED
    BY <1>1, <2>2, <2>3 DEF OpenIsHolder, Exempt, Disconnect
<1>2. ASSUME NEW t \in Threads, CloseOnce(t) PROVE OpenIsHolder'
  <2>1. th[t].ret \in {"free", "validate", "idle", "quit"} /\ th[t].c \in Conns
    BY <1>2 DEF TypeInv, ThreadsOK, Sound, ThreadState, CloseOnce, At, OnConn
  <2>2. closed' = [closed EXCEPT ![th[t].c] = TRUE] /\ player' = player /\ registry' = registry
    BY <1>2 DEF CloseOnce
  <2>3. ASSUME NEW d \in Conns, ~Exempt(d)' PROVE ~Exempt(d) /\ d # th[t].c
    <3>1. ~closed'[d] /\ d # th[t].c /\ ~closed[d]
      BY <2>1, <2>2, <2>3 DEF Exempt, TypeInv, TypeOK
    <3>2. ~(Ended(d) \/ At(d, "register"))
      BY <1>2, <2>3, CloseOnceMoves DEF CloseOnce, Into, Rests, Passes, Returns, Home, Self,
         Threads, At, Alone, Exempt, Ended
    <3>3. QED
      BY <2>2, <2>3, <3>1, <3>2 DEF Exempt
  <2>4. ASSUME NEW d \in Conns, d # th[t].c, BeingClosed(d) PROVE BeingClosed(d)'
    BY <1>2, <2>4, CloseOnceMoves DEF Into, Rests, Passes, Returns, Home, Self, Threads, At,
       Alone, BeingClosed
  <2>5. QED
    BY <2>2, <2>3, <2>4 DEF OpenIsHolder, Exempt
<1>3. ASSUME NEW c \in Conns, AuthPlayer(c) PROVE OpenIsHolder'
  BY <1>3, AuthPlayerMoves, OpenFrame DEF AuthPlayer, Into, Rests, Alone, Closing, Exempt, Ended,
     At, Threads, TypeInv, ThreadsOK
<1>4. ASSUME NEW c \in Conns, HelloBinding(c) PROVE OpenIsHolder'
  BY <1>4, HelloBindingMoves, OpenFrame DEF HelloBinding, Into, Rests, Passes, Returns, Home,
     Self, Threads, At, Closing, Exempt, Ended, Alone
<1>5. ASSUME NEW c \in Conns, HelloRegister(c) PROVE OpenIsHolder'
  <2>1. /\ registry' = c /\ \A d \in Conns : d # c => player'[d] = player[d]
        /\ closed' = closed /\ Alone(c)
        /\ ~Closing(c)
    BY <1>5, HelloRegisterMoves DEF HelloRegister, Into, Rests, Passes, Returns, Home, Self,
       Threads, At, Closing, TypeInv, TypeOK
  <2>2. ASSUME NEW d \in Conns, d # c, ~Exempt(d)' PROVE BeingClosed(d)'
    <3>1. ~Exempt(d)
      BY <2>1, <2>2 DEF Exempt, Ended, At, Alone, Threads
    <3>2. CASE registry = d
      BY <1>5, <2>2, <3>2, HelloRegisterMoves DEF Into, BeingClosed, Threads, TypeInv, TypeOK
    <3>3. CASE BeingClosed(d)
      BY <2>1, <3>3 DEF BeingClosed, Closing, Alone
    <3>4. QED
      BY <3>1, <3>2, <3>3 DEF OpenIsHolder, Exempt
  <2>3. QED
    BY <2>1, <2>2 DEF OpenIsHolder, Exempt
<1>6. ASSUME NEW c \in Conns, HelloRevoked(c) PROVE OpenIsHolder'
  <2>1. /\ \A d \in Conns : registry = d /\ d # c => registry' = d
        /\ ~player'[c] /\ \A d \in Conns : d # c => player'[d] = player[d]
    BY <1>6 DEF HelloRevoked, Unregistered, TypeInv, TypeOK
  <2>2. closed' = closed /\ Alone(c) /\ ~Closing(c)
    BY <1>6, HelloRevokedMoves DEF HelloRevoked, Into, At, Closing
  <2>3. ASSUME NEW d \in Conns, d # c, ~Exempt(d)' PROVE (registry = d \/ BeingClosed(d))'
    <3>1. ~Exempt(d)
      BY <2>1, <2>2, <2>3 DEF Exempt, Ended, At, Alone, Threads
    <3>2. CASE BeingClosed(d)
      BY <2>2, <3>2 DEF BeingClosed, Closing, Alone
    <3>3. QED
      BY <2>1, <2>2, <2>3, <3>1, <3>2 DEF OpenIsHolder, Exempt
  <2>4. QED
    BY <2>1, <2>2, <2>3 DEF OpenIsHolder, Exempt
<1>7. ASSUME NEW c \in Conns, HelloConfirmed(c) PROVE OpenIsHolder'
  BY <1>7, HelloConfirmedMoves, OpenFrame DEF HelloConfirmed, Into, Rests, Passes, Returns, Home,
     Self, Threads, At, Closing, Exempt, Ended, Alone, KeyValid, Resolves
<1>8. ASSUME NEW c \in Conns, ReadFails(c) PROVE OpenIsHolder'
  BY <1>8, ReadFailsMoves, OpenFrame DEF ReadFails, Into, Rests, Passes, Returns, Home, Self,
     Threads, At, Closing, Exempt, Ended, Alone
<1>9. ASSUME NEW c \in Conns, QuitLeave(c) PROVE OpenIsHolder'
  BY <1>9, QuitLeaveMoves, OpenFrame DEF QuitLeave, Into, Rests, Passes, Returns, Home, Self,
     Threads, At, Closing, Exempt, Ended, Alone
<1>10. ASSUME NEW c \in Conns, QuitUnregister(c) PROVE OpenIsHolder'
  <2>1. /\ \A d \in Conns : registry = d /\ d # c => registry' = d
        /\ player' = player /\ closed' = closed /\ Alone(c)
        /\ ~Closing(c) /\ th'[c].at = "dead"
    BY <1>10, QuitUnregisterMoves DEF QuitUnregister, Unregistered, Into, At, Threads, Closing,
       TypeInv, TypeOK
  <2>2. ASSUME NEW d \in Conns, ~Exempt(d)' PROVE d # c /\ ~Exempt(d)
    BY <2>1, <2>2 DEF Exempt, Ended, At, Alone, Threads
  <2>3. ASSUME NEW d \in Conns, BeingClosed(d) PROVE BeingClosed(d)'
    BY <2>1, <2>3 DEF BeingClosed, Closing, Alone
  <2>4. QED
    BY <2>1, <2>2, <2>3 DEF OpenIsHolder, Exempt
<1>11. ASSUME NEW t \in Tasks, CreatePlayer(t) PROVE OpenIsHolder'
  BY <1>11 DEF CreatePlayer, Request, OpenIsHolder, Ended, At, BeingClosed
<1>12. ASSUME NEW t \in Tasks, NEW v \in 1 .. 3, UpdateRead(t, v) PROVE OpenIsHolder'
  BY <1>12, UpdateReadMoves, OpenFrame DEF UpdateRead, Into, Rests, Passes, Returns, Home, Self,
     Threads, At, Closing, Exempt, Ended, Alone, Request
<1>13. ASSUME NEW t \in Tasks, UpdateWrite(t) PROVE OpenIsHolder'
  BY <1>13, UpdateWriteMoves, OpenFrame DEF UpdateWrite, Into, Rests, Passes, Returns, Home, Self,
     Threads, At, Closing, Exempt, Ended, Alone, SaveActive
<1>14. ASSUME NEW t \in Tasks, UpdateReread(t) PROVE OpenIsHolder'
  BY <1>14, UpdateRereadMoves, OpenFrame DEF UpdateReread, Into, Rests, Passes, Returns, Home,
     Self, Threads, At, Closing, Exempt, Ended, Alone
<1>15. ASSUME NEW t \in Tasks, RotateKey(t) PROVE OpenIsHolder'
  BY <1>15, RotateKeyMoves, OpenFrame DEF RotateKey, Into, Rests, Passes, Returns, Home, Self,
     Threads, At, Closing, Exempt, Ended, Alone, Request, SaveToken
<1>16. ASSUME NEW t \in Tasks, DeletePlayer(t) PROVE OpenIsHolder'
  BY <1>16, DeletePlayerMoves, OpenFrame DEF DeletePlayer, Into, Rests, Passes, Returns, Home,
     Self, Threads, At, Closing, Exempt, Ended, Alone, Request, RemovePlayer
<1>17. ASSUME NEW t \in Tasks, Revoke(t) PROVE OpenIsHolder'
  <2>1. /\ player' = player /\ closed' = closed /\ Alone(t)
        /\ ~Closing(t)
    BY <1>17, RevokeMoves DEF Revoke, Into, Rests, Passes, Returns, Home, Self, Threads, At, Closing
  <2>2. ASSUME NEW d \in Conns, ~Exempt(d)' PROVE ~Exempt(d)
    BY <2>1, <2>2 DEF Exempt, Ended, At, Alone, Threads
  <2>3. ASSUME NEW d \in Conns, registry = d PROVE BeingClosed(d)'
    BY <1>17, <2>3, RevokeMoves DEF Into, BeingClosed, Threads
  <2>4. ASSUME NEW d \in Conns, BeingClosed(d) PROVE BeingClosed(d)'
    BY <2>1, <2>4 DEF BeingClosed, Closing, Alone
  <2>5. QED
    BY <2>2, <2>3, <2>4 DEF OpenIsHolder, Exempt
<1>18. ASSUME NEW t \in Tasks, NEW r \in Rooms, BindRoomPlayer(t, r) PROVE OpenIsHolder'
  BY <1>18, BindRoomPlayerMoves, OpenFrame DEF BindRoomPlayer, Into, Rests, Passes, Returns, Home,
     Self, Threads, At, Closing, Exempt, Ended, Alone, Request, SaveBinding
<1>19. ASSUME NEW t \in Tasks, NEW r \in Rooms, SetRoomOutputVolume(t, r) PROVE OpenIsHolder'
  BY <1>19, SetRoomOutputVolumeMoves, OpenFrame DEF SetRoomOutputVolume, Into, Rests, Passes,
     Returns, Home, Self, Threads, At, Closing, Exempt, Ended, Alone, Request, SaveVolume
<1>20. ASSUME NEW t \in Tasks, UnbindRoomPlayer(t) PROVE OpenIsHolder'
  BY <1>20, UnbindRoomPlayerMoves, OpenFrame DEF UnbindRoomPlayer, Into, Rests, Passes, Returns,
     Home, Self, Threads, At, Closing, Exempt, Ended, Alone, Request, RemoveBinding
<1>21. ASSUME NEW t \in Tasks, UnbindCheck(t) PROVE OpenIsHolder'
  BY <1>21, UnbindCheckMoves, OpenFrame DEF UnbindCheck, Into, Rests, Passes, Returns, Home, Self,
     Threads, At, Closing, Exempt, Ended, Alone
<1>22. ASSUME NEW t \in Tasks, CommandTargets(t) PROVE OpenIsHolder'
  BY <1>22, CommandTargetsMoves, OpenFrame DEF CommandTargets, Into, Rests, Passes, Returns, Home,
     Self, Threads, At, Closing, Exempt, Ended, Alone, RoomPlayers
<1>23. ASSUME NEW t \in Threads, MoveLookup(t) PROVE OpenIsHolder'
  BY <1>23, MoveLookupMoves, OpenFrame DEF MoveLookup, Into, Rests, Passes, Returns, Home, Self,
     Threads, At, Closing, Exempt, Ended, Alone
<1>24. ASSUME NEW t \in Threads, MoveLeave(t) PROVE OpenIsHolder'
  BY <1>24, MoveLeaveMoves, OpenFrame DEF MoveLeave, Into, Rests, Passes, Returns, Home, Self,
     Threads, At, Closing, Exempt, Ended, Alone
<1>25. ASSUME NEW t \in Threads, MoveSet(t) PROVE OpenIsHolder'
  BY <1>25, MoveSetMoves, OpenFrame DEF MoveSet, Into, Rests, Passes, Returns, Home, Self,
     Threads, At, Closing, Exempt, Ended, Alone
<1>26. ASSUME NEW t \in Threads, MoveJoin(t) PROVE OpenIsHolder'
  BY <1>26, MoveJoinMoves, OpenFrame DEF MoveJoin, Into, Rests, Passes, Returns, Home, Self,
     Threads, At, Closing, Exempt, Ended, Alone
<1>27. ASSUME NEW t \in Threads, ApplyRead(t) PROVE OpenIsHolder'
  BY <1>27, ApplyReadMoves, OpenFrame DEF ApplyRead, Into, Rests, Passes, Returns, Home, Self,
     Threads, At, Closing, Exempt, Ended, Alone
<1>28. ASSUME NEW t \in Threads, SendVolume(t) PROVE OpenIsHolder'
  BY <1>28, SendVolumeMoves, OpenFrame DEF SendVolume, Into, Rests, Passes, Returns, Home, Self,
     Threads, At, Closing, Exempt, Ended, Alone
<1>29. CASE UNCHANGED vars
  BY <1>29 DEF vars, OpenIsHolder, Ended, At, BeingClosed
<1>30. QED
  BY <1>1, <1>2, <1>3, <1>4, <1>5, <1>6, <1>7, <1>8, <1>9, <1>10, <1>11, <1>12, <1>13, <1>14,
     <1>15, <1>16, <1>17, <1>18, <1>19, <1>20, <1>21, <1>22, <1>23, <1>24, <1>25, <1>26, <1>27,
     <1>28, <1>29 DEF Next, ReadLoop, Handler, Move, Threads

(* -------------------------------- revocation -------------------------------- *)
\* A replaced or missing key and a row switched off: what is owed a revocation.
KeyGone(c) == ~row.exists \/ row.key # key[c]
KeyRevoking == \E t \in Tasks : th[t].at = "revoke"

LEMMA KeyFrame ==
  ASSUME KeyOwed, NEW t \in Threads, Alone(t), th[t].at # "revoke",
         \A d \in Conns : (registry = d /\ Admitted(d) /\ KeyGone(d))' => registry = d /\ Admitted(d) /\ KeyGone(d)
  PROVE  KeyOwed'
<1> SUFFICES ASSUME NEW d \in Conns, (registry = d /\ Admitted(d) /\ KeyGone(d))' PROVE KeyRevoking'
  BY DEF KeyOwed, KeyGone, KeyRevoking
<1>1. KeyRevoking
  BY DEF KeyOwed, KeyGone, KeyRevoking
<1>2. QED
  BY <1>1 DEF KeyRevoking, Alone, Threads

LEMMA StepKey == TypeInv /\ HolderIsPlayer /\ KeyOwed /\ [Next]_vars => KeyOwed'
<1> SUFFICES ASSUME TypeInv /\ HolderIsPlayer /\ KeyOwed, [Next]_vars PROVE KeyOwed'
  OBVIOUS
<1> USE PlayersAssumption DEF store, conn, counters
<1>1. ASSUME NEW t \in Threads, Disconnect(t) PROVE KeyOwed'
  BY <1>1, DisconnectMoves, KeyFrame DEF Disconnect, Into, Rests, Passes, Returns, Home, Self,
     Threads, At, Admitted, KeyGone, Alone
<1>2. ASSUME NEW t \in Threads, CloseOnce(t) PROVE KeyOwed'
  <2>1. th[t].ret \in {"free", "validate", "idle", "quit"}
    BY DEF TypeInv, ThreadsOK, ThreadState
  <2>2. registry' = registry /\ player' = player /\ key' = key /\ row' = row
    BY <1>2 DEF CloseOnce
  <2>3. Alone(t) /\ th[t].at = "closing" /\ (th'[t].at = th[t].ret \/ th'[t].at = Home(t))
    BY <1>2, CloseOnceMoves DEF CloseOnce, Into, Rests, Passes, Returns, Home, Self, Threads, At
  <2>4. ASSUME NEW d \in Conns, Admitted(d)' PROVE Admitted(d)
    BY <1>2, <2>1, <2>2, <2>3, <2>4, CloseOnceMoves DEF Into, Rests, Passes, Returns, Home, Self,
       Threads, At, Admitted, Alone
  <2>5. QED
    BY <2>2, <2>3, <2>4, KeyFrame DEF KeyGone
<1>3. ASSUME NEW c \in Conns, AuthPlayer(c) PROVE KeyOwed'
  <2>1. ~player[c] /\ \A d \in Conns : d # c => key'[d] = key[d]
    BY <1>3 DEF AuthPlayer, At, TypeInv, TypeOK, ThreadsOK
  <2>2. player' = player /\ registry' = registry /\ row' = row /\ Alone(c) /\ th[c].at = "off"
    BY <1>3, AuthPlayerMoves DEF AuthPlayer, Into, Rests, Passes, Returns, Home, Self, Threads, At
  <2>3. ASSUME NEW d \in Conns, Admitted(d)' PROVE d # c /\ Admitted(d)
    BY <2>1, <2>2, <2>3 DEF Admitted, Alone, Threads
  <2>4. QED
    BY <2>1, <2>2, <2>3, KeyFrame DEF KeyGone, Threads
<1>4. ASSUME NEW c \in Conns, HelloBinding(c) PROVE KeyOwed'
  BY <1>4, HelloBindingMoves, KeyFrame DEF HelloBinding, Into, Rests, Passes, Returns, Home, Self,
     Threads, At, Admitted, KeyGone, Alone
<1>5. ASSUME NEW c \in Conns, HelloRegister(c) PROVE KeyOwed'
  <2>1. registry' = c /\ ~Admitted(c)'
    BY <1>5, HelloRegisterMoves DEF HelloRegister, Into, Rests, Passes, Returns, Home, Self,
       Threads, At, Admitted
  <2>2. QED
    BY <2>1 DEF KeyOwed
<1>6. ASSUME NEW c \in Conns, HelloRevoked(c) PROVE KeyOwed'
  <2>1. ~player'[c] /\ \A d \in Conns : d # c => player'[d] = player[d]
    BY <1>6 DEF HelloRevoked, TypeInv, TypeOK
  <2>2. /\ registry' \in {registry, None} /\ key' = key /\ row' = row
        /\ Alone(c) /\ th[c].at = "validate"
    BY <1>6, HelloRevokedMoves DEF HelloRevoked, Unregistered, Into, At
  <2>3. ASSUME NEW d \in Conns, Admitted(d)' PROVE Admitted(d)
    BY <2>1, <2>2, <2>3 DEF Admitted, Alone, Threads
  <2>4. QED
    BY <2>2, <2>3, KeyFrame DEF KeyGone, Threads
<1>7. ASSUME NEW c \in Conns, HelloConfirmed(c) PROVE KeyOwed'
  <2>1. /\ registry' = registry /\ player' = player /\ key' = key /\ row' = row
        /\ row.exists /\ row.active /\ row.key = key[c]
    BY <1>7 DEF HelloConfirmed, KeyValid, Resolves
  <2>2. Alone(c) /\ th[c].at = "validate"
    BY <1>7, HelloConfirmedMoves DEF HelloConfirmed, Into, Rests, Passes, Returns, Home, Self,
       Threads, At
  <2>3. ASSUME NEW d \in Conns, d # c, Admitted(d)' PROVE Admitted(d)
    BY <2>1, <2>2, <2>3 DEF Admitted, Alone, Threads
  <2>4. QED
    BY <2>1, <2>2, <2>3, KeyFrame DEF KeyGone, Threads
<1>8. ASSUME NEW c \in Conns, ReadFails(c) PROVE KeyOwed'
  BY <1>8, ReadFailsMoves, KeyFrame DEF ReadFails, Into, Rests, Passes, Returns, Home, Self,
     Threads, At, Admitted, KeyGone, Alone
<1>9. ASSUME NEW c \in Conns, QuitLeave(c) PROVE KeyOwed'
  BY <1>9, QuitLeaveMoves, KeyFrame DEF QuitLeave, Into, Rests, Passes, Returns, Home, Self,
     Threads, At, Admitted, KeyGone, Alone
<1>10. ASSUME NEW c \in Conns, QuitUnregister(c) PROVE KeyOwed'
  BY <1>10, QuitUnregisterMoves, KeyFrame DEF QuitUnregister, Into, Rests, Passes, Returns, Home,
     Self, Threads, At, Admitted, KeyGone, Alone, Unregistered
<1>11. ASSUME NEW t \in Tasks, CreatePlayer(t) PROVE KeyOwed'
  BY <1>11 DEF CreatePlayer, Request, KeyOwed, Admitted
<1>12. ASSUME NEW t \in Tasks, NEW v \in 1 .. 3, UpdateRead(t, v) PROVE KeyOwed'
  BY <1>12, UpdateReadMoves, KeyFrame DEF UpdateRead, Into, Rests, Passes, Returns, Home, Self,
     Threads, At, Admitted, KeyGone, Alone, Request
<1>13. ASSUME NEW t \in Tasks, UpdateWrite(t) PROVE KeyOwed'
  <2>1. row'.exists = row.exists /\ row'.key = row.key
    BY <1>13 DEF UpdateWrite, SaveActive, TypeInv, TypeOK
  <2>2. /\ registry' = registry /\ player' = player /\ key' = key
        /\ Alone(t) /\ th[t].at = "update" /\ t \notin Conns
    BY <1>13, UpdateWriteMoves DEF UpdateWrite, Into, Rests, Passes, Returns, Home, Self, Threads,
       At
  <2>3. ASSUME NEW d \in Conns, Admitted(d)' PROVE Admitted(d)
    BY <2>2, <2>3 DEF Admitted, Alone, Threads
  <2>4. QED
    BY <2>1, <2>2, <2>3, KeyFrame DEF KeyGone, Threads
<1>14. ASSUME NEW t \in Tasks, UpdateReread(t) PROVE KeyOwed'
  BY <1>14, UpdateRereadMoves, KeyFrame DEF UpdateReread, Into, Rests, Passes, Returns, Home,
     Self, Threads, At, Admitted, KeyGone, Alone
<1>15. ASSUME NEW t \in Tasks, RotateKey(t) PROVE KeyOwed'
  <2>1. th'[t].at = "revoke"
    BY <1>15, RotateKeyMoves DEF Into, Rests, Passes, Returns, Home, Self, Threads, At
  <2>2. QED
    BY <2>1 DEF KeyOwed
<1>16. ASSUME NEW t \in Tasks, DeletePlayer(t) PROVE KeyOwed'
  <2>1. th'[t].at = "revoke"
    BY <1>16, DeletePlayerMoves DEF Into, Rests, Passes, Returns, Home, Self, Threads, At
  <2>2. QED
    BY <2>1 DEF KeyOwed
<1>17. ASSUME NEW t \in Tasks, Revoke(t) PROVE KeyOwed'
  BY <1>17 DEF Revoke, KeyOwed
<1>18. ASSUME NEW t \in Tasks, NEW r \in Rooms, BindRoomPlayer(t, r) PROVE KeyOwed'
  BY <1>18, BindRoomPlayerMoves, KeyFrame DEF BindRoomPlayer, Into, Rests, Passes, Returns, Home,
     Self, Threads, At, Admitted, KeyGone, Alone, Request, SaveBinding
<1>19. ASSUME NEW t \in Tasks, NEW r \in Rooms, SetRoomOutputVolume(t, r) PROVE KeyOwed'
  BY <1>19, SetRoomOutputVolumeMoves, KeyFrame DEF SetRoomOutputVolume, Into, Rests, Passes,
     Returns, Home, Self, Threads, At, Admitted, KeyGone, Alone, Request, SaveVolume
<1>20. ASSUME NEW t \in Tasks, UnbindRoomPlayer(t) PROVE KeyOwed'
  BY <1>20, UnbindRoomPlayerMoves, KeyFrame DEF UnbindRoomPlayer, Into, Rests, Passes, Returns,
     Home, Self, Threads, At, Admitted, KeyGone, Alone, Request, RemoveBinding
<1>21. ASSUME NEW t \in Tasks, UnbindCheck(t) PROVE KeyOwed'
  BY <1>21, UnbindCheckMoves, KeyFrame DEF UnbindCheck, Into, Rests, Passes, Returns, Home, Self,
     Threads, At, Admitted, KeyGone, Alone
<1>22. ASSUME NEW t \in Tasks, CommandTargets(t) PROVE KeyOwed'
  BY <1>22, CommandTargetsMoves, KeyFrame DEF CommandTargets, Into, Rests, Passes, Returns, Home,
     Self, Threads, At, Admitted, KeyGone, Alone, RoomPlayers
<1>23. ASSUME NEW t \in Threads, MoveLookup(t) PROVE KeyOwed'
  BY <1>23, MoveLookupMoves, KeyFrame DEF MoveLookup, Into, Rests, Passes, Returns, Home, Self,
     Threads, At, Admitted, KeyGone, Alone
<1>24. ASSUME NEW t \in Threads, MoveLeave(t) PROVE KeyOwed'
  BY <1>24, MoveLeaveMoves, KeyFrame DEF MoveLeave, Into, Rests, Passes, Returns, Home, Self,
     Threads, At, Admitted, KeyGone, Alone
<1>25. ASSUME NEW t \in Threads, MoveSet(t) PROVE KeyOwed'
  BY <1>25, MoveSetMoves, KeyFrame DEF MoveSet, Into, Rests, Passes, Returns, Home, Self, Threads,
     At, Admitted, KeyGone, Alone
<1>26. ASSUME NEW t \in Threads, MoveJoin(t) PROVE KeyOwed'
  BY <1>26, MoveJoinMoves, KeyFrame DEF MoveJoin, Into, Rests, Passes, Returns, Home, Self,
     Threads, At, Admitted, KeyGone, Alone
<1>27. ASSUME NEW t \in Threads, ApplyRead(t) PROVE KeyOwed'
  BY <1>27, ApplyReadMoves, KeyFrame DEF ApplyRead, Into, Rests, Passes, Returns, Home, Self,
     Threads, At, Admitted, KeyGone, Alone
<1>28. ASSUME NEW t \in Threads, SendVolume(t) PROVE KeyOwed'
  BY <1>28, SendVolumeMoves, KeyFrame DEF SendVolume, Into, Rests, Passes, Returns, Home, Self,
     Threads, At, Admitted, KeyGone, Alone
<1>29. CASE UNCHANGED vars
  BY <1>29 DEF vars, KeyOwed, Admitted
<1>30. QED
  BY <1>1, <1>2, <1>3, <1>4, <1>5, <1>6, <1>7, <1>8, <1>9, <1>10, <1>11, <1>12, <1>13, <1>14,
     <1>15, <1>16, <1>17, <1>18, <1>19, <1>20, <1>21, <1>22, <1>23, <1>24, <1>25, <1>26, <1>27,
     <1>28, <1>29 DEF Next, ReadLoop, Handler, Move, Threads

SwitchedOff == row.exists /\ ~row.active

LEMMA DisableFrame ==
  ASSUME DisableOwed, NEW t \in Threads, Alone(t), th[t].at \notin {"reread", "revoke"},
         \A d \in Conns : (registry = d /\ Admitted(d) /\ SwitchedOff)' => registry = d /\ Admitted(d) /\ SwitchedOff
  PROVE  DisableOwed'
<1> SUFFICES ASSUME NEW d \in Conns, (registry = d /\ Admitted(d) /\ SwitchedOff)' PROVE Revoking'
  BY DEF DisableOwed, SwitchedOff
<1>1. Revoking
  BY DEF DisableOwed, SwitchedOff
<1>2. QED
  BY <1>1 DEF Revoking, Alone, Threads

LEMMA StepDisable == TypeInv /\ HolderIsPlayer /\ DisableOwed /\ [Next]_vars => DisableOwed'
<1> SUFFICES ASSUME TypeInv /\ HolderIsPlayer /\ DisableOwed, [Next]_vars PROVE DisableOwed'
  OBVIOUS
<1> USE PlayersAssumption DEF store, conn, counters
<1>1. ASSUME NEW t \in Threads, Disconnect(t) PROVE DisableOwed'
  BY <1>1, DisconnectMoves, DisableFrame DEF Disconnect, Into, Rests, Passes, Returns, Home, Self,
     Threads, At, Admitted, SwitchedOff, Alone
<1>2. ASSUME NEW t \in Threads, CloseOnce(t) PROVE DisableOwed'
  <2>1. th[t].ret \in {"free", "validate", "idle", "quit"}
    BY DEF TypeInv, ThreadsOK, ThreadState
  <2>2. registry' = registry /\ player' = player /\ key' = key /\ row' = row
    BY <1>2 DEF CloseOnce
  <2>3. Alone(t) /\ th[t].at = "closing" /\ (th'[t].at = th[t].ret \/ th'[t].at = Home(t))
    BY <1>2, CloseOnceMoves DEF CloseOnce, Into, Rests, Passes, Returns, Home, Self, Threads, At
  <2>4. ASSUME NEW d \in Conns, Admitted(d)' PROVE Admitted(d)
    BY <1>2, <2>1, <2>2, <2>3, <2>4, CloseOnceMoves DEF Into, Rests, Passes, Returns, Home, Self,
       Threads, At, Admitted, Alone
  <2>5. QED
    BY <2>2, <2>3, <2>4, DisableFrame DEF SwitchedOff
<1>3. ASSUME NEW c \in Conns, AuthPlayer(c) PROVE DisableOwed'
  <2>1. ~player[c] /\ \A d \in Conns : d # c => key'[d] = key[d]
    BY <1>3 DEF AuthPlayer, At, TypeInv, TypeOK, ThreadsOK
  <2>2. player' = player /\ registry' = registry /\ row' = row /\ Alone(c) /\ th[c].at = "off"
    BY <1>3, AuthPlayerMoves DEF AuthPlayer, Into, Rests, Passes, Returns, Home, Self, Threads, At
  <2>3. ASSUME NEW d \in Conns, Admitted(d)' PROVE d # c /\ Admitted(d)
    BY <2>1, <2>2, <2>3 DEF Admitted, Alone, Threads
  <2>4. QED
    BY <2>1, <2>2, <2>3, DisableFrame DEF SwitchedOff, Threads
<1>4. ASSUME NEW c \in Conns, HelloBinding(c) PROVE DisableOwed'
  BY <1>4, HelloBindingMoves, DisableFrame DEF HelloBinding, Into, Rests, Passes, Returns, Home,
     Self, Threads, At, Admitted, SwitchedOff, Alone
<1>5. ASSUME NEW c \in Conns, HelloRegister(c) PROVE DisableOwed'
  <2>1. registry' = c /\ ~Admitted(c)'
    BY <1>5, HelloRegisterMoves DEF HelloRegister, Into, Rests, Passes, Returns, Home, Self,
       Threads, At, Admitted
  <2>2. QED
    BY <2>1 DEF DisableOwed
<1>6. ASSUME NEW c \in Conns, HelloRevoked(c) PROVE DisableOwed'
  <2>1. ~player'[c] /\ \A d \in Conns : d # c => player'[d] = player[d]
    BY <1>6 DEF HelloRevoked, TypeInv, TypeOK
  <2>2. /\ registry' \in {registry, None} /\ key' = key /\ row' = row
        /\ Alone(c) /\ th[c].at = "validate"
    BY <1>6, HelloRevokedMoves DEF HelloRevoked, Unregistered, Into, At
  <2>3. ASSUME NEW d \in Conns, Admitted(d)' PROVE Admitted(d)
    BY <2>1, <2>2, <2>3 DEF Admitted, Alone, Threads
  <2>4. QED
    BY <2>2, <2>3, DisableFrame DEF SwitchedOff, Threads
<1>7. ASSUME NEW c \in Conns, HelloConfirmed(c) PROVE DisableOwed'
  <2>1. /\ registry' = registry /\ player' = player /\ key' = key /\ row' = row
        /\ row.exists /\ row.active /\ row.key = key[c]
    BY <1>7 DEF HelloConfirmed, KeyValid, Resolves
  <2>2. Alone(c) /\ th[c].at = "validate"
    BY <1>7, HelloConfirmedMoves DEF HelloConfirmed, Into, Rests, Passes, Returns, Home, Self,
       Threads, At
  <2>3. ASSUME NEW d \in Conns, d # c, Admitted(d)' PROVE Admitted(d)
    BY <2>1, <2>2, <2>3 DEF Admitted, Alone, Threads
  <2>4. QED
    BY <2>1, <2>2, <2>3, DisableFrame DEF SwitchedOff, Threads
<1>8. ASSUME NEW c \in Conns, ReadFails(c) PROVE DisableOwed'
  BY <1>8, ReadFailsMoves, DisableFrame DEF ReadFails, Into, Rests, Passes, Returns, Home, Self,
     Threads, At, Admitted, SwitchedOff, Alone
<1>9. ASSUME NEW c \in Conns, QuitLeave(c) PROVE DisableOwed'
  BY <1>9, QuitLeaveMoves, DisableFrame DEF QuitLeave, Into, Rests, Passes, Returns, Home, Self,
     Threads, At, Admitted, SwitchedOff, Alone
<1>10. ASSUME NEW c \in Conns, QuitUnregister(c) PROVE DisableOwed'
  BY <1>10, QuitUnregisterMoves, DisableFrame DEF QuitUnregister, Into, Rests, Passes, Returns,
     Home, Self, Threads, At, Admitted, SwitchedOff, Alone, Unregistered
<1>11. ASSUME NEW t \in Tasks, CreatePlayer(t) PROVE DisableOwed'
  BY <1>11 DEF CreatePlayer, InsertPlayer, DisableOwed
<1>12. ASSUME NEW t \in Tasks, NEW v \in 1 .. 3, UpdateRead(t, v) PROVE DisableOwed'
  BY <1>12, UpdateReadMoves, DisableFrame DEF UpdateRead, Into, Rests, Passes, Returns, Home,
     Self, Threads, At, Admitted, SwitchedOff, Alone, Request
<1>13. ASSUME NEW t \in Tasks, UpdateWrite(t) PROVE DisableOwed'
  <2>1. CASE row.exists
    <3>1. th'[t].at = "reread"
      BY <1>13, <2>1, UpdateWriteMoves DEF Into, Rests, Passes, Returns, Home, Self, Threads, At
    <3>2. QED
      BY <3>1 DEF DisableOwed, Revoking
  <2>2. CASE ~row.exists
    <3>1. row' = row
      BY <1>13, <2>2 DEF UpdateWrite
    <3>2. QED
      BY <2>2, <3>1 DEF DisableOwed
  <2>3. QED
    BY <2>1, <2>2
<1>14. ASSUME NEW t \in Tasks, UpdateReread(t) PROVE DisableOwed'
  <2>1. CASE row.exists /\ ~row.active
    <3>1. th'[t].at = "revoke"
      BY <1>14, <2>1, UpdateRereadMoves DEF Into, Rests, Passes, Returns, Home, Self, Threads, At
    <3>2. QED
      BY <3>1 DEF DisableOwed, Revoking
  <2>2. CASE ~(row.exists /\ ~row.active)
    <3>1. row' = row
      BY <1>14 DEF UpdateReread
    <3>2. QED
      BY <2>2, <3>1 DEF DisableOwed
  <2>3. QED
    BY <2>1, <2>2
<1>15. ASSUME NEW t \in Tasks, RotateKey(t) PROVE DisableOwed'
  <2>1. th'[t].at = "revoke"
    BY <1>15, RotateKeyMoves DEF Into, Rests, Passes, Returns, Home, Self, Threads, At
  <2>2. QED
    BY <2>1 DEF DisableOwed, Revoking
<1>16. ASSUME NEW t \in Tasks, DeletePlayer(t) PROVE DisableOwed'
  <2>1. th'[t].at = "revoke"
    BY <1>16, DeletePlayerMoves DEF Into, Rests, Passes, Returns, Home, Self, Threads, At
  <2>2. QED
    BY <2>1 DEF DisableOwed, Revoking
<1>17. ASSUME NEW t \in Tasks, Revoke(t) PROVE DisableOwed'
  BY <1>17 DEF Revoke, DisableOwed
<1>18. ASSUME NEW t \in Tasks, NEW r \in Rooms, BindRoomPlayer(t, r) PROVE DisableOwed'
  BY <1>18, BindRoomPlayerMoves, DisableFrame DEF BindRoomPlayer, Into, Rests, Passes, Returns,
     Home, Self, Threads, At, Admitted, SwitchedOff, Alone, Request, SaveBinding
<1>19. ASSUME NEW t \in Tasks, NEW r \in Rooms, SetRoomOutputVolume(t, r) PROVE DisableOwed'
  BY <1>19, SetRoomOutputVolumeMoves, DisableFrame DEF SetRoomOutputVolume, Into, Rests, Passes,
     Returns, Home, Self, Threads, At, Admitted, SwitchedOff, Alone, Request, SaveVolume
<1>20. ASSUME NEW t \in Tasks, UnbindRoomPlayer(t) PROVE DisableOwed'
  BY <1>20, UnbindRoomPlayerMoves, DisableFrame DEF UnbindRoomPlayer, Into, Rests, Passes,
     Returns, Home, Self, Threads, At, Admitted, SwitchedOff, Alone, Request, RemoveBinding
<1>21. ASSUME NEW t \in Tasks, UnbindCheck(t) PROVE DisableOwed'
  BY <1>21, UnbindCheckMoves, DisableFrame DEF UnbindCheck, Into, Rests, Passes, Returns, Home,
     Self, Threads, At, Admitted, SwitchedOff, Alone
<1>22. ASSUME NEW t \in Tasks, CommandTargets(t) PROVE DisableOwed'
  BY <1>22, CommandTargetsMoves, DisableFrame DEF CommandTargets, Into, Rests, Passes, Returns,
     Home, Self, Threads, At, Admitted, SwitchedOff, Alone, RoomPlayers
<1>23. ASSUME NEW t \in Threads, MoveLookup(t) PROVE DisableOwed'
  BY <1>23, MoveLookupMoves, DisableFrame DEF MoveLookup, Into, Rests, Passes, Returns, Home,
     Self, Threads, At, Admitted, SwitchedOff, Alone
<1>24. ASSUME NEW t \in Threads, MoveLeave(t) PROVE DisableOwed'
  BY <1>24, MoveLeaveMoves, DisableFrame DEF MoveLeave, Into, Rests, Passes, Returns, Home, Self,
     Threads, At, Admitted, SwitchedOff, Alone
<1>25. ASSUME NEW t \in Threads, MoveSet(t) PROVE DisableOwed'
  BY <1>25, MoveSetMoves, DisableFrame DEF MoveSet, Into, Rests, Passes, Returns, Home, Self,
     Threads, At, Admitted, SwitchedOff, Alone
<1>26. ASSUME NEW t \in Threads, MoveJoin(t) PROVE DisableOwed'
  BY <1>26, MoveJoinMoves, DisableFrame DEF MoveJoin, Into, Rests, Passes, Returns, Home, Self,
     Threads, At, Admitted, SwitchedOff, Alone
<1>27. ASSUME NEW t \in Threads, ApplyRead(t) PROVE DisableOwed'
  BY <1>27, ApplyReadMoves, DisableFrame DEF ApplyRead, Into, Rests, Passes, Returns, Home, Self,
     Threads, At, Admitted, SwitchedOff, Alone
<1>28. ASSUME NEW t \in Threads, SendVolume(t) PROVE DisableOwed'
  BY <1>28, SendVolumeMoves, DisableFrame DEF SendVolume, Into, Rests, Passes, Returns, Home,
     Self, Threads, At, Admitted, SwitchedOff, Alone
<1>29. CASE UNCHANGED vars
  BY <1>29 DEF vars, DisableOwed, Admitted, Revoking
<1>30. QED
  BY <1>1, <1>2, <1>3, <1>4, <1>5, <1>6, <1>7, <1>8, <1>9, <1>10, <1>11, <1>12, <1>13, <1>14,
     <1>15, <1>16, <1>17, <1>18, <1>19, <1>20, <1>21, <1>22, <1>23, <1>24, <1>25, <1>26, <1>27,
     <1>28, <1>29 DEF Next, ReadLoop, Handler, Move, Threads

(* ------------------- moves between rooms, volumes offered ------------------ *)
\* Where a move has not yet made the connection a client of the room it shows.
Missing(c) == ~Ended(c) /\ room[c] # None /\ c \notin members[room[c]]

LEMMA PresenceFrame ==
  ASSUME PresenceInv, NEW t \in Threads, Alone(t), th[t].at \notin {"set", "join"},
         room' = room, \A d \in Conns : Missing(d)' => Missing(d)
  PROVE  PresenceInv'
<1> SUFFICES ASSUME NEW d \in Conns, Missing(d)' PROVE \E u \in Threads : Brings(u, d, room[d])'
  BY DEF PresenceInv, Missing
<1>1. PICK u \in Threads : Brings(u, d, room[d])
  BY DEF PresenceInv, Missing
<1>2. Brings(u, d, room[d])'
  BY <1>1 DEF Brings, Alone
<1>3. QED
  BY <1>2

LEMMA StepPresence == TypeInv /\ PresenceInv /\ [Next]_vars => PresenceInv'
<1> SUFFICES ASSUME TypeInv /\ PresenceInv, [Next]_vars PROVE PresenceInv'
  OBVIOUS
<1> USE PlayersAssumption DEF store, conn, counters
<1>1. ASSUME NEW t \in Threads, Disconnect(t) PROVE PresenceInv'
  BY <1>1, DisconnectMoves, PresenceFrame DEF Disconnect, Into, Rests, Passes, Returns, Home,
     Self, Threads, At, Missing, Ended, Alone
<1>2. ASSUME NEW t \in Threads, CloseOnce(t) PROVE PresenceInv'
  BY <1>2, CloseOnceMoves, PresenceFrame DEF CloseOnce, Into, Rests, Passes, Returns, Home, Self,
     Threads, At, Missing, Ended, Alone
<1>3. ASSUME NEW c \in Conns, AuthPlayer(c) PROVE PresenceInv'
  BY <1>3, AuthPlayerMoves, PresenceFrame DEF AuthPlayer, Into, Rests, Passes, Returns, Home,
     Self, Threads, At, Missing, Ended, Alone, Resolves
<1>4. ASSUME NEW c \in Conns, HelloBinding(c) PROVE PresenceInv'
  BY <1>4, HelloBindingMoves, PresenceFrame DEF HelloBinding, Into, Rests, Passes, Returns, Home,
     Self, Threads, At, Missing, Ended, Alone
<1>5. ASSUME NEW c \in Conns, HelloRegister(c) PROVE PresenceInv'
  <2>1. /\ room' = room /\ members' = members /\ Alone(c) /\ th[c].at = "register"
        /\ th'[c].at \in {"validate", "close"}
    BY <1>5, HelloRegisterMoves DEF HelloRegister, Into, Rests, Passes, Returns, Home, Self,
       Threads, At
  <2>2. ASSUME NEW d \in Conns, Missing(d)' PROVE Missing(d)
    BY <2>1, <2>2 DEF Missing, Ended, Alone, Threads
  <2>3. QED
    BY <2>1, <2>2, PresenceFrame DEF Threads
<1>6. ASSUME NEW c \in Conns, HelloRevoked(c) PROVE PresenceInv'
  BY <1>6, HelloRevokedMoves, PresenceFrame DEF HelloRevoked, Into, Rests, Passes, Returns, Home,
     Self, Threads, At, Missing, Ended, Alone, Unregistered, KeyValid, Resolves
<1>7. ASSUME NEW c \in Conns, HelloConfirmed(c) PROVE PresenceInv'
  BY <1>7, HelloConfirmedMoves, PresenceFrame DEF HelloConfirmed, Into, Rests, Passes, Returns,
     Home, Self, Threads, At, Missing, Ended, Alone, KeyValid, Resolves
<1>8. ASSUME NEW c \in Conns, ReadFails(c) PROVE PresenceInv'
  BY <1>8, ReadFailsMoves, PresenceFrame DEF ReadFails, Into, Rests, Passes, Returns, Home, Self,
     Threads, At, Missing, Ended, Alone
<1>9. ASSUME NEW c \in Conns, QuitLeave(c) PROVE PresenceInv'
  <2>1. room' = room /\ Alone(c) /\ th[c].at = "quit" /\ th'[c].at = "unregister"
    BY <1>9, QuitLeaveMoves DEF QuitLeave, Into, Rests, Passes, Returns, Home, Self, Threads, At
  <2>2. ASSUME NEW d \in Conns, d # c, room[d] \in Rooms
        PROVE  d \in members[room[d]] => d \in members'[room[d]]
    BY <1>9, <2>2 DEF QuitLeave
  <2>3. ASSUME NEW d \in Conns, Missing(d)' PROVE Missing(d)
    BY <2>1, <2>2, <2>3 DEF Missing, Ended, Alone, Threads, TypeInv, TypeOK
  <2>4. QED
    BY <2>1, <2>3, PresenceFrame DEF Threads
<1>10. ASSUME NEW c \in Conns, QuitUnregister(c) PROVE PresenceInv'
  BY <1>10, QuitUnregisterMoves, PresenceFrame DEF QuitUnregister, Into, Rests, Passes, Returns,
     Home, Self, Threads, At, Missing, Ended, Alone, Unregistered
<1>11. ASSUME NEW t \in Tasks, CreatePlayer(t) PROVE PresenceInv'
  BY <1>11 DEF CreatePlayer, Request, PresenceInv, Ended, Brings
<1>12. ASSUME NEW t \in Tasks, NEW v \in 1 .. 3, UpdateRead(t, v) PROVE PresenceInv'
  BY <1>12, UpdateReadMoves, PresenceFrame DEF UpdateRead, Into, Rests, Passes, Returns, Home,
     Self, Threads, At, Missing, Ended, Alone, Request
<1>13. ASSUME NEW t \in Tasks, UpdateWrite(t) PROVE PresenceInv'
  BY <1>13, UpdateWriteMoves, PresenceFrame DEF UpdateWrite, Into, Rests, Passes, Returns, Home,
     Self, Threads, At, Missing, Ended, Alone, SaveActive
<1>14. ASSUME NEW t \in Tasks, UpdateReread(t) PROVE PresenceInv'
  BY <1>14, UpdateRereadMoves, PresenceFrame DEF UpdateReread, Into, Rests, Passes, Returns, Home,
     Self, Threads, At, Missing, Ended, Alone
<1>15. ASSUME NEW t \in Tasks, RotateKey(t) PROVE PresenceInv'
  BY <1>15, RotateKeyMoves, PresenceFrame DEF RotateKey, Into, Rests, Passes, Returns, Home, Self,
     Threads, At, Missing, Ended, Alone, Request, SaveToken
<1>16. ASSUME NEW t \in Tasks, DeletePlayer(t) PROVE PresenceInv'
  BY <1>16, DeletePlayerMoves, PresenceFrame DEF DeletePlayer, Into, Rests, Passes, Returns, Home,
     Self, Threads, At, Missing, Ended, Alone, Request, RemovePlayer
<1>17. ASSUME NEW t \in Tasks, Revoke(t) PROVE PresenceInv'
  BY <1>17, RevokeMoves, PresenceFrame DEF Revoke, Into, Rests, Passes, Returns, Home, Self,
     Threads, At, Missing, Ended, Alone
<1>18. ASSUME NEW t \in Tasks, NEW r \in Rooms, BindRoomPlayer(t, r) PROVE PresenceInv'
  BY <1>18, BindRoomPlayerMoves, PresenceFrame DEF BindRoomPlayer, Into, Rests, Passes, Returns,
     Home, Self, Threads, At, Missing, Ended, Alone, Request, SaveBinding
<1>19. ASSUME NEW t \in Tasks, NEW r \in Rooms, SetRoomOutputVolume(t, r) PROVE PresenceInv'
  BY <1>19, SetRoomOutputVolumeMoves, PresenceFrame DEF SetRoomOutputVolume, Into, Rests, Passes,
     Returns, Home, Self, Threads, At, Missing, Ended, Alone, Request, SaveVolume
<1>20. ASSUME NEW t \in Tasks, UnbindRoomPlayer(t) PROVE PresenceInv'
  BY <1>20, UnbindRoomPlayerMoves, PresenceFrame DEF UnbindRoomPlayer, Into, Rests, Passes,
     Returns, Home, Self, Threads, At, Missing, Ended, Alone, Request, RemoveBinding
<1>21. ASSUME NEW t \in Tasks, UnbindCheck(t) PROVE PresenceInv'
  BY <1>21, UnbindCheckMoves, PresenceFrame DEF UnbindCheck, Into, Rests, Passes, Returns, Home,
     Self, Threads, At, Missing, Ended, Alone
<1>22. ASSUME NEW t \in Tasks, CommandTargets(t) PROVE PresenceInv'
  BY <1>22, CommandTargetsMoves, PresenceFrame DEF CommandTargets, Into, Rests, Passes, Returns,
     Home, Self, Threads, At, Missing, Ended, Alone, RoomPlayers
<1>23. ASSUME NEW t \in Threads, MoveLookup(t) PROVE PresenceInv'
  BY <1>23, MoveLookupMoves, PresenceFrame DEF MoveLookup, Into, Rests, Passes, Returns, Home,
     Self, Threads, At, Missing, Ended, Alone
<1>24. ASSUME NEW t \in Threads, MoveLeave(t) PROVE PresenceInv'
  <2>1. /\ room' = room /\ Alone(t) /\ th[t].at = "leave" /\ th'[t].at = "set" /\ th'[t].c = th[t].c
    BY <1>24, MoveLeaveMoves DEF MoveLeave, Into, Rests, Passes, Returns, Home, Self, Threads, At
  <2>2. ASSUME NEW d \in Conns, d # th[t].c, room[d] \in Rooms
        PROVE  d \in members[room[d]] => d \in members'[room[d]]
    BY <1>24, <2>2 DEF MoveLeave
  <2>3. Brings(t, th[t].c, room[th[t].c])'
    BY <2>1 DEF Brings
  <2>4. ASSUME NEW d \in Conns, d # th[t].c, Missing(d)'
        PROVE  \E u \in Threads : Brings(u, d, room[d])'
    <3>1. Missing(d)
      BY <2>1, <2>2, <2>4 DEF Missing, Ended, Alone, Threads, TypeInv, TypeOK
    <3>2. PICK u \in Threads : Brings(u, d, room[d])
      BY <3>1 DEF PresenceInv, Missing
    <3>3. Brings(u, d, room[d])'
      BY <2>1, <3>2 DEF Brings, Alone
    <3>4. QED
      BY <3>3
  <2>5. QED
    BY <2>1, <2>3, <2>4 DEF PresenceInv, Missing
<1>25. ASSUME NEW t \in Threads, MoveSet(t) PROVE PresenceInv'
  <2>1. PICK c \in Conns : c = th[t].c
    BY <1>25 DEF MoveSet, At, TypeInv, ThreadsOK, Sound, OnConn
  <2>2. /\ members' = members /\ Alone(t) /\ th[t].at = "set"
        /\ room'[c] = th[t].r /\ \A d \in Conns : d # c => room'[d] = room[d]
    BY <1>25, <2>1, MoveSetMoves DEF MoveSet, Into, Rests, Passes, Returns, Home, Self, Threads,
       At, TypeInv, TypeOK
  <2>3. th[t].r # None => th'[t].c = c /\ th'[t].at = "join" /\ th'[t].r = th[t].r
    BY <1>25, <2>1, MoveSetMoves DEF Into, Rests, Passes, Returns, Home, Self, Threads, At
  <2>4. ASSUME NEW d \in Conns, d # c, Missing(d)'
        PROVE  \E u \in Threads : Brings(u, d, room[d])'
    <3>1. Missing(d)
      BY <1>25, <2>2, <2>4, MoveSetMoves DEF Into, Rests, Passes, Returns, Home, Self, Threads,
         At, Missing, Ended, Alone
    <3>2. PICK u \in Threads : Brings(u, d, room[d])
      BY <3>1 DEF PresenceInv, Missing
    <3>3. u # t
      BY <2>1, <2>4, <3>2 DEF Brings
    <3>4. Brings(u, d, room[d])'
      BY <2>2, <2>4, <3>2, <3>3 DEF Brings, Alone
    <3>5. QED
      BY <3>4
  <2>5. Missing(c)' => \E u \in Threads : Brings(u, c, room[c])'
    <3>1. HAVE Missing(c)'
    <3>2. room'[c] = th[t].r /\ th[t].r # None
      BY <2>2, <3>1 DEF Missing
    <3>3. Brings(t, c, room[c])'
      BY <2>3, <3>2 DEF Brings
    <3>4. QED
      BY <3>3
  <2>6. ASSUME NEW d \in Conns, Missing(d)' PROVE \E u \in Threads : Brings(u, d, room[d])'
    BY <2>4, <2>5, <2>6
  <2>7. QED
    BY <2>6 DEF PresenceInv, Missing
<1>26. ASSUME NEW t \in Threads, MoveJoin(t) PROVE PresenceInv'
  <2>1. /\ room' = room /\ Alone(t) /\ th[t].at = "join" /\ th[t].c \in Conns /\ th[t].r \in Rooms
        /\ members' = [members EXCEPT ![th[t].r] = members[th[t].r] \cup {th[t].c}] /\ th'[t].at = "apply"
    BY <1>26, MoveJoinMoves DEF MoveJoin, Into, Rests, Passes, Returns, Home, Self, Threads, At,
       TypeInv, ThreadsOK, Sound, OnConn
  <2>2. /\ th[t].c \in members'[th[t].r]
        /\ \A x \in Rooms : members[x] \subseteq members'[x]
    BY <2>1 DEF TypeInv, TypeOK
  <2>3. ASSUME NEW d \in Conns, Missing(d)'
        PROVE  \E u \in Threads : Brings(u, d, room[d])'
    <3>1. Missing(d)
      BY <2>1, <2>2, <2>3 DEF Missing, Ended, Alone, Threads, TypeInv, TypeOK
    <3>2. PICK u \in Threads : Brings(u, d, room[d])
      BY <3>1 DEF PresenceInv, Missing
    <3>3. u # t
      BY <2>1, <2>2, <2>3, <3>2 DEF Brings, Missing
    <3>4. Brings(u, d, room[d])'
      BY <2>1, <3>2, <3>3 DEF Brings, Alone
    <3>5. QED
      BY <3>4
  <2>4. QED
    BY <2>3 DEF PresenceInv, Missing
<1>27. ASSUME NEW t \in Threads, ApplyRead(t) PROVE PresenceInv'
  BY <1>27, ApplyReadMoves, PresenceFrame DEF ApplyRead, Into, Rests, Passes, Returns, Home, Self,
     Threads, At, Missing, Ended, Alone
<1>28. ASSUME NEW t \in Threads, SendVolume(t) PROVE PresenceInv'
  BY <1>28, SendVolumeMoves, PresenceFrame DEF SendVolume, Into, Rests, Passes, Returns, Home,
     Self, Threads, At, Missing, Ended, Alone
<1>29. CASE UNCHANGED vars
  BY <1>29 DEF vars, PresenceInv, Ended, Brings
<1>30. QED
  BY <1>1, <1>2, <1>3, <1>4, <1>5, <1>6, <1>7, <1>8, <1>9, <1>10, <1>11, <1>12, <1>13, <1>14,
     <1>15, <1>16, <1>17, <1>18, <1>19, <1>20, <1>21, <1>22, <1>23, <1>24, <1>25, <1>26, <1>27,
     <1>28, <1>29 DEF Next, ReadLoop, Handler, Move, Threads

\* A volume of its room that the registered connection has not been sent.
Due(c) == registry = c /\ room[c] # None /\ output[room[c]] \notin sent[c].all
Offering(c) == \E t \in Threads : Carries(t, c, room[c], output[room[c]])

LEMMA OfferFrame ==
  ASSUME OfferInv, NEW t \in Threads, Alone(t), room' = room, output' = output, sent' = sent,
         \A d \in Conns : Due(d)' => Due(d),
         \A d \in Conns : Due(d)' /\ Carries(t, d, room[d], output[room[d]]) =>
           Carries(t, d, room[d], output[room[d]])'
  PROVE  OfferInv'
<1>1. ASSUME NEW d \in Conns, Due(d)' PROVE Offering(d)'
  <2>1. PICK u \in Threads : Carries(u, d, room[d], output[room[d]])
    BY <1>1 DEF OfferInv, Due
  <2>2. Carries(u, d, room[d], output[room[d]])'
    <3>1. CASE u = t
      BY <1>1, <2>1, <3>1
    <3>2. CASE u # t
      BY <2>1, <3>2 DEF Carries, Alone
    <3>3. QED
      BY <3>1, <3>2
  <2>3. QED
    BY <2>2 DEF Offering
<1>2. QED
  BY <1>1 DEF OfferInv, Due, Offering

LEMMA StepOffer == TypeInv /\ HolderIsPlayer /\ OfferInv /\ [Next]_vars => OfferInv'
<1> SUFFICES ASSUME TypeInv /\ HolderIsPlayer /\ OfferInv, [Next]_vars PROVE OfferInv'
  OBVIOUS
<1> USE PlayersAssumption DEF store, conn, counters
<1>1. ASSUME NEW t \in Threads, Disconnect(t) PROVE OfferInv'
  BY <1>1, DisconnectMoves, OfferFrame DEF Disconnect, Into, Rests, Passes, Returns, Home, Self,
     Threads, At, Due, Carries, Alone
<1>2. ASSUME NEW t \in Threads, CloseOnce(t) PROVE OfferInv'
  <2>1. th[t].ret \in {"free", "validate", "idle", "quit"}
    BY DEF TypeInv, ThreadsOK, ThreadState
  <2>2. /\ room' = room /\ output' = output /\ sent' = sent /\ registry' = registry
        /\ Alone(t) /\ th[t].at = "closing"
    BY <1>2, CloseOnceMoves DEF CloseOnce, Into, Rests, Passes, Returns, Home, Self, Threads, At
  <2>3. t \in Conns /\ th[t].ret = "validate" => th'[t].at = "validate"
    BY <1>2, CloseOnceMoves DEF Into, Rests, Passes, Returns, Home, Self, Threads, At
  <2>4. ASSUME NEW d \in Conns, Carries(t, d, room[d], output[room[d]])
        PROVE  Carries(t, d, room[d], output[room[d]])'
    BY <2>2, <2>3, <2>4 DEF Carries
  <2>5. QED
    BY <2>2, <2>4, OfferFrame DEF Due
<1>3. ASSUME NEW c \in Conns, AuthPlayer(c) PROVE OfferInv'
  BY <1>3, AuthPlayerMoves, OfferFrame DEF AuthPlayer, Into, Rests, Passes, Returns, Home, Self,
     Threads, At, Due, Carries, Alone, Resolves
<1>4. ASSUME NEW c \in Conns, HelloBinding(c) PROVE OfferInv'
  BY <1>4, HelloBindingMoves, OfferFrame DEF HelloBinding, Into, Rests, Passes, Returns, Home,
     Self, Threads, At, Due, Carries, Alone
<1>5. ASSUME NEW c \in Conns, HelloRegister(c) PROVE OfferInv'
  <2>1. /\ registry' = c /\ sent' = sent
        /\ th'[c].at = "validate" \/ (th'[c].at = "close" /\ th'[c].ret = "validate")
    BY <1>5, HelloRegisterMoves DEF HelloRegister, Into, Rests, Passes, Returns, Home, Self,
       Threads, At
  <2>2. Carries(c, c, room[c], output[room[c]])' /\ c \in Threads
    BY <2>1 DEF Carries, Threads
  <2>3. QED
    BY <2>1, <2>2 DEF OfferInv
<1>6. ASSUME NEW c \in Conns, HelloRevoked(c) PROVE OfferInv'
  <2>1. registry' = registry \/ registry' = None
    BY <1>6 DEF HelloRevoked, Unregistered
  <2>2. registry = c => registry' = None
    BY <1>6 DEF HelloRevoked, Unregistered, HolderIsPlayer
  <2>3. room' = room /\ output' = output /\ sent' = sent /\ Alone(c) /\ th[c].at = "validate"
    BY <1>6, HelloRevokedMoves DEF HelloRevoked, Into, At
  <2>4. ASSUME NEW d \in Conns, Due(d)' PROVE Due(d) /\ d # c
    BY <2>1, <2>2, <2>3, <2>4 DEF Due
  <2>5. ASSUME NEW d \in Conns, d # c PROVE ~Carries(c, d, room[d], output[room[d]])
    BY <2>3, <2>5 DEF Carries
  <2>6. QED
    BY <2>3, <2>4, <2>5, OfferFrame DEF Threads
<1>7. ASSUME NEW c \in Conns, HelloConfirmed(c) PROVE OfferInv'
  <2>1. /\ room' = room /\ output' = output /\ sent' = sent /\ registry' = registry
        /\ Alone(c) /\ th[c].at = "validate" /\ th'[c].c = c /\ th'[c].at \in {"apply", "lookup"}
    BY <1>7, HelloConfirmedMoves DEF HelloConfirmed, Into, Rests, Passes, Returns, Home, Self,
       Threads, At
  <2>2. ASSUME NEW d \in Conns, Carries(c, d, room[d], output[room[d]])
        PROVE  Carries(c, d, room[d], output[room[d]])'
    BY <2>1, <2>2 DEF Carries
  <2>3. QED
    BY <2>1, <2>2, OfferFrame DEF Due, Threads
<1>8. ASSUME NEW c \in Conns, ReadFails(c) PROVE OfferInv'
  BY <1>8, ReadFailsMoves, OfferFrame DEF ReadFails, Into, Rests, Passes, Returns, Home, Self,
     Threads, At, Due, Carries, Alone
<1>9. ASSUME NEW c \in Conns, QuitLeave(c) PROVE OfferInv'
  BY <1>9, QuitLeaveMoves, OfferFrame DEF QuitLeave, Into, Rests, Passes, Returns, Home, Self,
     Threads, At, Due, Carries, Alone
<1>10. ASSUME NEW c \in Conns, QuitUnregister(c) PROVE OfferInv'
  BY <1>10, QuitUnregisterMoves, OfferFrame DEF QuitUnregister, Into, Rests, Passes, Returns,
     Home, Self, Threads, At, Due, Carries, Alone, Unregistered
<1>11. ASSUME NEW t \in Tasks, CreatePlayer(t) PROVE OfferInv'
  BY <1>11 DEF CreatePlayer, Request, OfferInv, Carries
<1>12. ASSUME NEW t \in Tasks, NEW v \in 1 .. 3, UpdateRead(t, v) PROVE OfferInv'
  BY <1>12, UpdateReadMoves, OfferFrame DEF UpdateRead, Into, Rests, Passes, Returns, Home, Self,
     Threads, At, Due, Carries, Alone, Request
<1>13. ASSUME NEW t \in Tasks, UpdateWrite(t) PROVE OfferInv'
  BY <1>13, UpdateWriteMoves, OfferFrame DEF UpdateWrite, Into, Rests, Passes, Returns, Home,
     Self, Threads, At, Due, Carries, Alone, SaveActive
<1>14. ASSUME NEW t \in Tasks, UpdateReread(t) PROVE OfferInv'
  BY <1>14, UpdateRereadMoves, OfferFrame DEF UpdateReread, Into, Rests, Passes, Returns, Home,
     Self, Threads, At, Due, Carries, Alone
<1>15. ASSUME NEW t \in Tasks, RotateKey(t) PROVE OfferInv'
  BY <1>15, RotateKeyMoves, OfferFrame DEF RotateKey, Into, Rests, Passes, Returns, Home, Self,
     Threads, At, Due, Carries, Alone, Request, SaveToken
<1>16. ASSUME NEW t \in Tasks, DeletePlayer(t) PROVE OfferInv'
  BY <1>16, DeletePlayerMoves, OfferFrame DEF DeletePlayer, Into, Rests, Passes, Returns, Home,
     Self, Threads, At, Due, Carries, Alone, Request, RemovePlayer
<1>17. ASSUME NEW t \in Tasks, Revoke(t) PROVE OfferInv'
  BY <1>17, RevokeMoves, OfferFrame DEF Revoke, Into, Rests, Passes, Returns, Home, Self, Threads,
     At, Due, Carries, Alone
<1>18. ASSUME NEW t \in Tasks, NEW r \in Rooms, BindRoomPlayer(t, r) PROVE OfferInv'
  BY <1>18, BindRoomPlayerMoves, OfferFrame DEF BindRoomPlayer, Into, Rests, Passes, Returns,
     Home, Self, Threads, At, Due, Carries, Alone, Request, SaveBinding
<1>19. ASSUME NEW t \in Tasks, NEW r \in Rooms, SetRoomOutputVolume(t, r) PROVE OfferInv'
  <2>1. /\ room' = room /\ sent' = sent /\ registry' = registry /\ Alone(t) /\ th[t].at = "free"
        /\ th'[t].at = "targets" /\ th'[t].r = r /\ th'[t].v = stored + 1 /\ t \notin Conns
    BY <1>19, SetRoomOutputVolumeMoves DEF SetRoomOutputVolume, Request, Into, Rests, Passes,
       Returns, Home, Self, Threads, At
  <2>2. output'[r] = stored + 1 /\ \A x \in Rooms : x # r => output'[x] = output[x]
    BY <1>19 DEF SetRoomOutputVolume, SaveVolume, TypeInv, TypeOK
  <2>3. ASSUME NEW d \in Conns, Due(d)' PROVE Offering(d)'
    <3>1. CASE room[d] = r
      <4>1. Carries(t, d, room[d], output[room[d]])'
        BY <2>1, <2>2, <3>1 DEF Carries
      <4>2. QED
        BY <4>1 DEF Offering, Threads
    <3>2. CASE room[d] # r
      <4>1. Due(d) /\ output'[room[d]] = output[room[d]]
        BY <2>1, <2>2, <2>3, <3>2 DEF Due, TypeInv, TypeOK
      <4>2. PICK u \in Threads : Carries(u, d, room[d], output[room[d]])
        BY <4>1 DEF OfferInv, Due
      <4>3. u # t
        BY <2>1, <4>2 DEF Carries
      <4>4. Carries(u, d, room[d], output[room[d]])'
        BY <2>1, <4>1, <4>2, <4>3 DEF Carries, Alone
      <4>5. QED
        BY <4>4 DEF Offering
    <3>3. QED
      BY <3>1, <3>2
  <2>4. QED
    BY <2>1, <2>3 DEF OfferInv, Due, Offering
<1>20. ASSUME NEW t \in Tasks, UnbindRoomPlayer(t) PROVE OfferInv'
  BY <1>20, UnbindRoomPlayerMoves, OfferFrame DEF UnbindRoomPlayer, Into, Rests, Passes, Returns,
     Home, Self, Threads, At, Due, Carries, Alone, Request, RemoveBinding
<1>21. ASSUME NEW t \in Tasks, UnbindCheck(t) PROVE OfferInv'
  BY <1>21, UnbindCheckMoves, OfferFrame DEF UnbindCheck, Into, Rests, Passes, Returns, Home,
     Self, Threads, At, Due, Carries, Alone
<1>22. ASSUME NEW t \in Tasks, CommandTargets(t) PROVE OfferInv'
  BY <1>22, CommandTargetsMoves, OfferFrame DEF CommandTargets, Into, Rests, Passes, Returns,
     Home, Self, Threads, At, Due, Carries, Alone, RoomPlayers
<1>23. ASSUME NEW t \in Threads, MoveLookup(t) PROVE OfferInv'
  BY <1>23, MoveLookupMoves, OfferFrame DEF MoveLookup, Into, Rests, Passes, Returns, Home, Self,
     Threads, At, Due, Carries, Alone
<1>24. ASSUME NEW t \in Threads, MoveLeave(t) PROVE OfferInv'
  BY <1>24, MoveLeaveMoves, OfferFrame DEF MoveLeave, Into, Rests, Passes, Returns, Home, Self,
     Threads, At, Due, Carries, Alone
<1>25. ASSUME NEW t \in Threads, MoveSet(t) PROVE OfferInv'
  <2>1. PICK c \in Conns : c = th[t].c
    BY <1>25 DEF MoveSet, At, TypeInv, ThreadsOK, Sound, OnConn
  <2>2. /\ output' = output /\ sent' = sent /\ registry' = registry /\ Alone(t) /\ th[t].at = "set"
        /\ room'[c] = th[t].r /\ \A d \in Conns : d # c => room'[d] = room[d]
    BY <1>25, <2>1, MoveSetMoves DEF MoveSet, Into, Rests, Passes, Returns, Home, Self, Threads,
       At, TypeInv, TypeOK
  <2>3. th[t].r # None => th'[t].c = c /\ th'[t].at = "join"
    BY <1>25, <2>1, MoveSetMoves DEF Into, Rests, Passes, Returns, Home, Self, Threads, At
  <2>4. ASSUME NEW d \in Conns, d # c, Due(d)' PROVE Offering(d)'
    <3>1. Due(d) /\ room'[d] = room[d]
      BY <2>2, <2>4 DEF Due
    <3>2. PICK u \in Threads : Carries(u, d, room[d], output[room[d]])
      BY <3>1 DEF OfferInv, Due
    <3>3. u # t
      BY <2>1, <2>2, <2>4, <3>2 DEF Carries
    <3>4. Carries(u, d, room[d], output[room[d]])'
      BY <2>2, <3>1, <3>2, <3>3 DEF Carries, Alone
    <3>5. QED
      BY <3>4 DEF Offering
  <2>5. Due(c)' => Offering(c)'
    <3>1. HAVE Due(c)'
    <3>2. Carries(t, c, room[c], output[room[c]])'
      BY <2>2, <2>3, <3>1 DEF Due, Carries
    <3>3. QED
      BY <3>2 DEF Offering
  <2>6. ASSUME NEW d \in Conns, Due(d)' PROVE Offering(d)'
    BY <2>4, <2>5, <2>6
  <2>7. QED
    BY <2>2, <2>6 DEF OfferInv, Due, Offering
<1>26. ASSUME NEW t \in Threads, MoveJoin(t) PROVE OfferInv'
  BY <1>26, MoveJoinMoves, OfferFrame DEF MoveJoin, Into, Rests, Passes, Returns, Home, Self,
     Threads, At, Due, Carries, Alone
<1>27. ASSUME NEW t \in Threads, ApplyRead(t) PROVE OfferInv'
  <2>1. PICK c \in Conns : c = th[t].c
    BY <1>27 DEF ApplyRead, At, TypeInv, ThreadsOK, Sound, OnConn
  <2>2. /\ room' = room /\ output' = output /\ sent' = sent /\ registry' = registry
        /\ Alone(t) /\ th[t].at = "apply"
    BY <1>27, ApplyReadMoves DEF ApplyRead, Into, Rests, Passes, Returns, Home, Self, Threads, At
  <2>3. ASSUME NEW d \in Conns, Due(d), Carries(t, d, room[d], output[room[d]])
        PROVE  Carries(t, d, room[d], output[room[d]])'
    <3>1. d = c /\ player[c] /\ room[c] # None /\ output[room[c]] # 0
      BY <2>1, <2>2, <2>3 DEF Carries, Due, OfferInv, HolderIsPlayer
    <3>2. th'[t].at = "send" /\ th'[t].c = c /\ th'[t].v = output[room[c]]
      BY <1>27, <2>1, <3>1, ApplyReadMoves DEF Into
    <3>3. QED
      BY <2>2, <3>1, <3>2 DEF Carries
  <2>4. QED
    BY <2>2, <2>3, OfferFrame DEF Due
<1>28. ASSUME NEW t \in Threads, SendVolume(t) PROVE OfferInv'
  <2>1. PICK c \in Conns, v \in Nat : c = th[t].c /\ v = th[t].v
    BY <1>28 DEF SendVolume, At, TypeInv, ThreadsOK, Sound, ThreadState, OnConn
  <2>2. /\ room' = room /\ output' = output /\ registry' = registry
        /\ Alone(t) /\ th[t].at = "send"
        /\ sent' = [sent EXCEPT ![c] = [last |-> v, all |-> sent[c].all \cup {v}]]
    BY <1>28, <2>1, SendVolumeMoves DEF SendVolume, Into, Rests, Passes, Returns, Home, Self,
       Threads, At
  <2>3. v \in sent'[c].all /\ \A d \in Conns : sent[d].all \subseteq sent'[d].all
    BY <2>2 DEF TypeInv, TypeOK
  <2>4. ASSUME NEW d \in Conns, Due(d)' PROVE Offering(d)'
    <3>1. Due(d)
      BY <2>2, <2>3, <2>4 DEF Due
    <3>2. PICK u \in Threads : Carries(u, d, room[d], output[room[d]])
      BY <3>1 DEF OfferInv, Due
    <3>3. u # t
      BY <2>1, <2>2, <2>3, <2>4, <3>2 DEF Carries, Due
    <3>4. Carries(u, d, room[d], output[room[d]])'
      BY <2>2, <3>2, <3>3 DEF Carries, Alone
    <3>5. QED
      BY <3>4 DEF Offering
  <2>5. \A d \in Conns : 0 \in sent'[d].all
    BY <2>3 DEF OfferInv
  <2>6. QED
    BY <2>4, <2>5 DEF OfferInv, Due, Offering
<1>29. CASE UNCHANGED vars
  BY <1>29 DEF vars, OfferInv, Carries
<1>30. QED
  BY <1>1, <1>2, <1>3, <1>4, <1>5, <1>6, <1>7, <1>8, <1>9, <1>10, <1>11, <1>12, <1>13, <1>14,
     <1>15, <1>16, <1>17, <1>18, <1>19, <1>20, <1>21, <1>22, <1>23, <1>24, <1>25, <1>26, <1>27,
     <1>28, <1>29 DEF Next, ReadLoop, Handler, Move, Threads

(* -------------------------------- the theorems ----------------------------- *)
LEMMA PlaneInvHolds == Spec => []PlaneInv
<1>1. Init => PlaneInv
  <2> SUFFICES ASSUME Init PROVE PlaneInv
    OBVIOUS
  <2>1. TypeInv
    BY InitType
  <2>2. registry = None /\ \A c \in Conns : ~player[c] /\ room[c] = None /\ sent[c].all = {0}
    BY DEF Init
  <2>3. RegistryExact /\ RevokeInv /\ PresenceInv /\ OfferInv
    BY <2>2, PlayersAssumption DEF RegistryExact, RevokeInv, KeyOwed, DisableOwed, PresenceInv,
       OfferInv
  <2>4. QED
    BY <2>1, <2>3 DEF PlaneInv
<1>2. PlaneInv /\ [Next]_vars => PlaneInv'
  <2> SUFFICES ASSUME PlaneInv, [Next]_vars PROVE PlaneInv'
    OBVIOUS
  <2>1. HolderIsPlayer /\ OpenIsHolder
    BY DEF PlaneInv, RegistryExact, HolderIsPlayer, OpenIsHolder
  <2>2. HolderIsPlayer' /\ OpenIsHolder' /\ TypeInv'
    BY <2>1, StepType, StepHolder, StepOpen DEF PlaneInv
  <2>3. RegistryExact'
    BY <2>2 DEF RegistryExact, HolderIsPlayer, OpenIsHolder
  <2>4. RevokeInv'
    BY <2>1, StepKey, StepDisable DEF PlaneInv, RevokeInv
  <2>5. PresenceInv' /\ OfferInv'
    BY <2>1, StepPresence, StepOffer DEF PlaneInv
  <2>6. QED
    BY <2>2, <2>3, <2>4, <2>5 DEF PlaneInv
<1>3. QED
  BY <1>1, <1>2, PTL DEF Spec

(* The registry and the connections agree in every state: an old connection    *)
(* never takes the entry of its successor with it, and none that has ended     *)
(* stays in it (registerPlayer, unregisterPlayer, DisconnectPlayer).           *)
THEOREM RegistryIsExact == Spec => []RegistryExact
<1>1. PlaneInv => RegistryExact
  BY DEF PlaneInv
<1>2. QED
  BY <1>1, PlaneInvHolds, PTL

(* With no revocation pending, whoever is registered and admitted holds the    *)
(* current key of an active row: the second look at the key after              *)
(* registerPlayer leaves no gap for a rotation, a disabling or a deletion to   *)
(* slip through.                                                               *)
THEOREM RevocationIsComplete == Spec => []RevokedOffline
<1>1. PlaneInv => RevokedOffline
  <2> SUFFICES ASSUME PlaneInv, NEW c \in Conns, registry = c, Confirmed(c), ~Revoking
               PROVE  row.exists /\ row.active /\ row.key = key[c]
    BY DEF RevokedOffline
  <2>1. Admitted(c)
    BY DEF Confirmed, Admitted
  <2>2. ~KeyRevoking
    BY DEF Revoking, KeyRevoking
  <2>3. row.exists /\ row.key = key[c]
    BY <2>1, <2>2 DEF PlaneInv, RevokeInv, KeyOwed, KeyRevoking
  <2>4. row.active
    BY <2>1, <2>3 DEF PlaneInv, RevokeInv, DisableOwed
  <2>5. QED
    BY <2>3, <2>4
<1>2. QED
  BY <1>1, PlaneInvHolds, PTL

(* When nothing is under way, a player that is online in a room is a client of *)
(* that room's actor and has been sent the volume stored for it, whatever      *)
(* moves, hellos and volume changes overlapped (moveRoom, applyRoomOutput).    *)
THEOREM PlayersArePresent == Spec => []PresentInRoom
<1>1. PlaneInv => PresentInRoom
  <2> SUFFICES ASSUME PlaneInv, Quiet, NEW c \in Conns, Online(c), room[c] # None
               PROVE  c \in members[room[c]] /\ output[room[c]] \in sent[c].all
    BY DEF PresentInRoom, VolumeOffered
  <2>1. \A t \in Threads : th[t].at \in {"free", "off", "idle", "dead"}
    BY DEF Quiet, At, Threads
  <2>2. ~Ended(c) /\ registry = c
    BY DEF Online, At, Ended
  <2>3. c \in members[room[c]]
    <3>1. \A t \in Threads : ~Brings(t, c, room[c])
      BY <2>1 DEF Brings
    <3>2. QED
      BY <2>2, <3>1 DEF PlaneInv, PresenceInv
  <2>4. output[room[c]] \in sent[c].all
    <3>1. \A t \in Threads : ~Carries(t, c, room[c], output[room[c]])
      BY <2>1 DEF Carries
    <3>2. QED
      BY <2>2, <3>1 DEF PlaneInv, OfferInv
  <2>5. QED
    BY <2>3, <2>4
<1>2. QED
  BY <1>1, PlaneInvHolds, PTL
=============================================================================

------------------------------ MODULE RoomsProofs ------------------------------
(***************************************************************************)
(* The three invariants of Rooms for any number of rooms, requests, codes, *)
(* joins, faults and crashes.  An actor and a row that do not belong       *)
(* together are on the way of one request, which is alone with what it     *)
(* conflicts with; a code is arithmetic on periods; and of the bucket of   *)
(* wrong credentials the proof knows where its first one is in the list.   *)
(***************************************************************************)
EXTENDS Rooms, SequenceTheorems, TLAPS

Access == {c \in [mode : Modes, secret : Passwords \cup {NoOne}, period : Nat,
                  trusted : BOOLEAN] : ValidateAccessConfig(c)}
PolicyValue == Policies \cup {NoOne}
Row == [born : Nat \ {0}, access : Access, policy : PolicyValue]
Actor == [running : BOOLEAN, born : Nat \ {0}, access : Access, policy : PolicyValue]
CodeValue == Nat \X Nat \X Int
Code == [code : CodeValue, period : Nat \ {0}, born : Nat, from : Nat, expires : Nat]

\* The states of a request, one set of records for each shape.
Body == [mode : Modes \cup {Omit}, password : Passwords \cup {Empty, Omit},
         period : Periods \cup {Omit}, trusted : BOOLEAN \cup {Omit},
         policy : Policies \cup {Omit}]
Creating == [kind : {"create"}, at : {"spawn"}, row : Row]
Reading == [kind : {"update"}, at : {"lookup"}, access : Access, body : Body]
Writing == [kind : {"update"}, at : {"write", "apply", "policy"}, access : Access,
            body : Body, actor : Nat \ {0}]
Deleting == [kind : {"delete"}, at : {"stop", "row"}]
RequestState == {Home} \cup Creating \cup Reading \cup Writing \cup Deleting
JoinState == {Home} \cup [at : {"bypass", "check", "enter"}, actor : Nat \ {0},
                          credential : Passwords \cup {Wrong} \cup CodeValue, trusted : BOOLEAN]

StoreType == row \in {NoRow} \cup Row /\ contents \in Nat /\ rooms \in Nat
ManagerType == actors \in Seq(Actor) /\ registered \in 0 .. Len(actors)
ThreadType ==
  /\ th \in [Requests -> RequestState]
  /\ \A r \in Requests : th[r].at \in {"write", "apply", "policy"} => th[r].actor <= Len(actors)
  /\ \A r \in Requests : th[r].at = "policy" => th[r].body.policy # Omit
AdmissionType ==
  /\ now \in Nat /\ codes \subseteq Code
  /\ joining \in [Clients -> JoinState]
  /\ \A c \in Clients : joining[c].at # "home" =>
       /\ joining[c].actor <= Len(actors)
       /\ joining[c].credential \in Passwords \cup {Wrong} \cup {k.code : k \in codes}
TypeOK == StoreType /\ ManagerType /\ ThreadType /\ AdmissionType

-----------------------------------------------------------------------------
(* The row and its actor.                                                  *)

\* Where nothing has overlapped, an update overlaps a deletion at most.
AloneInv == \A r, q \in Requests : r # q /\ th[r].at # "home" /\ th[q].at # "home" =>
  <<th[r].kind, th[q].kind>> \in {<<"update", "delete">>, <<"delete", "update">>}

\* A row without an actor waits for a creation, a deletion or the next start.
ActorInv ==
  /\ \A a \in DOMAIN actors : actors[a].running => a = registered
  /\ registered # 0 => row # NoRow /\ actors[registered].born = row.born
  /\ row # NoRow /\ registered = 0 =>
       undeleted \/ \E r \in Requests : th[r].at \in {"spawn", "row"}
  /\ undeleted => row # NoRow /\ registered = 0
  /\ \A r \in Requests :
       /\ th[r].at = "spawn" => row = th[r].row /\ registered = 0 /\ ~undeleted
       /\ th[r].at = "stop" => row # NoRow
       /\ th[r].at = "row" => row # NoRow /\ registered = 0

\* The actor differs from its row only between the two writes of an update.
ConfigInv ==
  /\ registered # 0 => actors[registered].policy = row.policy
  /\ registered # 0 /\ (\A r \in Requests : th[r].at # "apply") =>
       actors[registered].access = row.access
  /\ \A r \in Requests : registered # 0 /\ th[r].at \in {"write", "apply", "policy"} =>
       th[r].actor = registered
  /\ \A r \in Requests : registered # 0 /\ th[r].at = "apply" => row.access = th[r].access

ContentsInv == overlapped = "no" => ContentsAreOwn

\* The part of the invariant that each action is about.
StateInv == ActorInv /\ ContentsInv /\ ConfigInv

RoomInv == overlapped # "yes" => AloneInv /\ StateInv

-----------------------------------------------------------------------------
(* Admission.                                                              *)

\* Entitled, of the state that a step starts from.
IsEntitled(c) ==
  LET config == actors[joining[c].actor].access IN
    \/ config.mode = "open"
    \/ c \in grants
    \/ config.trusted /\ c \in Trusted
    \/ config.mode = "password" /\ joining[c].credential = config.secret
    \/ config.mode = "code" /\ \E k \in codes :
         /\ k.code = joining[c].credential /\ k.period = config.period
         /\ k.born = actors[joining[c].actor].born
         /\ now < k.expires + Grace

EntryInv == \A c \in Clients :
  /\ joining[c].at # "home" /\ IsEntitled(c) => c \in vouched
  /\ joining[c].at # "home" /\ joining[c].trusted /\ c \in Trusted => c \in vouched
  /\ joining[c].at = "enter" => c \in vouched

\* What the current bucket counted are the last of the probes, and the bucket
\* before it had opened a window earlier.
ProbeInv ==
  /\ bucket \in [count : 0 .. Limit, start : Nat] /\ bucket.start <= now
  /\ probes \in Seq(Nat)
  /\ \A i \in DOMAIN probes : probes[i] <= now
  /\ \A i, j \in DOMAIN probes : i <= j => probes[i] <= probes[j]
  /\ bucket.count <= Len(probes)
  /\ bucket.count = 0 => Len(probes) = 0
  /\ bucket.count > 0 =>
       /\ probes[Len(probes) - bucket.count + 1] = bucket.start
       /\ \A i \in DOMAIN probes : i <= Len(probes) - bucket.count - Limit + 1 =>
            probes[i] + Window <= bucket.start
  /\ ProbesBounded

\* A code is the number of the period it was read in.
CodeInv == \A k \in codes : \E n \in Nat :
  /\ k.code = <<k.born, k.period, n>>
  /\ k.from = n * k.period /\ k.expires = n * k.period + k.period
-----------------------------------------------------------------------------
(* Access configurations and the states of a request.                      *)
LEMMA BodiesType == Bodies \subseteq Body
  BY DEF Bodies, Body

LEMMA MergedAccess ==
  ASSUME NEW old \in Access, NEW b \in Body, Accepted(old, b)
  PROVE  Merged(old, b) \in Access
<1>1. ModeOf(old, b) \in Modes
  BY DEF ModeOf, Access, Body, Modes
<1>2. /\ Given(b.period, old.period) \in Nat
      /\ Given(b.trusted, old.trusted) \in BOOLEAN
  BY RoomsAssumption DEF Given, Access, Body
<1> DEFINE secret == IF ModeOf(old, b) # "password" THEN NoOne
                     ELSE IF b.password \in Passwords THEN b.password ELSE old.secret
<1>3. secret \in Passwords \cup {NoOne}
  BY DEF Access
<1>4. Merged(old, b) = [mode |-> ModeOf(old, b), secret |-> secret,
                        period |-> Given(b.period, old.period),
                        trusted |-> Given(b.trusted, old.trusted)]
  BY DEF Merged
<1> HIDE DEF secret
<1>5. Merged(old, b) \in [mode : Modes, secret : Passwords \cup {NoOne}, period : Nat,
                          trusted : BOOLEAN]
  BY <1>1, <1>2, <1>3, <1>4
<1>6. QED
  BY <1>5 DEF Access, Accepted

LEMMA FreshAccess == Fresh \in Access
  BY RoomsAssumption DEF Fresh, Access, Modes, ValidateAccessConfig

LEMMA PolicyGiven ==
  ASSUME NEW b \in Body
  PROVE  Given(b.policy, NoOne) \in PolicyValue
  BY DEF Given, Body, PolicyValue

\* Request r is the only one that moves, and this is what it is afterwards.
Alone(r) == \A q \in Requests : q # r => th'[q] = th[q]
Into(r, s) == th' \in [Requests -> RequestState] /\ Alone(r) /\ th'[r] = s

LEMMA MoveRequest ==
  ASSUME ThreadType, NEW r \in Requests, NEW s \in RequestState, th' = [th EXCEPT ![r] = s]
  PROVE  Into(r, s)
  BY DEF ThreadType, Into, Alone

LEMMA FinishMoves ==
  ASSUME ThreadType, NEW r \in Requests, Finish(r)
  PROVE  Into(r, Home) /\ th'[r].at = "home"
<1>1. Into(r, Home)
  BY MoveRequest DEF Finish, RequestState
<1>2. QED
  BY <1>1 DEF Into, Home

LEMMA Shape ==
  ASSUME ThreadType, NEW r \in Requests
  PROVE  /\ th[r].at = "home" <=> th[r] = Home
         /\ th[r].at = "spawn" => th[r] \in Creating
         /\ th[r].at = "lookup" => th[r] \in Reading
         /\ th[r].at \in {"write", "apply", "policy"} => th[r] \in Writing
         /\ th[r].at \in {"stop", "row"} => th[r] \in Deleting
         /\ th[r].at \in {"home", "spawn", "lookup", "write", "apply", "policy", "stop", "row"}
<1>1. th[r] \in RequestState
  BY DEF ThreadType
<1>2. CASE th[r] = Home
  BY <1>2 DEF Home
<1>3. CASE th[r] \in Creating
  BY <1>3 DEF Creating, Home
<1>4. CASE th[r] \in Reading
  BY <1>4 DEF Reading, Home
<1>5. CASE th[r] \in Writing
  BY <1>5 DEF Writing, Home
<1>6. CASE th[r] \in Deleting
  BY <1>6 DEF Deleting, Home
<1>7. QED
  BY <1>1, <1>2, <1>3, <1>4, <1>5, <1>6 DEF RequestState

\* What a request is doing, in the fields that the other proofs ask for.
Writes(r, at) ==
  /\ th'[r].at = at /\ th'[r].kind = "update"
  /\ th'[r].access = th[r].access /\ th'[r].body = th[r].body

LEMMA CreateMoves ==
  ASSUME TypeOK, NEW r \in Requests, NEW b \in Bodies, CreateRow(r, b)
  PROVE  /\ Into(r, th'[r]) /\ th[r].at = "home" /\ row' \in Row /\ rooms' \in Nat
         /\ th'[r].at = "spawn" /\ th'[r].kind = "create" /\ th'[r].row = row'
<1>1. b \in Body /\ th[r].at = "home"
  BY BodiesType DEF CreateRow, Home
<1>2. Merged(Fresh, b) \in Access /\ Given(b.policy, NoOne) \in PolicyValue
  BY <1>1, MergedAccess, FreshAccess, PolicyGiven DEF CreateRow
<1>3. row' \in Row /\ rooms' \in Nat
  BY <1>2 DEF CreateRow, Row, TypeOK, StoreType
<1> DEFINE s == [kind |-> "create", at |-> "spawn", row |-> row']
<1>4. s \in RequestState
  BY <1>3 DEF RequestState, Creating
<1>5. th' = [th EXCEPT ![r] = s]
  BY DEF CreateRow
<1>6. Into(r, s) /\ s.at = "spawn" /\ s.kind = "create" /\ s.row = row'
  BY <1>4, <1>5, MoveRequest DEF TypeOK
<1>7. QED
  BY <1>1, <1>3, <1>6 DEF Into

LEMMA ReadMoves ==
  ASSUME TypeOK, NEW r \in Requests, NEW b \in Bodies, UpdateRead(r, b)
  PROVE  /\ Into(r, th'[r]) /\ th[r].at = "home"
         /\ th'[r].at = "lookup" /\ th'[r].kind = "update"
<1>1. b \in Body /\ th[r].at = "home" /\ row \in Row
  BY BodiesType DEF UpdateRead, Home, TypeOK, StoreType
<1>2. Merged(row.access, b) \in Access
  BY <1>1, MergedAccess DEF UpdateRead, Row
<1> DEFINE s == [kind |-> "update", at |-> "lookup", access |-> Merged(row.access, b), body |-> b]
<1>3. s \in RequestState
  BY <1>1, <1>2 DEF RequestState, Reading
<1>4. Into(r, s) /\ s.at = "lookup" /\ s.kind = "update"
  BY <1>3, MoveRequest DEF TypeOK, UpdateRead
<1>5. QED
  BY <1>1, <1>4 DEF Into

LEMMA LookupMoves ==
  ASSUME TypeOK, NEW r \in Requests, UpdateLookup(r)
  PROVE  /\ Into(r, th'[r]) /\ th[r].at = "lookup" /\ th[r].kind = "update"
         /\ IF registered = 0 THEN th'[r] = Home
            ELSE Writes(r, "write") /\ th'[r].actor = registered
<1>1. th[r].at = "lookup" /\ th[r] \in Reading
  BY Shape DEF UpdateLookup, At, TypeOK
<1>2. CASE registered = 0
  <2>1. Finish(r)
    BY <1>2 DEF UpdateLookup, Finish
  <2>2. QED
    BY <1>1, <1>2, <2>1, FinishMoves DEF Into, TypeOK, Reading
<1>3. CASE registered # 0
  <2> DEFINE s == [kind |-> "update", at |-> "write", access |-> th[r].access,
                   body |-> th[r].body, actor |-> registered]
  <2>1. registered \in Nat \ {0}
    BY <1>3 DEF TypeOK, ManagerType
  <2>2. s \in RequestState
    BY <1>1, <2>1 DEF RequestState, Reading, Writing
  <2>3. th' = [th EXCEPT ![r] = s]
    BY <1>3 DEF UpdateLookup, TypeOK, ThreadType
  <2>4. Into(r, s) /\ s.at = "write" /\ s.kind = "update" /\ s.access = th[r].access
        /\ s.body = th[r].body /\ s.actor = registered
    BY <2>2, <2>3, MoveRequest DEF TypeOK
  <2> HIDE DEF s
  <2>5. QED
    BY <1>1, <1>3, <2>4 DEF Into, Writes, Reading
<1>4. QED
  BY <1>2, <1>3

LEMMA WritingMoves ==
  ASSUME TypeOK, NEW r \in Requests, NEW place \in {"apply", "policy"}, Go(r, place),
         th[r].at \in {"write", "apply"}
  PROVE  /\ Into(r, th'[r]) /\ th[r].kind = "update"
         /\ Writes(r, place) /\ th'[r].actor = th[r].actor
<1>1. th[r] \in Writing
  BY Shape DEF TypeOK
<1> DEFINE s == [th[r] EXCEPT !.at = place]
<1>2. /\ s \in Writing /\ s.at = place /\ s.kind = "update" /\ s.access = th[r].access
      /\ s.body = th[r].body /\ s.actor = th[r].actor
  BY <1>1 DEF Writing
<1>3. th' = [th EXCEPT ![r] = s]
  BY DEF Go, TypeOK, ThreadType
<1> HIDE DEF s
<1>4. Into(r, s)
  BY <1>2, <1>3, MoveRequest DEF RequestState, TypeOK
<1>5. QED
  BY <1>1, <1>2, <1>4 DEF Into, Writes, Writing

LEMMA DeleteMoves ==
  ASSUME TypeOK, NEW r \in Requests, DeleteRead(r) \/ Delete(r)
  PROVE  /\ Into(r, th'[r]) /\ th'[r].kind = "delete"
         /\ DeleteRead(r) => th[r].at = "home" /\ th'[r].at = "stop"
         /\ Delete(r) => th[r].at = "stop" /\ th[r].kind = "delete" /\ th'[r].at = "row"
<1>1. CASE DeleteRead(r)
  <2> DEFINE s == [kind |-> "delete", at |-> "stop"]
  <2>1. s \in RequestState /\ s.at = "stop" /\ s.kind = "delete"
    BY DEF RequestState, Deleting
  <2>2. th' = [th EXCEPT ![r] = s] /\ th[r].at = "home"
    BY <1>1 DEF DeleteRead, Home
  <2> HIDE DEF s
  <2>3. Into(r, s)
    BY <2>1, <2>2, MoveRequest DEF TypeOK
  <2>4. QED
    BY <1>1, <2>1, <2>2, <2>3 DEF Into, Delete, At
<1>2. CASE Delete(r)
  <2>1. th[r].at = "stop" /\ th[r] \in Deleting
    BY <1>2, Shape DEF Delete, At, TypeOK
  <2> DEFINE s == [th[r] EXCEPT !.at = "row"]
  <2>2. s \in Deleting /\ s.at = "row" /\ s.kind = "delete"
    BY <2>1 DEF Deleting
  <2>3. th' = [th EXCEPT ![r] = s]
    BY <1>2 DEF Delete, Go, TypeOK, ThreadType
  <2> HIDE DEF s
  <2>4. Into(r, s)
    BY <2>2, <2>3, MoveRequest DEF RequestState, TypeOK
  <2>5. QED
    BY <1>2, <2>1, <2>2, <2>4 DEF Into, Deleting, DeleteRead, Home
<1>3. QED
  BY <1>1, <1>2
-----------------------------------------------------------------------------
(* Types.                                                                  *)
LEMMA InitType == Init => TypeOK
<1> SUFFICES ASSUME Init PROVE TypeOK
  OBVIOUS
<1>1. PICK b \in Bodies :
        /\ Accepted(Fresh, b)
        /\ row = [born |-> 1, access |-> Merged(Fresh, b), policy |-> Given(b.policy, NoOne)]
  BY DEF Init
<1>2. Merged(Fresh, b) \in Access /\ Given(b.policy, NoOne) \in PolicyValue
  BY <1>1, BodiesType, MergedAccess, FreshAccess, PolicyGiven
<1>3. row \in Row /\ row.access \in Access /\ row.policy \in PolicyValue
  BY <1>1, <1>2 DEF Row
<1>4. StoreType
  BY <1>3 DEF Init, StoreType
<1>5. ManagerType
  <2> DEFINE actor == [running |-> TRUE, born |-> 1, access |-> row.access, policy |-> row.policy]
  <2>1. actor \in Actor
    BY <1>3 DEF Actor
  <2>2. actors = <<actor>> /\ registered = 1
    BY DEF Init
  <2> HIDE DEF actor
  <2>3. QED
    BY <2>1, <2>2 DEF ManagerType
<1>6. ThreadType /\ AdmissionType
  BY DEF Init, ThreadType, AdmissionType, RequestState, JoinState, Home
<1>7. QED
  BY <1>4, <1>5, <1>6 DEF TypeOK

\* Actors are added or changed, never taken away.
Grow == Len(actors) <= Len(actors')

LEMMA ActorSet ==
  ASSUME ManagerType, NEW a \in 1 .. Len(actors), NEW actor \in Actor,
         actors' = [actors EXCEPT ![a] = actor]
  PROVE  /\ actors' \in Seq(Actor) /\ Len(actors') = Len(actors) /\ Grow
         /\ actors'[a] = actor
         /\ \A i \in 1 .. Len(actors) : i # a => actors'[i] = actors[i]
  BY DEF ManagerType, Grow

LEMMA ActorAt ==
  ASSUME ManagerType, NEW a \in 1 .. Len(actors)
  PROVE  actors[a] \in Actor
  BY DEF ManagerType

LEMMA SpawnMoves ==
  ASSUME ManagerType, NEW made \in Row, SpawnActor(made)
  PROVE  /\ ManagerType' /\ Grow /\ registered' # 0
         /\ DOMAIN actors' = 1 .. registered' /\ registered' = Len(actors) + 1
         /\ actors'[registered'].access = made.access /\ actors'[registered'].policy = made.policy
         /\ actors'[registered'].born = made.born
         /\ \A i \in 1 .. Len(actors) : actors'[i] = actors[i]
<1> DEFINE actor == [running |-> TRUE, born |-> made.born, access |-> made.access,
                     policy |-> made.policy]
<1>1. actor \in Actor /\ actor.access = made.access /\ actor.policy = made.policy
      /\ actor.born = made.born
  BY DEF Row, Actor
<1>2. actors' = Append(actors, actor) /\ registered' = Len(actors')
  BY DEF SpawnActor
<1> HIDE DEF actor
<1>3. /\ actors' \in Seq(Actor) /\ Len(actors') = Len(actors) + 1
      /\ actors'[Len(actors) + 1] = actor /\ Len(actors) \in Nat
      /\ \A i \in 1 .. Len(actors) : actors'[i] = actors[i]
  BY <1>1, <1>2 DEF ManagerType
<1>4. DOMAIN actors' = 1 .. Len(actors')
  BY <1>3
<1>5. QED
  BY <1>1, <1>2, <1>3, <1>4 DEF ManagerType, Grow

\* The second write of an update.
LEMMA ApplyMoves ==
  ASSUME TypeOK, NEW r \in Requests, UpdateApply(r)
  PROVE  /\ Into(r, th'[r]) /\ th[r].at = "apply" /\ th[r].kind = "update"
         /\ th[r].actor \in 1 .. Len(actors)
         /\ th'[r].at \in {"home", "policy"}
         /\ th'[r].at = "policy" => /\ Writes(r, "policy") /\ th'[r].actor = th[r].actor
                                    /\ th'[r].body.policy # Omit
         /\ ManagerType' /\ Grow /\ Len(actors') = Len(actors) /\ registered' = registered
         /\ actors'[th[r].actor].access = th[r].access
         /\ \A i \in 1 .. Len(actors) :
              /\ i # th[r].actor => actors'[i] = actors[i]
              /\ actors'[i].running = actors[i].running /\ actors'[i].born = actors[i].born
              /\ actors'[i].policy = actors[i].policy
<1>1. th[r].at = "apply" /\ th[r] \in Writing
  BY Shape DEF UpdateApply, At, TypeOK
<1> PICK a \in 1 .. Len(actors) : a = th[r].actor
  BY <1>1 DEF TypeOK, ThreadType, Writing, ManagerType
<1>2. actors[a] \in Actor /\ th[r].access \in Access /\ th[r].kind = "update"
  BY <1>1, ActorAt DEF TypeOK, Writing
<1> DEFINE actor == [actors[a] EXCEPT !.access = th[r].access]
<1>3. /\ actor \in Actor /\ actor.access = th[r].access /\ actor.running = actors[a].running
      /\ actor.born = actors[a].born /\ actor.policy = actors[a].policy
  BY <1>2 DEF Actor
<1>4. actors' = [actors EXCEPT ![a] = actor] /\ registered' = registered
  BY DEF UpdateApply, Applied, TypeOK, ManagerType
<1> HIDE DEF actor
<1>5. /\ actors' \in Seq(Actor) /\ Len(actors') = Len(actors) /\ Grow
      /\ actors'[a] = actor /\ \A i \in 1 .. Len(actors) : i # a => actors'[i] = actors[i]
  BY <1>3, <1>4, ActorSet DEF TypeOK
<1>6. ManagerType'
  BY <1>4, <1>5 DEF TypeOK, ManagerType
<1>7. CASE th[r].body.policy = Omit
  <2>1. Finish(r)
    BY <1>7 DEF UpdateApply
  <2>2. Into(r, th'[r]) /\ th'[r].at = "home"
    BY <2>1, FinishMoves DEF Into, TypeOK
  <2>3. QED
    BY <1>1, <1>2, <1>3, <1>4, <1>5, <1>6, <2>2
<1>8. CASE th[r].body.policy # Omit
  <2>1. Go(r, "policy")
    BY <1>8 DEF UpdateApply
  <2>2. Into(r, th'[r]) /\ Writes(r, "policy") /\ th'[r].actor = th[r].actor
    BY <1>1, <2>1, WritingMoves
  <2>3. th'[r].at = "policy" /\ th'[r].body.policy # Omit
    BY <1>8, <2>2 DEF Writes
  <2>4. QED
    BY <1>1, <1>2, <1>3, <1>4, <1>5, <1>6, <2>2, <2>3
<1>9. QED
  BY <1>7, <1>8

LEMMA PolicyMoves ==
  ASSUME TypeOK, NEW r \in Requests, UpdatePolicy(r)
  PROVE  /\ Into(r, th'[r]) /\ th[r].at = "policy" /\ th[r].kind = "update" /\ th'[r] = Home
         /\ th[r].actor \in 1 .. Len(actors) /\ registered' = registered
         /\ ManagerType' /\ Grow /\ Len(actors') = Len(actors)
         /\ row' \in {NoRow} \cup Row /\ (row' = NoRow <=> row = NoRow)
         /\ row # NoRow => row'.born = row.born /\ row'.access = row.access
         /\ \A i \in 1 .. Len(actors) :
              /\ actors'[i].running = actors[i].running /\ actors'[i].born = actors[i].born
              /\ actors'[i].access = actors[i].access
              /\ i # th[r].actor => actors'[i] = actors[i]
         /\ IF actors[th[r].actor].running
            THEN row # NoRow => actors'[th[r].actor].policy = row'.policy
            ELSE UNCHANGED <<actors, row>>
<1>1. th[r].at = "policy" /\ th[r] \in Writing /\ th[r].body.policy # Omit /\ Finish(r)
  BY Shape DEF UpdatePolicy, At, TypeOK, ThreadType
<1> PICK a \in 1 .. Len(actors) : a = th[r].actor
  BY <1>1 DEF TypeOK, ThreadType, Writing, ManagerType
<1>2. /\ actors[a] \in Actor /\ th[r].kind = "update" /\ th[r].body.policy \in PolicyValue
      /\ Into(r, th'[r]) /\ th'[r] = Home /\ registered' = registered /\ a # 0
  BY <1>1, ActorAt, FinishMoves DEF TypeOK, Writing, Body, PolicyValue, UpdatePolicy, Into
<1>3. CASE ~Running(a)
  <2>1. UNCHANGED <<actors, row>> /\ ~actors[a].running
    BY <1>2, <1>3 DEF UpdatePolicy, Running
  <2>2. QED
    BY <1>1, <1>2, <2>1 DEF TypeOK, StoreType, ManagerType, Grow
<1>4. CASE Running(a)
  <2> DEFINE actor == [actors[a] EXCEPT !.policy = th[r].body.policy]
  <2>1. /\ actor \in Actor /\ actor.access = actors[a].access /\ actor.running = actors[a].running
        /\ actor.born = actors[a].born /\ actor.policy = th[r].body.policy
    BY <1>2 DEF Actor
  <2>2. /\ actors' = [actors EXCEPT ![a] = actor] /\ actors[a].running
        /\ row' = IF row = NoRow THEN NoRow ELSE [row EXCEPT !.policy = th[r].body.policy]
    BY <1>4 DEF UpdatePolicy, TypeOK, ManagerType, Running
  <2> HIDE DEF actor
  <2>3. /\ actors' \in Seq(Actor) /\ Len(actors') = Len(actors) /\ Grow
        /\ actors'[a] = actor /\ \A i \in 1 .. Len(actors) : i # a => actors'[i] = actors[i]
    BY <2>1, <2>2, ActorSet DEF TypeOK
  <2>4. ManagerType'
    BY <1>2, <2>3 DEF TypeOK, ManagerType
  <2>5. CASE row = NoRow
    BY <1>1, <1>2, <2>1, <2>2, <2>3, <2>4, <2>5
  <2>6. CASE row # NoRow
    <3>1. row \in Row
      BY <2>6 DEF TypeOK, StoreType
    <3>2. /\ row' \in Row /\ row'.born = row.born /\ row'.access = row.access
          /\ row'.policy = th[r].body.policy
      BY <1>2, <2>2, <2>6, <3>1 DEF Row
    <3>3. row' # NoRow
      BY <3>2 DEF Row, NoRow
    <3>4. row' \in {NoRow} \cup Row /\ (row' = NoRow <=> row = NoRow)
      BY <2>6, <3>2, <3>3
    <3>5. actors'[a].policy = row'.policy
      BY <2>1, <2>3, <3>2
    <3>6. QED
      BY <1>1, <1>2, <2>1, <2>2, <2>3, <2>4, <3>2, <3>4, <3>5
  <2>7. QED
    BY <2>5, <2>6
<1>5. QED
  BY <1>3, <1>4

LEMMA StopMoves ==
  ASSUME TypeOK, NEW r \in Requests, Delete(r)
  PROVE  /\ ManagerType' /\ Grow /\ registered' = 0 /\ Len(actors') = Len(actors)
         /\ \A i \in 1 .. Len(actors) :
              /\ actors'[i].running => actors[i].running /\ i # registered
              /\ actors'[i].born = actors[i].born /\ actors'[i].access = actors[i].access
<1>1. registered' = 0
  BY DEF Delete
<1>2. CASE registered = 0
  BY <1>1, <1>2 DEF Delete, TypeOK, ManagerType, Grow
<1>3. CASE registered # 0
  <2> PICK a \in 1 .. Len(actors) : a = registered
    BY <1>3 DEF TypeOK, ManagerType
  <2> DEFINE actor == [actors[a] EXCEPT !.running = FALSE]
  <2>1. /\ actor \in Actor /\ actor.access = actors[a].access /\ ~actor.running
        /\ actor.born = actors[a].born
    BY ActorAt DEF Actor, TypeOK
  <2>2. actors' = [actors EXCEPT ![a] = actor]
    BY <1>3 DEF Delete, Stopped, TypeOK, ManagerType
  <2> HIDE DEF actor
  <2>3. /\ actors' \in Seq(Actor) /\ Len(actors') = Len(actors) /\ Grow
        /\ actors'[a] = actor /\ \A i \in 1 .. Len(actors) : i # a => actors'[i] = actors[i]
    BY <2>1, <2>2, ActorSet DEF TypeOK
  <2>4. QED
    BY <1>1, <2>1, <2>3 DEF TypeOK, ManagerType
<1>4. QED
  BY <1>2, <1>3

LEMMA CrashMoves ==
  ASSUME TypeOK, Crash
  PROVE  /\ ManagerType' /\ UNCHANGED <<row, contents, grants, rooms>>
         /\ \A r \in Requests : th'[r] = Home
         /\ \A c \in Clients : joining'[c] = Home
         /\ \A i \in DOMAIN actors' : actors'[i].running => i = registered'
         /\ row = NoRow <=> registered' = 0
         /\ registered' # 0 => /\ actors'[registered'].born = row.born
                               /\ actors'[registered'].access = row.access
                               /\ actors'[registered'].policy = row.policy
<1> DEFINE stopped == [a \in DOMAIN actors |-> [actors[a] EXCEPT !.running = FALSE]]
<1>1. /\ UNCHANGED <<row, contents, grants, rooms>>
      /\ \A r \in Requests : th'[r] = Home
      /\ \A c \in Clients : joining'[c] = Home
  BY DEF Crash, store
<1>2. /\ stopped \in Seq(Actor) /\ Len(stopped) = Len(actors)
      /\ \A i \in 1 .. Len(stopped) : ~stopped[i].running
  <2>1. DOMAIN actors = 1 .. Len(actors) /\ Len(actors) \in Nat
    BY DEF TypeOK, ManagerType
  <2>2. \A i \in 1 .. Len(actors) : [actors[i] EXCEPT !.running = FALSE] \in Actor
                                    /\ ~[actors[i] EXCEPT !.running = FALSE].running
    BY ActorAt DEF Actor, TypeOK
  <2>3. stopped \in [1 .. Len(actors) -> Actor]
    BY <2>1, <2>2
  <2>4. \A i \in 1 .. Len(actors) : ~stopped[i].running
    BY <2>1, <2>2
  <2> HIDE DEF stopped
  <2>5. stopped \in Seq(Actor) /\ Len(stopped) = Len(actors)
    BY <2>1, <2>3
  <2>6. QED
    BY <2>4, <2>5
<1>3. CASE row = NoRow
  <2>1. actors' = stopped /\ registered' = 0
    BY <1>3 DEF Crash
  <2> HIDE DEF stopped
  <2>2. DOMAIN actors' = 1 .. Len(actors')
    BY <1>2, <2>1
  <2>3. QED
    BY <1>1, <1>2, <1>3, <2>1, <2>2 DEF ManagerType
<1>4. CASE row # NoRow
  <2> DEFINE actor == [running |-> TRUE, born |-> row.born, access |-> row.access,
                       policy |-> row.policy]
  <2>1. row \in Row
    BY <1>4 DEF TypeOK, StoreType
  <2>2. actor \in Actor /\ actor.born = row.born /\ actor.access = row.access
        /\ actor.policy = row.policy
    BY <2>1 DEF Row, Actor
  <2>3. actors' = Append(stopped, actor) /\ registered' = Len(actors')
    BY <1>4 DEF Crash
  <2> HIDE DEF stopped, actor
  <2>4. /\ actors' \in Seq(Actor) /\ Len(actors') = Len(stopped) + 1
        /\ actors'[Len(stopped) + 1] = actor /\ Len(stopped) \in Nat
        /\ \A i \in 1 .. Len(stopped) : actors'[i] = stopped[i]
    BY <1>2, <2>2, <2>3
  <2>5. DOMAIN actors' = 1 .. Len(actors') /\ registered' = Len(stopped) + 1
    BY <2>3, <2>4
  <2>6. \A i \in DOMAIN actors' : actors'[i].running => i = registered'
    BY <1>2, <2>4, <2>5
  <2>7. QED
    BY <1>1, <1>4, <2>2, <2>4, <2>5, <2>6 DEF ManagerType
<1>5. QED
  BY <1>3, <1>4

LEMMA ThreadFrame ==
  ASSUME TypeOK, Grow, NEW r \in Requests, Into(r, th'[r]), ManagerType',
         th'[r].at \in {"write", "apply", "policy"} => th'[r].actor <= Len(actors'),
         th'[r].at = "policy" => th'[r].body.policy # Omit
  PROVE  ThreadType'
<1>1. Len(actors) \in Nat /\ Len(actors') \in Nat
  BY DEF TypeOK, ManagerType
<1>2. ASSUME NEW q \in Requests, q # r, th[q].at \in {"write", "apply", "policy"}
      PROVE  th[q].actor <= Len(actors')
  <2>1. th[q].actor \in Nat /\ th[q].actor <= Len(actors)
    BY <1>2, Shape DEF TypeOK, ThreadType, Writing
  <2>2. QED
    BY <1>1, <2>1 DEF Grow
<1>3. QED
  BY <1>2 DEF TypeOK, ThreadType, Into, Alone

\* A step that the clients do not notice.
LEMMA AdmissionFrame ==
  ASSUME TypeOK, Grow, ManagerType', now' \in Nat, UNCHANGED <<joining, codes>>
  PROVE  AdmissionType'
<1>1. Len(actors) \in Nat /\ Len(actors') \in Nat
  BY DEF TypeOK, ManagerType
<1>2. ASSUME NEW c \in Clients, joining[c].at # "home"
      PROVE  joining[c].actor <= Len(actors')
  <2>1. joining[c].actor \in Nat
    BY <1>2 DEF TypeOK, AdmissionType, JoinState, Home
  <2>2. QED
    BY <1>1, <1>2, <2>1 DEF TypeOK, AdmissionType, Grow
<1>3. QED
  BY <1>2 DEF TypeOK, AdmissionType

\* Where a request stops without touching the manager.
Fails(r) == UpdateWriteFails(r) \/ UpdatePolicyFails(r) \/ DeleteRow(r) \/ DeleteRowFails(r)

LEMMA FailMoves ==
  ASSUME TypeOK, NEW r \in Requests, Fails(r)
  PROVE  /\ Into(r, th'[r]) /\ th'[r] = Home /\ th'[r].at = "home"
         /\ UpdateWriteFails(r) \/ UpdatePolicyFails(r) =>
              th[r].at \in {"write", "policy"} /\ th[r].kind = "update"
         /\ DeleteRow(r) \/ DeleteRowFails(r) => th[r].at = "row" /\ th[r].kind = "delete"
         /\ UNCHANGED <<actors, registered, joining, codes, now, rooms>>
<1>1. Finish(r) /\ UNCHANGED <<actors, registered, joining, codes, now, rooms>>
  BY DEF Fails, UpdateWriteFails, UpdatePolicyFails, DeleteRow, DeleteRowFails, store, manager,
         admission
<1>2. Into(r, Home) /\ th'[r].at = "home"
  BY <1>1, FinishMoves DEF TypeOK
<1>3. /\ UpdateWriteFails(r) \/ UpdatePolicyFails(r) => th[r].at \in {"write", "policy"}
      /\ DeleteRow(r) \/ DeleteRowFails(r) => th[r].at = "row"
  BY DEF UpdateWriteFails, UpdatePolicyFails, DeleteRow, DeleteRowFails, At
<1>4. QED
  BY <1>1, <1>2, <1>3, Shape DEF Into, TypeOK, Writing, Deleting

LEMMA RequestType ==
  ASSUME TypeOK, NEW r \in Requests, Request(r)
  PROVE  TypeOK'
<1>1. /\ UNCHANGED <<joining, codes, now>>
  BY DEF Request, CreateRow, UpdateRead, Spawn, UpdateLookup, UpdateWrite, UpdateWriteFails,
         UpdateApply, UpdatePolicy, UpdatePolicyFails, DeleteRead, Delete, DeleteRow,
         DeleteRowFails, admission
<1>2. SUFFICES StoreType' /\ ManagerType' /\ Grow /\ ThreadType'
  BY <1>1, AdmissionFrame DEF TypeOK, AdmissionType
<1>3. ASSUME UNCHANGED <<actors, registered>> PROVE ManagerType' /\ Grow
  BY <1>3 DEF TypeOK, ManagerType, Grow
<1>4. ASSUME UNCHANGED <<row, contents, rooms>> PROVE StoreType'
  BY <1>4 DEF TypeOK, StoreType
<1>5. ASSUME NEW b \in Bodies, CreateRow(r, b) PROVE StoreType' /\ ManagerType' /\ Grow /\ ThreadType'
  <2>1. Into(r, th'[r]) /\ row' \in Row /\ rooms' \in Nat /\ th'[r].at = "spawn"
    BY <1>5, CreateMoves
  <2>2. UNCHANGED <<actors, registered, contents>>
    BY <1>5 DEF CreateRow, manager
  <2>3. QED
    BY <1>3, <2>1, <2>2, ThreadFrame DEF TypeOK, StoreType
<1>6. ASSUME NEW b \in Bodies, UpdateRead(r, b) PROVE StoreType' /\ ManagerType' /\ Grow /\ ThreadType'
  <2>1. Into(r, th'[r]) /\ th'[r].at = "lookup"
    BY <1>6, ReadMoves
  <2>2. UNCHANGED <<actors, registered, row, contents, rooms>>
    BY <1>6 DEF UpdateRead, manager, store
  <2>3. QED
    BY <1>3, <1>4, <2>1, <2>2, ThreadFrame
<1>7. CASE Spawn(r)
  <2>1. th[r] \in Creating /\ Into(r, Home) /\ th'[r].at = "home"
    BY <1>7, Shape, FinishMoves DEF Spawn, At, TypeOK
  <2>2. SpawnActor(th[r].row) /\ UNCHANGED <<row, contents, rooms>>
    BY <1>7 DEF Spawn, store
  <2>3. ManagerType' /\ Grow
    BY <2>1, <2>2, SpawnMoves DEF TypeOK, Creating
  <2>4. QED
    BY <1>4, <2>1, <2>2, <2>3, ThreadFrame DEF Into
<1>8. CASE UpdateLookup(r)
  <2>1. Into(r, th'[r]) /\ th[r].at = "lookup"
        /\ IF registered = 0 THEN th'[r] = Home
           ELSE Writes(r, "write") /\ th'[r].actor = registered
    BY <1>8, LookupMoves
  <2>2. UNCHANGED <<actors, registered, row, contents, rooms>>
    BY <1>8 DEF UpdateLookup, manager, store
  <2>3. th'[r].at \in {"home", "write"} /\ (th'[r].at = "write" => th'[r].actor = registered)
    BY <2>1 DEF Writes, Home
  <2>4. registered <= Len(actors')
    BY <2>2 DEF TypeOK, ManagerType
  <2>5. QED
    BY <1>3, <1>4, <2>1, <2>2, <2>3, <2>4, ThreadFrame
<1>9. CASE UpdateWrite(r)
  <2>1. th[r].at = "write" /\ th[r] \in Writing /\ Go(r, "apply")
    BY <1>9, Shape DEF UpdateWrite, At, TypeOK
  <2>2. Into(r, th'[r]) /\ Writes(r, "apply") /\ th'[r].actor = th[r].actor
    BY <2>1, WritingMoves
  <2>3. row' \in {NoRow} \cup Row
    BY <1>9, <2>1 DEF UpdateWrite, TypeOK, StoreType, Row, Writing
  <2>4. UNCHANGED <<actors, registered, contents, rooms>>
    BY <1>9 DEF UpdateWrite, manager
  <2>5. QED
    BY <1>3, <2>1, <2>2, <2>3, <2>4, ThreadFrame DEF TypeOK, StoreType, ThreadType, Writes
<1>10. CASE UpdateApply(r)
  <2>1. UNCHANGED <<row, contents, rooms>>
    BY <1>10 DEF UpdateApply, store
  <2>2. QED
    BY <1>4, <1>10, <2>1, ApplyMoves, ThreadFrame DEF TypeOK, ManagerType, Writes
<1>11. CASE UpdatePolicy(r)
  <2>1. UNCHANGED <<contents, rooms>>
    BY <1>11 DEF UpdatePolicy
  <2>2. QED
    BY <1>11, <2>1, PolicyMoves, ThreadFrame DEF TypeOK, StoreType, Home
<1>12. CASE DeleteRead(r)
  <2>1. Into(r, th'[r]) /\ th'[r].at = "stop"
    BY <1>12, DeleteMoves
  <2>2. UNCHANGED <<actors, registered, row, contents, rooms>>
    BY <1>12 DEF DeleteRead, manager, store
  <2>3. QED
    BY <1>3, <1>4, <2>1, <2>2, ThreadFrame
<1>13. CASE Delete(r)
  <2>1. Into(r, th'[r]) /\ th'[r].at = "row" /\ ManagerType' /\ Grow
    BY <1>13, DeleteMoves, StopMoves
  <2>2. UNCHANGED <<row, contents, rooms>>
    BY <1>13 DEF Delete, store
  <2>3. QED
    BY <1>4, <2>1, <2>2, ThreadFrame
<1>14. CASE Fails(r)
  <2>1. Into(r, th'[r]) /\ th'[r].at = "home" /\ UNCHANGED <<actors, registered, rooms>>
    BY <1>14, FailMoves
  <2>2. row' \in {row, NoRow} /\ contents' \in {contents, 0}
    BY <1>14 DEF Fails, UpdateWriteFails, UpdatePolicyFails, DeleteRow, DeleteRowFails, store
  <2>3. QED
    BY <1>3, <2>1, <2>2, ThreadFrame DEF TypeOK, StoreType
<1>15. QED
  BY <1>5, <1>6, <1>7, <1>8, <1>9, <1>10, <1>11, <1>12, <1>13, <1>14 DEF Request, Fails

\* The number of a period, and when it starts.
LEMMA PeriodNumber ==
  ASSUME NEW t \in Nat, NEW p \in Nat \ {0}
  PROVE  /\ t \div p \in Nat /\ (t \div p) * p \in Nat
         /\ (t \div p) * p <= t /\ t < (t \div p) * p + p
<1>1. t \div p \in Nat
  OBVIOUS
<1>2. (t \div p) * p <= t
  OBVIOUS
<1>3. t < (t \div p) * p + p
  OBVIOUS
<1>4. (t \div p) * p \in Nat
  BY <1>1
<1>5. QED
  BY <1>1, <1>2, <1>3, <1>4

LEMMA NumbersDiffer ==
  ASSUME NEW n \in Int, NEW m \in Int, NEW p \in Nat \ {0}, n < m
  PROVE  n * p + p <= m * p
<1>1. n + 1 <= m
  OBVIOUS
<1>2. (n + 1) * p <= m * p
  BY <1>1
<1>3. QED
  BY <1>2

LEMMA JoinShape ==
  ASSUME TypeOK, NEW c \in Clients
  PROVE  /\ joining[c].at = "home" <=> joining[c] = Home
         /\ joining[c].at # "home" =>
              /\ joining[c] \in [at : {"bypass", "check", "enter"}, actor : Nat \ {0},
                     credential : Passwords \cup {Wrong} \cup CodeValue, trusted : BOOLEAN]
              /\ joining[c].actor \in 1 .. Len(actors)
              /\ joining[c].credential \in Passwords \cup {Wrong} \cup {k.code : k \in codes}
<1>1. joining[c] \in JoinState /\ Len(actors) \in Nat
  BY DEF TypeOK, AdmissionType, ManagerType
<1>2. CASE joining[c] = Home
  BY <1>2 DEF Home
<1>3. CASE joining[c] # Home
  <2>1. joining[c] \in [at : {"bypass", "check", "enter"}, actor : Nat \ {0},
                     credential : Passwords \cup {Wrong} \cup CodeValue, trusted : BOOLEAN]
    BY <1>1, <1>3 DEF JoinState
  <2>2. joining[c].at # "home"
    BY <2>1
  <2>3. joining[c].actor \in 1 .. Len(actors)
    BY <1>1, <2>1, <2>2 DEF TypeOK, AdmissionType
  <2>4. QED
    BY <1>3, <2>1, <2>2, <2>3 DEF TypeOK, AdmissionType
<1>4. QED
  BY <1>2, <1>3

\* Only client c moves.
Leaves(c) == joining' = [joining EXCEPT ![c] = Home]
AloneClient(c) == \A d \in Clients : d # c => joining'[d] = joining[d]
Advances(c) ==
  /\ joining[c].at # "home" /\ joining'[c].actor = joining[c].actor
  /\ joining'[c].credential = joining[c].credential /\ joining'[c].trusted = joining[c].trusted

LEMMA LeaveMoves ==
  ASSUME TypeOK, NEW c \in Clients, Leaves(c)
  PROVE  AloneClient(c) /\ joining'[c] = Home /\ joining' \in [Clients -> JoinState]
  BY DEF TypeOK, AdmissionType, Leaves, AloneClient, JoinState

LEMMA AdvanceMoves ==
  ASSUME TypeOK, NEW c \in Clients, joining[c].at # "home",
         NEW place \in {"check", "enter"}, joining' = [joining EXCEPT ![c].at = place]
  PROVE  /\ AloneClient(c) /\ Advances(c) /\ joining'[c].at = place
         /\ joining' \in [Clients -> JoinState]
<1> DEFINE j == [joining[c] EXCEPT !.at = place]
<1>1. /\ j \in JoinState /\ j.at = place /\ j.actor = joining[c].actor
      /\ j.credential = joining[c].credential /\ j.trusted = joining[c].trusted
  BY JoinShape DEF JoinState
<1>2. joining' = [joining EXCEPT ![c] = j]
  BY DEF TypeOK, AdmissionType
<1> HIDE DEF j
<1>3. QED
  BY <1>1, <1>2 DEF TypeOK, AdmissionType, AloneClient, Advances

LEMMA JoinMoves ==
  ASSUME TypeOK, NEW c \in Clients, NEW credential \in Credentials, Join(c, credential)
  PROVE  /\ AloneClient(c) /\ joining' \in [Clients -> JoinState] /\ joining[c].at = "home"
         /\ registered \in 1 .. Len(actors)
         /\ joining'[c].at # "home" /\ joining'[c].at # "check"
         /\ joining'[c].at = "enter" => actors[registered].access.mode = "open"
         /\ joining'[c].actor = registered /\ joining'[c].credential = credential
         /\ joining'[c].trusted = actors[registered].access.trusted
<1> PICK a \in 1 .. Len(actors) : a = registered
  BY DEF Join, TypeOK, ManagerType
<1>1. actors[a] \in Actor
  BY ActorAt DEF TypeOK
<1> PICK at \in {"bypass", "enter"} :
       at = IF actors[a].access.mode = "open" THEN "enter" ELSE "bypass"
  OBVIOUS
<1> DEFINE j == [at |-> at, actor |-> a, credential |-> credential,
                 trusted |-> actors[a].access.trusted]
<1>2. credential \in Passwords \cup {Wrong} \cup CodeValue
  BY DEF Credentials, TypeOK, AdmissionType, Code
<1>3. /\ j \in JoinState /\ j.at = at /\ j.actor = a /\ j.credential = credential
      /\ j.trusted = actors[a].access.trusted
  BY <1>1, <1>2 DEF JoinState, Actor, Access
<1>4. joining' = [joining EXCEPT ![c] = j] /\ joining[c].at = "home"
  BY DEF Join, Home
<1> HIDE DEF j
<1>5. QED
  BY <1>3, <1>4 DEF TypeOK, AdmissionType, AloneClient

LEMMA CheckMoves ==
  ASSUME TypeOK, NEW c \in Clients, CheckCredential(c)
  PROVE  /\ AloneClient(c) /\ joining' \in [Clients -> JoinState] /\ joining[c].at = "check"
         /\ IF Check(joining[c].actor, joining[c].credential, now)
            THEN Advances(c) /\ joining'[c].at = "enter"
            ELSE joining'[c] = Home
<1>1. joining[c].at = "check"
  BY DEF CheckCredential
<1>2. CASE Check(joining[c].actor, joining[c].credential, now)
  <2>1. joining' = [joining EXCEPT ![c].at = "enter"]
    BY <1>2 DEF CheckCredential, TypeOK, AdmissionType
  <2>2. QED
    BY <1>1, <1>2, <2>1, AdvanceMoves
<1>3. CASE ~Check(joining[c].actor, joining[c].credential, now)
  <2>1. Leaves(c)
    BY <1>3 DEF CheckCredential, TypeOK, AdmissionType, Leaves
  <2>2. QED
    BY <1>1, <1>3, <2>1, LeaveMoves
<1>4. QED
  BY <1>2, <1>3

LEMMA ClientMoves ==
  ASSUME TypeOK, NEW c \in Clients, Client(c)
  PROVE  /\ UNCHANGED <<row, contents, rooms, actors, registered, th, now, codes, undeleted>>
         /\ joining' \in [Clients -> JoinState] /\ AloneClient(c)
         /\ \/ joining'[c] = joining[c] \/ joining'[c] = Home \/ Advances(c)
            \/ \E credential \in Credentials : Join(c, credential)
<1>1. UNCHANGED <<row, contents, rooms, actors, registered, th, now, codes, undeleted>>
  BY DEF Client, Join, Bypass, BypassFails, CheckCredential, Enter, Grant, RevokeGrant, store,
         manager, admission
<1>2. CASE \E credential \in Credentials : Join(c, credential)
  BY <1>1, <1>2, JoinMoves
<1>3. CASE Bypass(c)
  <2> PICK place \in {"check", "enter"} :
         place = IF BypassesRoomCredential(c, joining[c].trusted) THEN "enter" ELSE "check"
    OBVIOUS
  <2>1. joining' = [joining EXCEPT ![c].at = place] /\ joining[c].at # "home"
    BY <1>3 DEF Bypass
  <2>2. QED
    BY <1>1, <2>1, AdvanceMoves
<1>4. CASE BypassFails(c) \/ Enter(c)
  <2>1. Leaves(c)
    BY <1>4 DEF BypassFails, Enter, Leaves
  <2>2. QED
    BY <1>1, <2>1, LeaveMoves
<1>5. CASE CheckCredential(c)
  BY <1>1, <1>5, CheckMoves
<1>6. CASE Grant(c) \/ RevokeGrant(c)
  BY <1>1, <1>6 DEF Grant, RevokeGrant, admission, TypeOK, AdmissionType, AloneClient
<1>7. QED
  BY <1>2, <1>3, <1>4, <1>5, <1>6 DEF Client

LEMMA CodeType ==
  ASSUME TypeOK, CurrentAccessCode
  PROVE  \E k \in Code : /\ codes' = codes \cup {k}
           /\ registered \in 1 .. Len(actors)
           /\ k.code = CodeAt(registered, k.period, now) /\ k.born = actors[registered].born
           /\ k.from = ValidFrom(k.period, now) /\ k.expires = k.from + k.period
<1> PICK a \in 1 .. Len(actors) : a = registered
  BY DEF CurrentAccessCode, Running, TypeOK, ManagerType
<1>1. actors[a] \in Actor /\ actors[a].access.mode = "code"
  BY ActorAt DEF CurrentAccessCode, TypeOK
<1>0. actors[a].access.period \in Nat \ {0}
  <2>1. /\ actors[a].access.period \in Nat /\ ValidateAccessConfig(actors[a].access)
        /\ actors[a].access.mode = "code"
    BY <1>1 DEF Actor, Access
  <2>2. MinPeriod <= actors[a].access.period
    BY <2>1 DEF ValidateAccessConfig
  <2> QED BY <2>1, <2>2, RoomsAssumption
<1> PICK period \in Nat \ {0} : period = actors[a].access.period
  BY <1>0
<1> DEFINE k == [code |-> CodeAt(a, period, now), period |-> period, born |-> actors[a].born,
                 from |-> ValidFrom(period, now), expires |-> ValidFrom(period, now) + period]
<1>2. now \in Nat
  BY DEF TypeOK, AdmissionType
<1>3. ValidFrom(period, now) \in Nat /\ CodeAt(a, period, now) \in CodeValue
  BY <1>1, <1>2, PeriodNumber DEF ValidFrom, CodeAt, CodeValue, Actor
<1>4. k \in Code
  BY <1>1, <1>3 DEF Code, Actor
<1>5. codes' = codes \cup {k}
  BY DEF CurrentAccessCode
<1>6. /\ k.code = CodeAt(a, k.period, now) /\ k.born = actors[a].born
      /\ k.from = ValidFrom(k.period, now) /\ k.expires = k.from + k.period
  OBVIOUS
<1> HIDE DEF k
<1>7. QED
  BY <1>4, <1>5, <1>6

LEMMA StepType ==
  ASSUME TypeOK, Next
  PROVE  TypeOK'
<1>1. ASSUME NEW c \in Clients, Client(c) PROVE TypeOK'
  <2>1. StoreType' /\ ManagerType' /\ ThreadType'
    BY <1>1, ClientMoves DEF TypeOK, StoreType, ManagerType, ThreadType
  <2>2. ASSUME NEW d \in Clients, joining'[d].at # "home"
        PROVE  /\ joining'[d].actor <= Len(actors')
               /\ joining'[d].credential \in Passwords \cup {Wrong} \cup {k.code : k \in codes'}
    <3>1. CASE joining'[d] = joining[d]
      BY <1>1, <2>2, <3>1, ClientMoves DEF TypeOK, AdmissionType
    <3>2. CASE joining'[d] # joining[d]
      <4>1. d = c
        BY <1>1, <3>2, ClientMoves DEF AloneClient
      <4>2. CASE Advances(c)
        BY <1>1, <4>1, <4>2, ClientMoves DEF TypeOK, AdmissionType, Advances
      <4>3. CASE \E credential \in Credentials : Join(c, credential)
        <5> PICK credential \in Credentials : Join(c, credential)
          BY <4>3
        <5>1. /\ registered \in 1 .. Len(actors) /\ joining'[c].actor = registered
              /\ joining'[c].credential = credential
          BY JoinMoves
        <5>2. UNCHANGED <<actors, codes>>
          BY <1>1, ClientMoves
        <5>3. registered <= Len(actors)
          BY <5>1
        <5>4. QED
          BY <4>1, <5>1, <5>2, <5>3 DEF Credentials
      <4>4. QED
        BY <1>1, <2>2, <3>2, <4>1, <4>2, <4>3, ClientMoves DEF Home
    <3>3. QED
      BY <3>1, <3>2
  <2>3. AdmissionType'
    BY <1>1, <2>2, ClientMoves DEF TypeOK, AdmissionType
  <2>4. QED
    BY <2>1, <2>3 DEF TypeOK
<1>2. ASSUME NEW a \in DOMAIN actors, ActorWrites(a) PROVE TypeOK'
  <2>1. UNCHANGED <<row, rooms, actors, registered, th, joining, codes, now>>
    BY <1>2 DEF ActorWrites, manager, admission
  <2>2. actors[a] \in Actor
    BY <1>2 DEF TypeOK, ManagerType
  <2>3. contents' \in Nat
    BY <1>2, <2>2 DEF ActorWrites, Actor
  <2>4. QED
    BY <2>1, <2>3 DEF TypeOK, StoreType, ManagerType, ThreadType, AdmissionType
<1>3. CASE CurrentAccessCode
  <2>1. UNCHANGED <<row, contents, rooms, actors, registered, th, joining, now>>
    BY <1>3 DEF CurrentAccessCode, store, manager
  <2>2. PICK k \in Code : codes' = codes \cup {k}
    BY <1>3, CodeType
  <2>3. QED
    BY <2>1, <2>2 DEF TypeOK, StoreType, ManagerType, ThreadType, AdmissionType
<1>4. CASE Tick
  BY <1>4 DEF Tick, store, manager, admission, TypeOK, StoreType, ManagerType, ThreadType,
     AdmissionType
<1>5. CASE Crash
  <2>1. UNCHANGED <<now, codes>> /\ th' \in [Requests -> {Home}] /\ joining' \in [Clients -> {Home}]
    BY <1>5 DEF Crash
  <2>2. ThreadType' /\ AdmissionType'
    BY <2>1 DEF TypeOK, ThreadType, AdmissionType, RequestState, JoinState, Home
  <2>3. QED
    BY <1>5, <2>2, CrashMoves DEF TypeOK, StoreType
<1>6. QED
  BY <1>1, <1>2, <1>3, <1>4, <1>5, RequestType DEF Next
-----------------------------------------------------------------------------
(* Codes.                                                                  *)
LEMMA StepCode ==
  ASSUME TypeOK, CodeInv, Next
  PROVE  CodeInv'
<1>1. CASE CurrentAccessCode
  <2>1. PICK k \in Code : /\ codes' = codes \cup {k}
           /\ registered \in 1 .. Len(actors)
           /\ k.code = CodeAt(registered, k.period, now) /\ k.born = actors[registered].born
           /\ k.from = ValidFrom(k.period, now) /\ k.expires = k.from + k.period
    BY <1>1, CodeType
  <2>2. k.period \in Nat \ {0} /\ now \in Nat
    BY DEF Code, TypeOK, AdmissionType
  <2> PICK n \in Nat : n = now \div k.period
    BY <2>2, PeriodNumber
  <2>3. /\ k.code = <<k.born, k.period, n>>
        /\ k.from = n * k.period /\ k.expires = n * k.period + k.period
    BY <2>1 DEF CodeAt, ValidFrom
  <2>4. QED
    BY <2>1, <2>3 DEF CodeInv
<1>2. CASE ~CurrentAccessCode
  <2>1. codes' = codes
    BY <1>2 DEF Next, Request, Client, CreateRow, UpdateRead, Spawn, UpdateLookup, UpdateWrite,
       UpdateWriteFails, UpdateApply, UpdatePolicy, UpdatePolicyFails, DeleteRead, Delete,
       DeleteRow, DeleteRowFails, Join, Bypass, BypassFails, CheckCredential, Enter, Grant,
       RevokeGrant, ActorWrites, Tick, Crash, admission
  <2>2. QED
    BY <2>1 DEF CodeInv
<1>3. QED
  BY <1>1, <1>2

LEMMA NumberIsUnique ==
  ASSUME NEW x \in Int, NEW p \in Nat \ {0}, NEW n \in Int, n * p <= x, x < n * p + p
  PROVE  x \div p = n
<1> PICK m \in Int : m = x \div p /\ m * p <= x /\ x < m * p + p
  <2>1. x \div p \in Int /\ (x \div p) * p <= x /\ x < (x \div p) * p + p
    OBVIOUS
  <2>2. QED
    BY <2>1
<1>1. n * p \in Int /\ m * p \in Int
  OBVIOUS
<1>2. CASE n < m
  BY <1>1, <1>2, NumbersDiffer
<1>3. CASE m < n
  BY <1>1, <1>3, NumbersDiffer
<1>4. QED
  BY <1>2, <1>3

\* A code is accepted in its period and for Grace after it.
LEMMA GraceOfCode ==
  ASSUME NEW n \in Nat, NEW p \in Nat \ {0}, NEW t \in Nat, Grace <= p, n * p <= t
  PROVE  LET m == t \div p IN
           (n = m \/ (t - m * p < Grace /\ n = (m * p - 1) \div p)) <=> t < n * p + p + Grace
<1> PICK m \in Nat : m = t \div p /\ m * p <= t /\ t < m * p + p
  BY PeriodNumber
<1>1. n * p \in Nat /\ m * p \in Nat /\ Grace \in Nat \ {0} /\ (m - 1) * p = m * p - p
      /\ m - 1 \in Int
  BY RoomsAssumption
<1>2. (m * p - 1) \div p = m - 1
  <2> PICK x \in Int : x = m * p - 1
    BY <1>1
  <2>1. (m - 1) * p <= x /\ x < (m - 1) * p + p
    BY <1>1
  <2>2. QED
    BY <1>1, <2>1, NumberIsUnique
<1>3. CASE n = m
  BY <1>1, <1>3
<1>4. CASE n = m - 1
  <2>1. n * p = m * p - p
    BY <1>1, <1>4
  <2>2. t < n * p + p + Grace <=> t - m * p < Grace
    BY <1>1, <2>1
  <2>3. QED
    BY <1>2, <1>4, <2>2
<1>5. CASE n < m - 1
  <2>1. n * p + p <= (m - 1) * p
    BY <1>1, <1>5, NumbersDiffer
  <2>2. ~(t < n * p + p + Grace)
    BY <1>1, <2>1
  <2>3. n # m /\ n # m - 1
    BY <1>5
  <2>4. QED
    BY <1>2, <2>2, <2>3
<1>6. CASE n > m
  <2>1. m * p + p <= n * p
    BY <1>6, NumbersDiffer
  <2>2. QED
    BY <1>1, <2>1
<1>7. QED
  BY <1>3, <1>4, <1>5, <1>6

LEMMA CodesAreRight == TypeOK /\ CodeInv => CodesLiveTheirPeriod
<1> SUFFICES ASSUME TypeOK, CodeInv, NEW k \in codes, NEW a \in DOMAIN actors,
                    actors[a].born = k.born, actors[a].access.mode = "code",
                    actors[a].access.period = k.period, k.from <= now
             PROVE  Check(a, k.code, now) <=> now < k.expires + Grace
  BY DEF CodesLiveTheirPeriod
<1> PICK n \in Nat : /\ k.code = <<k.born, k.period, n>>
                     /\ k.from = n * k.period /\ k.expires = n * k.period + k.period
  BY DEF CodeInv
<1> PICK p \in Nat \ {0} : p = k.period
  BY DEF TypeOK, AdmissionType, Code
<1>1. actors[a] \in Actor /\ now \in Nat
  BY DEF TypeOK, ManagerType, AdmissionType
<1>2. Grace <= p
  <2>1. MinPeriod <= p
    BY <1>1 DEF Actor, Access, ValidateAccessConfig
  <2>2. QED
    BY <2>1, RoomsAssumption
<1> DEFINE m == now \div p
<1>3. Check(a, k.code, now) <=>
        n = m \/ (now - m * p < Grace /\ n = (m * p - 1) \div p)
  BY DEF Check, CodeAt, ValidFrom
<1>4. now < k.expires + Grace <=> now < n * p + p + Grace
  OBVIOUS
<1>5. n * p <= now
  OBVIOUS
<1>6. (n = m \/ (now - m * p < Grace /\ n = (m * p - 1) \div p)) <=> now < n * p + p + Grace
  BY <1>1, <1>2, <1>5, GraceOfCode
<1> HIDE DEF m
<1>7. QED
  BY <1>3, <1>4, <1>6
-----------------------------------------------------------------------------
(* The row and its actor, as long as no requests overlap.                   *)
LEMMA InitRoom == Init => RoomInv
<1> SUFFICES ASSUME Init PROVE RoomInv
  OBVIOUS
<1>1. row.born = 1 /\ row # NoRow
  BY DEF Init, NoRow
<1>2. \A r \in Requests : th[r].at = "home"
  BY DEF Init, Home
<1>3. registered = 1 /\ DOMAIN actors = {1} /\ actors[1].born = row.born
      /\ actors[1].access = row.access /\ actors[1].policy = row.policy
  BY <1>1 DEF Init
<1>4. AloneInv /\ ActorInv /\ ConfigInv
  BY <1>1, <1>2, <1>3 DEF AloneInv, ActorInv, ConfigInv, Init
<1>5. ContentsInv
  BY DEF Init, ContentsAreOwn, ContentsInv
<1>6. QED
  BY <1>4, <1>5 DEF RoomInv, StateInv

LEMMA KindOf ==
  ASSUME ThreadType, NEW r \in Requests
  PROVE  /\ th[r].at = "spawn" => th[r].kind = "create"
         /\ th[r].at \in {"lookup", "write", "apply", "policy"} => th[r].kind = "update"
         /\ th[r].at \in {"stop", "row"} => th[r].kind = "delete"
         /\ th[r].at # "home" => th[r].kind \in Kinds
  BY Shape DEF Creating, Reading, Writing, Deleting, Kinds

\* Who else can be under way.
LEMMA OthersOf ==
  ASSUME TypeOK, AloneInv, NEW r \in Requests, NEW q \in Requests, q # r
  PROVE  /\ th[r].at = "spawn" => th[q].at = "home"
         /\ th[r].at \in {"lookup", "write", "apply", "policy"} => th[q].at \in {"home", "stop", "row"}
         /\ th[r].at \in {"stop", "row"} =>
              th[q].at \in {"home", "lookup", "write", "apply", "policy"}
<1>1. ASSUME th[r].at # "home", th[q].at # "home"
      PROVE  \/ th[r].kind = "update" /\ th[q].kind = "delete"
             \/ th[r].kind = "delete" /\ th[q].kind = "update"
  BY <1>1 DEF AloneInv
<1>2. ThreadType
  BY DEF TypeOK
<1>3. QED
  BY <1>1, <1>2, KindOf, Shape

LEMMA StartsAlone ==
  ASSUME TypeOK, AloneInv, NEW r \in Requests, NEW kind \in Kinds, Start(kind),
         overlapped' # "yes", th[r].at = "home", Into(r, th'[r]), th'[r].kind = kind
  PROVE  /\ AloneInv' /\ overlapped' = overlapped
         /\ \A q \in Requests : th[q].at # "home" =>
              \/ kind = "update" /\ th[q].kind = "delete"
              \/ kind = "delete" /\ th[q].kind = "update"
<1>0. ~Overlaps(kind) /\ overlapped' = overlapped
  BY DEF Start
<1>1. ASSUME NEW q \in Requests, th[q].at # "home"
      PROVE  \/ kind = "update" /\ th[q].kind = "delete"
             \/ kind = "delete" /\ th[q].kind = "update"
  <2> PICK other \in Kinds : other = th[q].kind
    BY <1>1, KindOf DEF TypeOK
  <2>1. Busy(other)
    BY <1>1 DEF Busy, Home
  <2>2. {kind, other} = {"update", "delete"}
    BY <1>0, <2>1 DEF Overlaps
  <2>3. QED
    BY <2>2
<1>2. AloneInv'
  BY <1>1 DEF AloneInv, Into, Alone
<1>3. QED
  BY <1>0, <1>1, <1>2

LEMMA StaysAlone ==
  ASSUME TypeOK, AloneInv, NEW r \in Requests, Into(r, th'[r]),
         th'[r].at # "home" => th[r].at # "home" /\ th'[r].kind = th[r].kind
  PROVE  AloneInv'
  BY DEF AloneInv, Into, Alone

\* A request that only reads, or gives up before it has written.
LEMMA QuietMove ==
  ASSUME TypeOK, StateInv, NEW r \in Requests, Into(r, th'[r]),
         UNCHANGED <<row, contents, grants, actors, registered, undeleted, overlapped>>,
         th[r].at \notin {"spawn", "row", "apply"},
         th'[r].at \in {"home", "lookup", "write", "policy", "stop"},
         th'[r].at = "stop" => row # NoRow,
         th'[r].at \in {"write", "policy"} /\ registered # 0 => th'[r].actor = registered
  PROVE  StateInv'
<1>1. \A q \in Requests : q # r => th'[q] = th[q]
  BY DEF Into, Alone
<1>2. ActorInv'
  BY <1>1 DEF StateInv, ActorInv
<1>3. ContentsInv'
  BY DEF StateInv, ContentsInv, ContentsAreOwn
<1>4. ConfigInv'
  BY <1>1 DEF StateInv, ConfigInv
<1>5. QED
  BY <1>2, <1>3, <1>4 DEF StateInv

LEMMA CreateState ==
  ASSUME TypeOK, overlapped' # "yes", AloneInv, StateInv, NEW r \in Requests, NEW b \in Bodies,
         CreateRow(r, b)
  PROVE  AloneInv' /\ StateInv'
<1>1. /\ Into(r, th'[r]) /\ th[r].at = "home" /\ row' \in Row
      /\ th'[r].at = "spawn" /\ th'[r].kind = "create" /\ th'[r].row = row'
  BY CreateMoves
<1>2. /\ row = NoRow /\ UNCHANGED <<contents, grants, actors, registered, undeleted>>
      /\ Start("create")
  BY DEF CreateRow, manager
<1>3. AloneInv' /\ overlapped' = overlapped /\ \A q \in Requests : th[q].at = "home"
  BY <1>1, <1>2, StartsAlone DEF Kinds
<1>4. registered = 0 /\ ~undeleted /\ (overlapped = "no" => contents = 0 /\ grants = {})
  BY <1>2 DEF StateInv, ActorInv, ContentsInv, ContentsAreOwn
<1>5. row' # NoRow
  BY <1>1 DEF Row, NoRow
<1>6. \A q \in Requests : q # r => th'[q].at = "home"
  BY <1>1, <1>3 DEF Into, Alone
<1>7. ActorInv' /\ ContentsInv' /\ ConfigInv'
  BY <1>1, <1>2, <1>3, <1>4, <1>5, <1>6 DEF StateInv, ActorInv, ContentsInv, ContentsAreOwn, ConfigInv
<1>8. QED
  BY <1>3, <1>7 DEF StateInv

LEMMA SpawnState ==
  ASSUME TypeOK, AloneInv, StateInv, NEW r \in Requests, Spawn(r)
  PROVE  AloneInv' /\ StateInv'
<1>1. th[r].at = "spawn" /\ th[r] \in Creating /\ Into(r, Home) /\ th'[r].at = "home"
      /\ SpawnActor(th[r].row) /\ UNCHANGED <<row, contents, grants, undeleted, overlapped>>
  BY Shape, FinishMoves DEF Spawn, At, TypeOK, store
<1>2. \A q \in Requests : th'[q].at = "home"
  BY <1>1, OthersOf DEF Into, Alone
<1> PICK made \in Row : made = th[r].row
  BY <1>1 DEF Creating
<1>3. row = made /\ registered = 0 /\ ~undeleted /\ made # NoRow
  BY <1>1 DEF StateInv, ActorInv, Row, NoRow
<1>4. /\ registered' # 0 /\ DOMAIN actors' = 1 .. registered' /\ registered' = Len(actors) + 1
      /\ actors'[registered'].access = made.access /\ actors'[registered'].policy = made.policy
      /\ actors'[registered'].born = made.born
      /\ \A i \in 1 .. Len(actors) : actors'[i] = actors[i]
  BY <1>1, SpawnMoves DEF TypeOK
<1>5. \A a \in DOMAIN actors' : actors'[a].running => a = registered'
  <2> SUFFICES ASSUME NEW a \in DOMAIN actors', a # registered' PROVE ~actors'[a].running
    OBVIOUS
  <2>1. a \in 1 .. Len(actors) /\ a \in DOMAIN actors /\ a # 0
    BY <1>4 DEF TypeOK, ManagerType
  <2>2. QED
    BY <1>3, <1>4, <2>1 DEF StateInv, ActorInv
<1>6. ActorInv'
  BY <1>1, <1>2, <1>3, <1>4, <1>5 DEF ActorInv
<1>7. ContentsInv'
  BY <1>1 DEF StateInv, ContentsInv, ContentsAreOwn
<1>8. ConfigInv'
  BY <1>1, <1>2, <1>3, <1>4 DEF ConfigInv
<1>9. QED
  BY <1>1, <1>2, <1>6, <1>7, <1>8 DEF StateInv, AloneInv

LEMMA ReadState ==
  ASSUME TypeOK, overlapped' # "yes", AloneInv, StateInv, NEW r \in Requests,
         (\E b \in Bodies : UpdateRead(r, b)) \/ DeleteRead(r)
  PROVE  AloneInv' /\ StateInv'
<1>1. UNCHANGED <<row, contents, grants, actors, registered, undeleted>>
  BY DEF UpdateRead, DeleteRead, store, manager
<1>2. ASSUME NEW b \in Bodies, UpdateRead(r, b) PROVE AloneInv' /\ StateInv'
  <2>1. /\ Into(r, th'[r]) /\ th[r].at = "home" /\ th'[r].at = "lookup"
        /\ th'[r].kind = "update" /\ Start("update")
    BY <1>2, ReadMoves DEF UpdateRead
  <2>2. AloneInv' /\ overlapped' = overlapped
    BY <2>1, StartsAlone DEF Kinds
  <2>3. QED
    BY <1>1, <2>1, <2>2, QuietMove
<1>3. CASE DeleteRead(r)
  <2>1. /\ Into(r, th'[r]) /\ th[r].at = "home" /\ th'[r].at = "stop"
        /\ th'[r].kind = "delete" /\ Start("delete") /\ row # NoRow
    BY <1>3, DeleteMoves DEF DeleteRead
  <2>2. AloneInv' /\ overlapped' = overlapped
    BY <2>1, StartsAlone DEF Kinds
  <2>3. QED
    BY <1>1, <2>1, <2>2, QuietMove
<1>4. QED
  BY <1>2, <1>3

LEMMA LookupState ==
  ASSUME TypeOK, AloneInv, StateInv, NEW r \in Requests, UpdateLookup(r)
  PROVE  AloneInv' /\ StateInv'
<1>1. UNCHANGED <<row, contents, grants, actors, registered, undeleted, overlapped>>
  BY DEF UpdateLookup, store, manager
<1>2. /\ Into(r, th'[r]) /\ th[r].at = "lookup" /\ th'[r].at \in {"home", "write"}
      /\ th'[r].at # "home" => th'[r].kind = th[r].kind /\ th'[r].actor = registered
  BY LookupMoves DEF Writes, Home
<1>3. QED
  BY <1>1, <1>2, StaysAlone, QuietMove

LEMMA WriteState ==
  ASSUME TypeOK, AloneInv, StateInv, NEW r \in Requests, UpdateWrite(r)
  PROVE  AloneInv' /\ StateInv'
<1>1. th[r].at = "write" /\ Go(r, "apply")
      /\ UNCHANGED <<contents, grants, actors, registered, undeleted, overlapped>>
  BY DEF UpdateWrite, At, manager
<1>2. Into(r, th'[r]) /\ th[r].kind = "update" /\ Writes(r, "apply")
      /\ th'[r].actor = th[r].actor
  BY <1>1, WritingMoves
<1>3. \A q \in Requests : q # r => th'[q] = th[q] /\ th[q].at \in {"home", "stop", "row"}
  BY <1>1, <1>2, OthersOf DEF Into, Alone
<1>4. /\ row' = NoRow <=> row = NoRow
      /\ row # NoRow => /\ row'.born = row.born /\ row'.policy = row.policy
                        /\ row'.access = th[r].access
  <2>1. CASE row = NoRow
    BY <2>1 DEF UpdateWrite
  <2>2. CASE row # NoRow
    <3>1. row \in Row
      BY <2>2 DEF TypeOK, StoreType
    <3>2. row' = [row EXCEPT !.access = th[r].access]
      BY <2>2 DEF UpdateWrite
    <3>3. /\ row'.born = row.born /\ row'.policy = row.policy /\ row'.access = th[r].access
          /\ DOMAIN row' = {"born", "access", "policy"}
      BY <3>1, <3>2 DEF Row
    <3>4. row'.born # 0
      BY <3>1, <3>3 DEF Row
    <3>5. QED
      BY <2>2, <3>3, <3>4 DEF NoRow
  <2>3. QED
    BY <2>1, <2>2
<1>5. th'[r].at = "apply" /\ th'[r].kind = "update" /\ th'[r].access = th[r].access
  BY <1>2 DEF Writes
<1>6. ActorInv'
  BY <1>1, <1>3, <1>4, <1>5 DEF StateInv, ActorInv
<1>7. ContentsInv'
  BY <1>1, <1>4 DEF StateInv, ContentsInv, ContentsAreOwn
<1>8. ConfigInv'
  BY <1>1, <1>2, <1>3, <1>4, <1>5 DEF StateInv, ConfigInv, ActorInv
<1>9. QED
  BY <1>1, <1>2, <1>5, <1>6, <1>7, <1>8, StaysAlone DEF StateInv

LEMMA ApplyState ==
  ASSUME TypeOK, AloneInv, StateInv, NEW r \in Requests, UpdateApply(r)
  PROVE  AloneInv' /\ StateInv'
<1>1. UNCHANGED <<row, contents, grants, undeleted, overlapped>>
  BY DEF UpdateApply, store
<1>2. /\ Into(r, th'[r]) /\ th[r].at = "apply" /\ th[r].kind = "update"
      /\ th[r].actor \in 1 .. Len(actors) /\ th'[r].at \in {"home", "policy"}
      /\ th'[r].at = "policy" => th'[r].actor = th[r].actor /\ th'[r].kind = "update"
  BY ApplyMoves DEF Writes
<1>3. /\ ManagerType' /\ Len(actors') = Len(actors) /\ registered' = registered
      /\ actors'[th[r].actor].access = th[r].access
      /\ \A i \in 1 .. Len(actors) :
           /\ actors'[i].running = actors[i].running /\ actors'[i].born = actors[i].born
           /\ actors'[i].policy = actors[i].policy
  BY ApplyMoves
<1>4. \A q \in Requests : q # r => th'[q] = th[q] /\ th[q].at \in {"home", "stop", "row"}
  BY <1>2, OthersOf DEF Into, Alone
<1>5. DOMAIN actors = 1 .. Len(actors) /\ DOMAIN actors' = 1 .. Len(actors)
      /\ (registered # 0 => registered \in 1 .. Len(actors))
  BY <1>3 DEF TypeOK, ManagerType
<1>6. ActorInv'
  BY <1>1, <1>2, <1>3, <1>4, <1>5 DEF StateInv, ActorInv
<1>7. ContentsInv'
  BY <1>1 DEF StateInv, ContentsInv, ContentsAreOwn
<1>8. ConfigInv'
  BY <1>1, <1>2, <1>3, <1>4, <1>5 DEF StateInv, ConfigInv
<1>9. QED
  BY <1>2, <1>6, <1>7, <1>8, StaysAlone DEF StateInv

LEMMA PolicyState ==
  ASSUME TypeOK, AloneInv, StateInv, NEW r \in Requests, UpdatePolicy(r)
  PROVE  AloneInv' /\ StateInv'
<1>1. UNCHANGED <<contents, grants, undeleted, overlapped>>
  BY DEF UpdatePolicy
<1>2. /\ Into(r, th'[r]) /\ th[r].at = "policy" /\ th[r].kind = "update" /\ th'[r].at = "home"
      /\ th[r].actor \in 1 .. Len(actors) /\ registered' = registered
  BY PolicyMoves DEF Home
<1>3. /\ ManagerType' /\ Len(actors') = Len(actors) /\ (row' = NoRow <=> row = NoRow)
      /\ row # NoRow => row'.born = row.born /\ row'.access = row.access
      /\ \A i \in 1 .. Len(actors) :
           /\ actors'[i].running = actors[i].running /\ actors'[i].born = actors[i].born
           /\ actors'[i].access = actors[i].access
      /\ IF actors[th[r].actor].running
         THEN row # NoRow => actors'[th[r].actor].policy = row'.policy
         ELSE UNCHANGED <<actors, row>>
  BY PolicyMoves
<1>4. \A q \in Requests : q # r => th'[q] = th[q] /\ th[q].at \in {"home", "stop", "row"}
  BY <1>2, OthersOf DEF Into, Alone
<1>5. DOMAIN actors = 1 .. Len(actors) /\ DOMAIN actors' = 1 .. Len(actors)
      /\ (registered # 0 => registered \in 1 .. Len(actors))
  BY <1>3 DEF TypeOK, ManagerType
<1>6. ActorInv'
  BY <1>1, <1>2, <1>3, <1>4, <1>5 DEF StateInv, ActorInv
<1>7. ContentsInv'
  BY <1>1, <1>3 DEF StateInv, ContentsInv, ContentsAreOwn
<1>8. registered # 0 => actors'[registered].policy = row'.policy
  <2>1. registered # 0 => th[r].actor = registered /\ row # NoRow
    BY <1>2 DEF StateInv, ConfigInv, ActorInv
  <2>2. QED
    BY <1>3, <2>1 DEF StateInv, ConfigInv
<1>9. \A q \in Requests : th'[q].at \notin {"write", "apply", "policy"} /\ th[q].at # "apply"
  BY <1>2, <1>4
<1>10. registered # 0 => actors'[registered].access = row'.access
  BY <1>3, <1>5, <1>9 DEF StateInv, ConfigInv, ActorInv
<1>11. ConfigInv'
  BY <1>2, <1>8, <1>9, <1>10 DEF ConfigInv
<1>12. QED
  BY <1>2, <1>6, <1>7, <1>11, StaysAlone DEF StateInv

\* The actor is stopped first, the row goes second: only then may the next room
\* of the id be created.
LEMMA DeleteState ==
  ASSUME TypeOK, AloneInv, StateInv, NEW r \in Requests, Delete(r)
  PROVE  AloneInv' /\ StateInv'
<1>1. UNCHANGED <<row, contents, grants, undeleted, overlapped>>
  BY DEF Delete, store
<1>2. Into(r, th'[r]) /\ th[r].at = "stop" /\ th[r].kind = "delete"
      /\ th'[r].at = "row" /\ th'[r].kind = "delete"
  BY DeleteMoves
<1>3. /\ ManagerType' /\ registered' = 0 /\ Len(actors') = Len(actors)
      /\ \A i \in 1 .. Len(actors) : actors'[i].running => actors[i].running /\ i # registered
  BY StopMoves
<1>4. \A q \in Requests : q # r =>
        th'[q] = th[q] /\ th[q].at \in {"home", "lookup", "write", "apply", "policy"}
  BY <1>2, OthersOf DEF Into, Alone
<1>5. DOMAIN actors = 1 .. Len(actors) /\ DOMAIN actors' = 1 .. Len(actors)
  BY <1>3 DEF TypeOK, ManagerType
<1>6. ActorInv'
  BY <1>1, <1>2, <1>3, <1>4, <1>5 DEF StateInv, ActorInv
<1>7. ContentsInv'
  BY <1>1 DEF StateInv, ContentsInv, ContentsAreOwn
<1>8. ConfigInv'
  BY <1>3 DEF ConfigInv
<1>9. QED
  BY <1>2, <1>6, <1>7, <1>8, StaysAlone DEF StateInv

LEMMA FailState ==
  ASSUME TypeOK, AloneInv, StateInv, NEW r \in Requests, Fails(r)
  PROVE  AloneInv' /\ StateInv'
<1>1. /\ Into(r, th'[r]) /\ th'[r].at = "home" /\ UNCHANGED <<actors, registered>>
  BY FailMoves
<1>2. AloneInv'
  BY <1>1, StaysAlone
<1>3. CASE UpdateWriteFails(r) \/ UpdatePolicyFails(r)
  <2>1. UNCHANGED <<row, contents, grants, undeleted, overlapped>>
    BY <1>3 DEF UpdateWriteFails, UpdatePolicyFails, store
  <2>2. th[r].at \in {"write", "policy"}
    BY <1>3, FailMoves
  <2>3. QED
    BY <1>1, <1>2, <2>1, <2>2, QuietMove
<1>4. CASE DeleteRow(r) \/ DeleteRowFails(r)
  <2>1. th[r].at = "row"
    BY <1>4, FailMoves
  <2>2. registered = 0 /\ row # NoRow
    BY <2>1 DEF StateInv, ActorInv
  <2>3. \A q \in Requests :
          th'[q].at \in {"home", "lookup", "write", "apply", "policy"}
    BY <1>1, <2>1, OthersOf DEF Into, Alone
  <2>4. \/ row' = NoRow /\ contents' = 0 /\ grants' = {} /\ undeleted' = FALSE
        \/ UNCHANGED <<row, contents, grants>> /\ undeleted' = TRUE
    BY <1>4, <2>2 DEF DeleteRow, DeleteRowFails, store
  <2>8. overlapped' = overlapped
    BY <1>4 DEF DeleteRow, DeleteRowFails
  <2>5. ActorInv' /\ ConfigInv'
    BY <1>1, <2>2, <2>3, <2>4 DEF StateInv, ActorInv, ConfigInv
  <2>6. ContentsInv'
    BY <2>4, <2>8 DEF StateInv, ContentsInv, ContentsAreOwn
  <2>7. QED
    BY <1>2, <2>5, <2>6 DEF StateInv
<1>5. QED
  BY <1>3, <1>4 DEF Fails

\* A start of the server ends what overlapping requests have done to the actor.
LEMMA CrashState ==
  ASSUME TypeOK, RoomInv, Crash
  PROVE  AloneInv' /\ StateInv'
<1>1. /\ UNCHANGED <<row, contents, grants>> /\ ~undeleted'
      /\ \A r \in Requests : th'[r].at = "home"
      /\ overlapped' = "no" => overlapped = "no"
  BY CrashMoves DEF Home, Crash
<1>2. ActorInv' /\ ConfigInv'
  BY <1>1, CrashMoves DEF ActorInv, ConfigInv
<1>3. ContentsInv'
  BY <1>1 DEF RoomInv, StateInv, ContentsInv, ContentsAreOwn
<1>4. AloneInv'
  BY <1>1 DEF AloneInv
<1>5. QED
  BY <1>2, <1>3, <1>4 DEF StateInv

LEMMA OverlappedStays ==
  ASSUME Next, ~Crash PROVE overlapped' \in {overlapped, "yes"}
BY DEF Next, Request, Client, CreateRow, UpdateRead, Spawn, UpdateLookup, UpdateWrite,
   UpdateWriteFails, UpdateApply, UpdatePolicy, UpdatePolicyFails, DeleteRead, Delete,
   DeleteRow, DeleteRowFails, Join, Bypass, BypassFails, CheckCredential, Enter, Grant,
   RevokeGrant, ActorWrites, CurrentAccessCode, Tick, Start

LEMMA StepRoom ==
  ASSUME TypeOK, RoomInv, Next
  PROVE  RoomInv'
<1> SUFFICES ASSUME overlapped' # "yes" PROVE AloneInv' /\ StateInv'
  BY DEF RoomInv
<1>1. ASSUME ~Crash PROVE AloneInv /\ StateInv /\ overlapped' = overlapped
  BY <1>1, OverlappedStays DEF RoomInv
<1>2. CASE Crash
  BY <1>2, CrashState
<1>3. ASSUME ~Crash, NEW r \in Requests, Request(r) PROVE AloneInv' /\ StateInv'
  BY <1>1, <1>3, CreateState, SpawnState, ReadState, LookupState, WriteState, ApplyState,
     PolicyState, DeleteState, FailState DEF Request, Fails
<1>4. ASSUME ~Crash, NEW c \in Clients, Client(c) PROVE AloneInv' /\ StateInv'
  <2>1. UNCHANGED <<row, contents, actors, registered, th, undeleted>>
    BY <1>4, ClientMoves
  <2>2. grants' \subseteq grants \/ row # NoRow
    BY <1>4 DEF Client, Join, Bypass, BypassFails, CheckCredential, Enter, Grant, RevokeGrant, store
  <2>3. ContentsInv'
    BY <1>1, <1>4, <2>1, <2>2 DEF StateInv, ContentsInv, ContentsAreOwn
  <2>4. QED
    BY <1>1, <1>4, <2>1, <2>3 DEF AloneInv, StateInv, ActorInv, ConfigInv
<1>5. ASSUME ~Crash, NEW a \in DOMAIN actors, ActorWrites(a) PROVE AloneInv' /\ StateInv'
  <2>1. UNCHANGED <<row, grants, actors, registered, th, undeleted>>
    BY <1>5 DEF ActorWrites, manager
  <2>2. a = registered /\ a # 0 /\ contents' = actors[a].born
    BY <1>1, <1>5 DEF ActorWrites, Running, StateInv, ActorInv
  <2>3. contents' = row.born /\ row # NoRow
    BY <1>1, <1>5, <2>2 DEF StateInv, ActorInv
  <2>4. ContentsInv'
    BY <1>1, <1>5, <2>1, <2>3 DEF StateInv, ContentsInv, ContentsAreOwn
  <2>5. QED
    BY <1>1, <1>5, <2>1, <2>4 DEF AloneInv, StateInv, ActorInv, ConfigInv
<1>6. ASSUME ~Crash, CurrentAccessCode \/ Tick PROVE AloneInv' /\ StateInv'
  <2>1. UNCHANGED <<row, contents, grants, actors, registered, th, undeleted>>
    BY <1>6 DEF CurrentAccessCode, Tick, store, manager
  <2>2. QED
    BY <1>1, <1>6, <2>1 DEF AloneInv, StateInv, ActorInv, ConfigInv, ContentsInv, ContentsAreOwn
<1>8. QED
  BY <1>2, <1>3, <1>4, <1>5, <1>6 DEF Next

LEMMA RoomIsRight == TypeOK /\ RoomInv => RoomHasItsActor
<1> SUFFICES ASSUME TypeOK, RoomInv PROVE RoomHasItsActor
  OBVIOUS
<1> SUFFICES ASSUME overlapped # "yes" PROVE RoomHasItsActor
  BY DEF RoomHasItsActor
<1>1. ThreadType /\ registered \in 0 .. Len(actors) /\ ActorInv /\ ConfigInv /\ ContentsInv
  BY DEF TypeOK, ManagerType, RoomInv, StateInv
<1>2. ASSUME Idle({"create", "delete"})
      PROVE  \A r \in Requests : th[r].at \notin {"spawn", "row"}
  <2>1. ~Busy("create") /\ ~Busy("delete")
    BY <1>2 DEF Idle
  <2>2. ASSUME NEW r \in Requests, th[r].at \in {"spawn", "row"} PROVE FALSE
    <3>1. th[r] # Home /\ th[r].kind \in {"create", "delete"}
      BY <1>1, <2>2, KindOf DEF Home
    <3>2. QED
      BY <2>1, <3>1 DEF Busy
  <2>3. QED
    BY <2>2
<1>3. ASSUME Idle({"create", "update", "delete"})
      PROVE  \A r \in Requests : th[r].at # "apply"
  <2>1. ~Busy("update")
    BY <1>3 DEF Idle
  <2>2. ASSUME NEW r \in Requests, th[r].at = "apply" PROVE FALSE
    <3>1. th[r] # Home /\ th[r].kind = "update"
      BY <1>1, <2>2, KindOf DEF Home
    <3>2. QED
      BY <2>1, <3>1 DEF Busy
  <2>3. QED
    BY <2>2
<1>4. ConfigIsStored
  BY <1>1, <1>3 DEF ConfigIsStored, ConfigInv
<1>5. Idle({"create", "delete"}) /\ ~undeleted => (row # NoRow <=> registered # 0)
  BY <1>1, <1>2 DEF ActorInv
<1>6. QED
  BY <1>1, <1>4, <1>5 DEF RoomHasItsActor, ActorInv, ContentsInv, Running
-----------------------------------------------------------------------------
(* Admission: an entitlement that a join has had is remembered.            *)

\* What makes the entitlement of no join larger.
Shrinks ==
  /\ codes' = codes /\ grants' \subseteq grants /\ now' \in Nat /\ now <= now'
  /\ \A i \in 1 .. Len(actors) :
       actors'[i].access = actors[i].access /\ actors'[i].born = actors[i].born

LEMMA ShrinkingKeeps ==
  ASSUME TypeOK, Shrinks, NEW c \in Clients, joining[c].at # "home",
         joining'[c].actor = joining[c].actor,
         joining'[c].credential = joining[c].credential, IsEntitled(c)'
  PROVE  IsEntitled(c)
<1> PICK a \in 1 .. Len(actors) : a = joining[c].actor
  BY JoinShape
<1>1. actors'[a].access = actors[a].access /\ actors'[a].born = actors[a].born
      /\ codes' = codes /\ grants' \subseteq grants
  BY DEF Shrinks
<1>2. \A k \in codes : now' < k.expires + Grace => now < k.expires + Grace
  <2>1. now \in Nat /\ now' \in Nat /\ now <= now' /\ Grace \in Nat
    BY RoomsAssumption DEF TypeOK, AdmissionType, Shrinks
  <2>2. \A k \in codes : k.expires \in Nat
    BY DEF TypeOK, AdmissionType, Code
  <2>3. QED
    BY <2>1, <2>2
<1>3. QED
  BY <1>1, <1>2 DEF IsEntitled

LEMMA ShrinkingEntry ==
  ASSUME TypeOK, EntryInv, Shrinks, UNCHANGED <<joining, vouched>>
  PROVE  EntryInv'
<1>1. ASSUME NEW c \in Clients, joining[c].at # "home", IsEntitled(c)' PROVE c \in vouched
  <2>1. IsEntitled(c)
    BY <1>1, ShrinkingKeeps
  <2>2. QED
    BY <1>1, <2>1 DEF EntryInv
<1>2. QED
  BY <1>1 DEF EntryInv

LEMMA VouchingEntry ==
  ASSUME TypeOK, EntryInv, joining' = joining, vouched' = NowVouched
  PROVE  EntryInv'
<1>1. ASSUME NEW c \in Clients, joining[c].at # "home", IsEntitled(c)' PROVE c \in vouched'
  <2>1. Entitled(c, joining[c].actor, joining[c].credential, grants', now')
    BY <1>1 DEF IsEntitled, Entitled
  <2>2. joining[c] # Home
    BY <1>1 DEF Home
  <2>3. QED
    BY <2>1, <2>2 DEF NowVouched
<1>2. vouched \subseteq vouched'
  BY DEF NowVouched
<1>3. QED
  BY <1>1, <1>2 DEF EntryInv

LEMMA PeriodBelow ==
  ASSUME NEW x \in Int, NEW p \in Nat \ {0}
  PROVE  x \div p \in Int /\ (x \div p) * p <= x
<1>1. x \div p \in Int
  OBVIOUS
<1>2. (x \div p) * p <= x
  OBVIOUS
<1>3. QED
  BY <1>1, <1>2

LEMMA NumbersBelow ==
  ASSUME NEW t \in Nat, NEW p \in Nat \ {0}
  PROVE  /\ t \div p \in Int /\ (t \div p) * p <= t
         /\ ((t \div p) * p - 1) \div p \in Int
         /\ (((t \div p) * p - 1) \div p) * p <= t
<1> PICK start \in Int : start = (t \div p) * p /\ t \div p \in Int /\ start <= t
  <2>1. (t \div p) * p \in Int
    BY PeriodBelow
  <2>2. QED
    BY <2>1, PeriodBelow
<1>1. start - 1 \in Int /\ start - 1 <= t
  OBVIOUS
<1>2. (start - 1) \div p \in Int /\ ((start - 1) \div p) * p <= start - 1
  BY <1>1, PeriodBelow
<1>3. ((start - 1) \div p) * p \in Int
  BY <1>2
<1>4. ((start - 1) \div p) * p <= t
  BY <1>1, <1>2, <1>3
<1>5. QED
  BY <1>2, <1>4

\* A credential that the check takes is the room's, or a code of it that was
\* handed out and has not outlived its grace.
LEMMA CheckEntitles ==
  ASSUME TypeOK, CodeInv, NEW c \in Clients, joining[c].at # "home",
         Check(joining[c].actor, joining[c].credential, now)
  PROVE  IsEntitled(c)
<1> PICK a \in 1 .. Len(actors) : a = joining[c].actor
  BY JoinShape
<1> PICK credential \in Passwords \cup {Wrong} \cup {k.code : k \in codes} :
      credential = joining[c].credential
  BY JoinShape
<1>1. actors[a] \in Actor /\ now \in Nat /\ a \in DOMAIN actors
  BY ActorAt DEF TypeOK, ManagerType, AdmissionType
<1>2. actors[a].access.mode \in {"open", "password", "code"}
  BY <1>1 DEF Actor, Access, Modes
<1>3. CASE actors[a].access.mode = "open"
  BY <1>3 DEF IsEntitled
<1>4. CASE actors[a].access.mode = "password"
  BY <1>4 DEF IsEntitled, Check
<1>5. CASE actors[a].access.mode = "code"
  <2> PICK p \in Nat \ {0} : p = actors[a].access.period
    <3>1. actors[a].access.period \in Nat /\ actors[a].access.period >= MinPeriod
      BY <1>1, <1>5 DEF Actor, Access, ValidateAccessConfig
    <3>2. MinPeriod \in Nat \ {0}
      BY RoomsAssumption
    <3>3. QED
      BY <3>1, <3>2
  <2>1. PICK n \in Int : credential = <<actors[a].born, p, n>> /\ n * p <= now
    <3>1. \/ credential = <<actors[a].born, p, now \div p>>
          \/ credential = <<actors[a].born, p, ((now \div p) * p - 1) \div p>>
      BY <1>5 DEF Check, CodeAt, ValidFrom
    <3>2. /\ now \div p \in Int /\ (now \div p) * p <= now
          /\ ((now \div p) * p - 1) \div p \in Int
          /\ (((now \div p) * p - 1) \div p) * p <= now
      BY <1>1, NumbersBelow
    <3>3. QED
      BY <3>1, <3>2
  <2>3. credential \in CodeValue
    <3>1. PICK born \in Nat : born = actors[a].born
      BY <1>1 DEF Actor
    <3>2. <<born, p, n>> \in CodeValue
      BY DEF CodeValue
    <3>3. QED
      BY <2>1, <3>1, <3>2
  <2>4. PICK k \in codes : credential = k.code
    BY <2>3, RoomsAssumption DEF CodeValue
  <2>5. k.born = actors[a].born /\ k.period = p /\ k.from = n * p
    <3>1. PICK number \in Nat : /\ k.code = <<k.born, k.period, number>>
                                /\ k.from = number * k.period
      BY <2>4 DEF CodeInv
    <3>2. <<k.born, k.period, number>> = <<actors[a].born, p, n>>
      BY <2>1, <2>4, <3>1
    <3>3. QED
      BY <3>1, <3>2
  <2>6. CodesLiveTheirPeriod
    BY CodesAreRight
  <2>7. now < k.expires + Grace
    BY <1>1, <1>5, <2>1, <2>4, <2>5, <2>6 DEF CodesLiveTheirPeriod
  <2>8. QED
    BY <1>5, <2>4, <2>5, <2>7 DEF IsEntitled
<1>6. QED
  BY <1>2, <1>3, <1>4, <1>5

\* What a step of client c leaves to the others.
LEMMA OthersEntry ==
  ASSUME TypeOK, EntryInv, Shrinks, NEW c \in Clients, AloneClient(c),
         vouched \ {c} \subseteq vouched',
         /\ joining'[c].at # "home" /\ IsEntitled(c)' => c \in vouched'
         /\ joining'[c].at # "home" /\ joining'[c].trusted /\ c \in Trusted => c \in vouched'
         /\ joining'[c].at = "enter" => c \in vouched'
  PROVE  EntryInv'
<1>1. ASSUME NEW d \in Clients, d # c
      PROVE  /\ joining'[d].at # "home" /\ IsEntitled(d)' => d \in vouched'
             /\ joining'[d].at # "home" /\ joining'[d].trusted /\ d \in Trusted => d \in vouched'
             /\ joining'[d].at = "enter" => d \in vouched'
  <2>1. joining'[d] = joining[d]
    BY <1>1 DEF AloneClient
  <2>2. joining[d].at # "home" /\ IsEntitled(d)' => IsEntitled(d)
    BY <2>1, ShrinkingKeeps
  <2>3. d \in vouched => d \in vouched'
    BY <1>1
  <2>4. QED
    BY <2>1, <2>2, <2>3 DEF EntryInv
<1>2. QED
  BY <1>1 DEF EntryInv

LEMMA ClientEntry ==
  ASSUME TypeOK, CodeInv, EntryInv, NEW c \in Clients, Client(c)
  PROVE  EntryInv'
<1>1. UNCHANGED <<actors, codes, now>> /\ AloneClient(c) /\ now \in Nat
  BY ClientMoves DEF TypeOK, AdmissionType
<1>2. ~Grant(c) => grants' \subseteq grants
  BY DEF Client, Join, Bypass, BypassFails, CheckCredential, Enter, RevokeGrant, store
<1>3. ~Grant(c) => Shrinks
  BY <1>1, <1>2 DEF Shrinks
<1>4. CASE Grant(c)
  BY <1>4, VouchingEntry DEF Grant
<1>5. CASE RevokeGrant(c)
  <2>1. Shrinks
    BY <1>1, <1>5 DEF Shrinks, RevokeGrant
  <2>2. QED
    BY <1>5, <2>1, ShrinkingEntry DEF RevokeGrant, admission
<1>6. CASE BypassFails(c) \/ Enter(c)
  <2>1. Leaves(c) /\ vouched' = vouched \ {c} /\ grants' = grants
    BY <1>6 DEF BypassFails, Enter, Leaves, store
  <2>2. Shrinks /\ joining'[c].at = "home"
    BY <1>1, <2>1, LeaveMoves DEF Shrinks, Home
  <2>3. QED
    BY <1>1, <2>1, <2>2, OthersEntry
<1>7. CASE Bypass(c)
  <2> PICK place \in {"check", "enter"} :
         place = IF BypassesRoomCredential(c, joining[c].trusted) THEN "enter" ELSE "check"
    OBVIOUS
  <2>1. joining' = [joining EXCEPT ![c].at = place] /\ joining[c].at # "home"
        /\ UNCHANGED <<grants, vouched>>
    BY <1>7 DEF Bypass, store
  <2>2. Advances(c) /\ joining'[c].at = place
    BY <2>1, AdvanceMoves
  <2>3. Shrinks
    BY <1>1, <2>1 DEF Shrinks
  <2>4. IsEntitled(c)' => IsEntitled(c)
    BY <2>1, <2>2, <2>3, ShrinkingKeeps DEF Advances
  <2>5. place = "enter" => c \in vouched
    <3>1. place = "enter" => c \in grants \/ (joining[c].trusted /\ c \in Trusted)
      BY DEF BypassesRoomCredential
    <3>2. c \in grants => IsEntitled(c)
      BY DEF IsEntitled
    <3>3. QED
      BY <2>1, <3>1, <3>2 DEF EntryInv
  <2>6. /\ IsEntitled(c)' => c \in vouched'
        /\ joining'[c].trusted /\ c \in Trusted => c \in vouched'
        /\ joining'[c].at = "enter" => c \in vouched'
    BY <2>1, <2>2, <2>4, <2>5 DEF EntryInv, Advances
  <2>7. QED
    BY <1>1, <2>1, <2>3, <2>6, OthersEntry
<1>8. CASE CheckCredential(c)
  <2>1. joining[c].at = "check" /\ grants' = grants
    BY <1>8 DEF CheckCredential, store
  <2>2. Shrinks
    BY <1>1, <2>1 DEF Shrinks
  <2>3. CASE Check(joining[c].actor, joining[c].credential, now)
    <3>1. IsEntitled(c)
      BY <2>1, <2>3, CheckEntitles
    <3>2. c \in vouched /\ vouched' = vouched
      BY <1>8, <2>1, <2>3, <3>1 DEF EntryInv, CheckCredential
    <3>3. QED
      BY <1>1, <2>2, <3>2, OthersEntry
  <2>4. CASE ~Check(joining[c].actor, joining[c].credential, now)
    <3>1. joining'[c].at = "home" /\ vouched' = vouched \ {c}
      BY <1>8, <2>4, CheckMoves DEF CheckCredential, Home
    <3>2. QED
      BY <1>1, <2>2, <3>1, OthersEntry
  <2>5. QED
    BY <2>3, <2>4
<1>9. ASSUME NEW credential \in Credentials, Join(c, credential) PROVE EntryInv'
  <2>1. /\ joining'[c].actor = registered /\ joining'[c].credential = credential
        /\ joining'[c].trusted = actors[registered].access.trusted
        /\ joining'[c].at = "enter" => actors[registered].access.mode = "open"
    BY <1>9, JoinMoves
  <2>2. grants' = grants /\
        vouched' = IF Entitled(c, registered, credential, grants, now)
                   THEN vouched \cup {c} ELSE vouched \ {c}
    BY <1>9 DEF Join, store
  <2>3. Shrinks
    BY <1>1, <2>2 DEF Shrinks
  <2>4. IsEntitled(c)' => Entitled(c, registered, credential, grants, now)
    BY <1>1, <2>1, <2>2 DEF IsEntitled, Entitled
  <2>5. (joining'[c].trusted /\ c \in Trusted) \/ joining'[c].at = "enter" =>
          Entitled(c, registered, credential, grants, now)
    BY <1>1, <2>1 DEF Entitled
  <2>6. QED
    BY <1>1, <2>2, <2>3, <2>4, <2>5, OthersEntry
<1>10. QED
  BY <1>4, <1>5, <1>6, <1>7, <1>8, <1>9 DEF Client

LEMMA RequestEntry ==
  ASSUME TypeOK, EntryInv, NEW r \in Requests, Request(r)
  PROVE  EntryInv'
<1>1. CASE UpdateApply(r)
  BY <1>1, VouchingEntry DEF UpdateApply
<1>2. CASE ~UpdateApply(r)
  <2>1. UNCHANGED <<joining, vouched, codes, now>> /\ grants' \subseteq grants /\ now \in Nat
    BY <1>2 DEF Request, CreateRow, UpdateRead, Spawn, UpdateLookup, UpdateWrite,
       UpdateWriteFails, UpdatePolicy, UpdatePolicyFails, DeleteRead, Delete, DeleteRow,
       DeleteRowFails, admission, store, TypeOK, AdmissionType
  <2>2. \A i \in 1 .. Len(actors) :
          actors'[i].access = actors[i].access /\ actors'[i].born = actors[i].born
    <3>1. CASE Spawn(r)
      <4>1. th[r] \in Creating /\ SpawnActor(th[r].row)
        BY <3>1, Shape DEF Spawn, At, TypeOK
      <4>2. th[r].row \in Row
        BY <4>1 DEF Creating
      <4>3. QED
        BY <4>1, <4>2, SpawnMoves DEF TypeOK
    <3>2. CASE UpdatePolicy(r)
      BY <3>2, PolicyMoves
    <3>3. CASE Delete(r)
      BY <3>3, StopMoves
    <3>4. CASE ~Spawn(r) /\ ~UpdatePolicy(r) /\ ~Delete(r)
      <4>1. actors' = actors
        BY <1>2, <3>4 DEF Request, CreateRow, UpdateRead, UpdateLookup, UpdateWrite,
           UpdateWriteFails, UpdatePolicyFails, DeleteRead, DeleteRow, DeleteRowFails, manager
      <4>2. QED
        BY <4>1
    <3>5. QED
      BY <3>1, <3>2, <3>3, <3>4
  <2>3. Shrinks
    BY <2>1, <2>2 DEF Shrinks
  <2>4. QED
    BY <2>1, <2>3, ShrinkingEntry
<1>3. QED
  BY <1>1, <1>2

LEMMA StepEntry ==
  ASSUME TypeOK, CodeInv, EntryInv, Next
  PROVE  EntryInv'
<1>1. ASSUME NEW a \in DOMAIN actors, ActorWrites(a) PROVE EntryInv'
  <2>1. Shrinks /\ UNCHANGED <<joining, vouched>>
    BY <1>1 DEF ActorWrites, manager, admission, Shrinks, TypeOK, AdmissionType
  <2>2. QED
    BY <2>1, ShrinkingEntry
<1>2. CASE CurrentAccessCode
  BY <1>2, VouchingEntry DEF CurrentAccessCode
<1>3. CASE Tick
  <2>1. Shrinks /\ UNCHANGED <<joining, vouched>>
    BY <1>3 DEF Tick, store, manager, admission, Shrinks, TypeOK, AdmissionType
  <2>2. QED
    BY <2>1, ShrinkingEntry
<1>4. CASE Crash
  BY <1>4, CrashMoves DEF EntryInv, Home
<1>5. QED
  BY <1>1, <1>2, <1>3, <1>4, ClientEntry, RequestEntry DEF Next
-----------------------------------------------------------------------------
(* The bucket of wrong credentials.                                        *)

\* Nothing counted and nothing listed.
LEMMA EmptyProbes ==
  ASSUME TypeOK', bucket' = NoBucket, probes' = <<>>
  PROVE  ProbeInv'
<1>1. NoBucket \in [count : 0 .. Limit, start : Nat] /\ NoBucket.count = 0 /\ NoBucket.start = 0
  BY RoomsAssumption DEF NoBucket
<1>2. now' \in Nat /\ Len(probes') = 0 /\ DOMAIN probes' = {} /\ probes' \in Seq(Nat)
  BY DEF TypeOK, AdmissionType
<1>3. QED
  BY <1>1, <1>2 DEF ProbeInv, ProbesBounded

\* What lies lim places before the next probe lies before the bucket's first.
LEMMA BeforeFirst ==
  ASSUME NEW n \in Nat, NEW count \in Nat, NEW lim \in Nat, NEW i \in Nat,
         count <= lim, i <= n - lim + 1
  PROVE  i <= n - count + 1
OBVIOUS

\* A bucket that has grown by one keeps its first probe in its place.
LEMMA SamePlace ==
  ASSUME NEW n \in Nat, NEW total \in Nat, NEW lim \in Nat, NEW count \in Nat, total = count + 1
  PROVE  (n + 1) - total - lim + 1 = n - count - lim + 1
OBVIOUS

\* A probe 2 * lim - 1 places before the next one lies lim before the first
\* of the bucket's total.
LEMMA BeforeOpening ==
  ASSUME NEW n \in Nat, NEW total \in Nat, NEW lim \in Nat, NEW i \in Nat,
         total <= lim, n + 1 = i + 2 * lim - 1
  PROVE  i <= (n + 1) - total - lim + 1
OBVIOUS

\* One more wrong credential in a bucket that is not full.
LEMMA AnotherProbe ==
  ASSUME TypeOK, ProbeInv, ~Full, now' = now, probes' = Append(probes, now),
         bucket' = IF OpenBucket.count = 0 THEN [count |-> 1, start |-> now]
                   ELSE [OpenBucket EXCEPT !.count = @ + 1]
  PROVE  ProbeInv'
<1>a. probes \in Seq(Nat)
  BY DEF ProbeInv
<1> PICK n \in Nat : n = Len(probes) /\ DOMAIN probes = 1 .. n
  BY <1>a
<1> PICK count \in 0 .. Limit, start \in Nat : count = bucket.count /\ start = bucket.start
  BY DEF ProbeInv
<1>1. now \in Nat /\ Limit \in Nat \ {0} /\ Window \in Nat \ {0} /\ start <= now /\ count <= n
      /\ count \in Nat /\ count <= Limit
  BY RoomsAssumption DEF TypeOK, AdmissionType, ProbeInv
<1>2. \A i \in 1 .. n : probes[i] \in Nat /\ probes[i] <= now
  BY DEF ProbeInv
<1>3. \A i, j \in 1 .. n : i <= j => probes[i] <= probes[j]
  BY DEF ProbeInv
<1>4. count = 0 => n = 0
  BY DEF ProbeInv
<1>5. count > 0 => /\ probes[n - count + 1] = start
                   /\ \A i \in 1 .. n : i <= n - count - Limit + 1 => probes[i] + Window <= start
  BY DEF ProbeInv
<1>6. \A i, j \in 1 .. n : j = i + 2 * Limit - 1 => probes[j] - probes[i] >= Window
  BY DEF ProbeInv, ProbesBounded
<1>7. /\ probes' \in Seq(Nat) /\ Len(probes') = n + 1 /\ DOMAIN probes' = 1 .. n + 1
      /\ probes'[n + 1] = now /\ \A i \in 1 .. n : probes'[i] = probes[i]
  BY <1>1 DEF ProbeInv
<1>8. \/ /\ bucket' = [count |-> 1, start |-> now]
         /\ count = 0 \/ start + Window <= now
      \/ /\ 0 < count /\ count < Limit
         /\ bucket' = [bucket EXCEPT !.count = count + 1]
  <2>1. CASE now >= start + Window
    BY <2>1 DEF OpenBucket, NoBucket
  <2>2. CASE ~(now >= start + Window)
    <3>1. OpenBucket = bucket /\ ~(count >= Limit)
      BY <2>2 DEF OpenBucket, Full
    <3>2. CASE count = 0
      BY <3>1, <3>2
    <3>3. CASE count # 0
      BY <1>1, <3>1, <3>3
    <3>4. QED
      BY <3>2, <3>3
  <2>3. QED
    BY <2>1, <2>2
<1>9. PICK total \in 1 .. Limit, opened \in Nat :
        /\ bucket' = [count |-> total, start |-> opened]
        /\ \/ total = 1 /\ opened = now /\ (count = 0 \/ start + Window <= now)
           \/ 0 < count /\ total = count + 1 /\ opened = start
  <2>1. CASE bucket' = [count |-> 1, start |-> now] /\ (count = 0 \/ start + Window <= now)
    <3>1. 1 \in 1 .. Limit
      BY <1>1
    <3>2. QED
      BY <1>1, <2>1, <3>1
  <2>2. CASE 0 < count /\ count < Limit /\ bucket' = [bucket EXCEPT !.count = count + 1]
    <3>1. bucket' = [count |-> count + 1, start |-> start]
      BY <2>2 DEF ProbeInv
    <3>2. count + 1 \in 1 .. Limit
      BY <1>1, <2>2
    <3>3. QED
      BY <2>2, <3>1, <3>2
  <2>3. QED
    BY <1>8, <2>1, <2>2
<1>10. bucket'.count = total /\ bucket'.start = opened
       /\ bucket' \in [count : 0 .. Limit, start : Nat]
  BY <1>1, <1>9
<1>11. opened <= now /\ total <= n + 1
  BY <1>1, <1>9
<1>12. \A i, j \in 1 .. n + 1 : i <= j => probes'[i] <= probes'[j]
  BY <1>1, <1>2, <1>3, <1>7
<1>13. probes'[(n + 1) - total + 1] = opened
  <2>1. CASE total = 1 /\ opened = now
    <3>1. (n + 1) - total + 1 = n + 1
      BY <2>1
    <3>2. QED
      BY <1>7, <2>1, <3>1
  <2>2. CASE 0 < count /\ total = count + 1 /\ opened = start
    <3>1. (n + 1) - total + 1 = n - count + 1 /\ n - count + 1 \in 1 .. n
      <4>1. count \in Nat /\ count <= n /\ 0 < count /\ total = count + 1
        BY <1>1, <2>2
      <4>2. (n + 1) - total + 1 = n - count + 1
        BY <4>1
      <4>3. n - count + 1 \in 1 .. n
        BY <4>1
      <4>4. QED
        BY <4>2, <4>3
    <3>2. QED
      BY <1>5, <1>7, <2>2, <3>1
  <2>3. QED
    BY <1>9, <2>1, <2>2
<1>14. ASSUME NEW i \in 1 .. n + 1, i <= (n + 1) - total - Limit + 1
       PROVE  i \in 1 .. n /\ probes[i] + Window <= opened
  <2>1. i \in 1 .. n /\ i <= n - Limit + 1
    BY <1>1, <1>14
  <2>2. CASE total = 1 /\ opened = now /\ (count = 0 \/ start + Window <= now)
    <3>1. count > 0 /\ start + Window <= now
      BY <1>1, <1>4, <2>1, <2>2
    <3>2. PICK first \in 1 .. n : first = n - count + 1
      BY <1>1, <3>1
    <3>3. probes[i] <= start
      <4>1. i <= first
        <5>1. /\ n \in Nat /\ count \in Nat /\ Limit \in Nat /\ i \in Nat
              /\ count <= Limit /\ i <= n - Limit + 1
          BY <1>1, <2>1
        <5>2. i <= n - count + 1
          BY ONLY <5>1, BeforeFirst
        <5>3. QED
          BY <3>2, <5>2
      <4>2. probes[first] = start
        BY <1>5, <3>1, <3>2
      <4>3. QED
        BY <1>3, <2>1, <4>1, <4>2
    <3>4. PICK before \in Nat : before = probes[i]
      BY <1>2, <2>1
    <3>5. before + Window <= now
      BY <1>1, <3>1, <3>3, <3>4
    <3>6. QED
      BY <2>1, <2>2, <3>4, <3>5
  <2>3. CASE 0 < count /\ total = count + 1 /\ opened = start
    <3>1. (n + 1) - total - Limit + 1 = n - count - Limit + 1
      <4>1. n \in Nat /\ total \in Nat /\ Limit \in Nat /\ count \in Nat /\ total = count + 1
        BY <1>1, <2>3
      <4>2. QED
        BY ONLY <4>1, SamePlace
    <3>2. i <= n - count - Limit + 1
      BY <1>14, <3>1
    <3>3. QED
      BY <1>5, <2>1, <2>3, <3>2
  <2>4. QED
    BY <1>9, <2>2, <2>3
<1>15. ASSUME NEW i \in 1 .. n + 1, NEW j \in 1 .. n + 1, j = i + 2 * Limit - 1
       PROVE  probes'[j] - probes'[i] >= Window
  <2>1. i \in 1 .. n
    BY <1>1, <1>15
  <2>2. CASE j \in 1 .. n
    BY <1>6, <1>7, <1>15, <2>1, <2>2
  <2>3. CASE j = n + 1
    <3>1. i <= (n + 1) - total - Limit + 1
      <4>1. n + 1 = i + 2 * Limit - 1
        BY <1>15, <2>3
      <4>2. i \in Nat /\ total \in Nat /\ total <= Limit
        BY <1>1, <2>1
      <4>3. QED
        BY <1>1, <4>1, <4>2, BeforeOpening
    <3>2. probes[i] + Window <= opened /\ probes[i] \in Nat
      BY <1>2, <1>14, <2>1, <3>1
    <3>3. probes'[i] = probes[i] /\ probes'[j] = now
      BY <1>7, <2>1, <2>3
    <3>4. QED
      BY <1>1, <1>11, <3>2, <3>3
  <2>4. QED
    BY <1>15, <2>2, <2>3
<1>16. \A i \in 1 .. n + 1 : probes'[i] <= now
  BY <1>1, <1>2, <1>7
<1>17. ProbesBounded'
  BY <1>7, <1>15 DEF ProbesBounded
<1>18. \A i \in 1 .. n + 1 : i <= (n + 1) - total - Limit + 1 => probes'[i] + Window <= opened
  BY <1>7, <1>14
<1>19. total > 0
  OBVIOUS
<1>20. /\ bucket'.count > 0 /\ bucket'.start <= now' /\ bucket'.count <= Len(probes')
       /\ probes'[Len(probes') - bucket'.count + 1] = bucket'.start
  BY <1>7, <1>10, <1>11, <1>13, <1>19
<1>21. \A i \in DOMAIN probes' : i <= Len(probes') - bucket'.count - Limit + 1 =>
         probes'[i] + Window <= bucket'.start
  BY <1>7, <1>10, <1>18
<1>22. /\ \A i \in DOMAIN probes' : probes'[i] <= now'
       /\ \A i, j \in DOMAIN probes' : i <= j => probes'[i] <= probes'[j]
  BY <1>7, <1>12, <1>16
<1>23. bucket'.count # 0 /\ probes' \in Seq(Nat)
  BY <1>1, <1>7, <1>10, <1>19
<1>24. QED
  BY <1>10, <1>17, <1>20, <1>21, <1>22, <1>23 DEF ProbeInv

LEMMA SameProbes ==
  ASSUME TypeOK, ProbeInv, UNCHANGED <<bucket, probes>>, now' \in Nat, now <= now'
  PROVE  ProbeInv'
<1>1. now \in Nat /\ bucket.start \in Nat /\ \A i \in DOMAIN probes : probes[i] \in Nat
  BY DEF TypeOK, AdmissionType, ProbeInv
<1>2. bucket.start <= now' /\ \A i \in DOMAIN probes : probes[i] <= now'
  BY <1>1 DEF ProbeInv
<1>3. QED
  BY <1>2 DEF ProbeInv, ProbesBounded

LEMMA StepProbe ==
  ASSUME TypeOK, ProbeInv, Next
  PROVE  ProbeInv'
<1>1. TypeOK' /\ now \in Nat
  BY StepType DEF TypeOK, AdmissionType
<1>2. ASSUME NEW c \in Clients, CheckCredential(c) PROVE ProbeInv'
  <2>1. now' = now
    BY <1>2 DEF CheckCredential
  <2>2. CASE Check(joining[c].actor, joining[c].credential, now)
    <3>1. bucket' = NoBucket /\ probes' = <<>>
      BY <1>2, <2>2 DEF CheckCredential, Allow
    <3>2. QED
      BY <1>1, <3>1, EmptyProbes
  <2>3. CASE ~Check(joining[c].actor, joining[c].credential, now) /\ Full
    <3>1. bucket' = OpenBucket /\ probes' = probes
      BY <1>2, <2>3 DEF CheckCredential, Allow
    <3>2. OpenBucket = bucket
      BY <2>3, RoomsAssumption DEF Full, OpenBucket, NoBucket
    <3>3. QED
      BY <1>1, <2>1, <3>1, <3>2, SameProbes
  <2>4. CASE ~Check(joining[c].actor, joining[c].credential, now) /\ ~Full
    <3>1. /\ probes' = Append(probes, now)
          /\ bucket' = IF OpenBucket.count = 0 THEN [count |-> 1, start |-> now]
                       ELSE [OpenBucket EXCEPT !.count = @ + 1]
      BY <1>2, <2>4 DEF CheckCredential, Allow
    <3>2. QED
      BY <2>1, <2>4, <3>1, AnotherProbe
  <2>5. QED
    BY <2>2, <2>3, <2>4
<1>3. CASE Crash
  BY <1>1, <1>3, EmptyProbes DEF Crash
<1>4. CASE ~Crash /\ ~\E c \in Clients : CheckCredential(c)
  <2>1. UNCHANGED <<bucket, probes>> /\ now' \in {now, now + 1}
    BY <1>4 DEF Next, Request, Client, CreateRow, UpdateRead, Spawn, UpdateLookup, UpdateWrite,
       UpdateWriteFails, UpdateApply, UpdatePolicy, UpdatePolicyFails, DeleteRead, Delete,
       DeleteRow, DeleteRowFails, Join, Bypass, BypassFails, Enter, Grant, RevokeGrant,
       ActorWrites, CurrentAccessCode, Tick, admission
  <2>2. now' \in Nat /\ now <= now'
    BY <1>1, <2>1
  <2>3. QED
    BY <2>1, <2>2, SameProbes
<1>5. QED
  BY <1>2, <1>3, <1>4
-----------------------------------------------------------------------------
(* What a PATCH omits.                                                     *)

\* Only a room with a password has one, and so have the updates under way.
NoSecret(access) == access.mode # "password" => access.secret = NoOne

SecretInv ==
  /\ row # NoRow => NoSecret(row.access)
  /\ \A r \in Requests : th[r].at \in {"lookup", "write"} => NoSecret(th[r].access)

\* An update that is to be written still holds the merge of its body into the row
\* as it is.
MergeInv == \A r \in Requests : th[r].at \in {"lookup", "write"} /\ row # NoRow =>
  th[r].access = Merged(row.access, th[r].body)

PatchInv == SecretInv /\ (overlapped # "yes" => MergeInv)

LEMMA MergedFields ==
  ASSUME NEW old, NEW b
  PROVE  /\ Merged(old, b).mode = ModeOf(old, b)
         /\ Merged(old, b).period = Given(b.period, old.period)
         /\ Merged(old, b).trusted = Given(b.trusted, old.trusted)
         /\ Merged(old, b).mode # "password" => Merged(old, b).secret = NoOne
         /\ b.password \notin Passwords /\ Merged(old, b).mode = "password" =>
              Merged(old, b).secret = old.secret
<1> DEFINE secret == IF ModeOf(old, b) # "password" THEN NoOne
                     ELSE IF b.password \in Passwords THEN b.password ELSE old.secret
<1>1. ASSUME ModeOf(old, b) # "password" PROVE secret = NoOne
  BY <1>1
<1>2. ASSUME ModeOf(old, b) = "password", b.password \notin Passwords PROVE secret = old.secret
  BY <1>2
<1>3. Merged(old, b) = [mode |-> ModeOf(old, b), secret |-> secret,
                        period |-> Given(b.period, old.period),
                        trusted |-> Given(b.trusted, old.trusted)]
  BY DEF Merged
<1> HIDE DEF secret
<1>4. QED
  BY <1>1, <1>2, <1>3

\* What is written instead of the row as it is.
LEMMA MergedKeeps ==
  ASSUME SecretInv, row # NoRow, NEW b
  PROVE  Keeps(row.access, b, Merged(row.access, b))
<1>1. ASSUME b.mode = Omit, b.password = Omit
      PROVE  /\ Merged(row.access, b).mode = row.access.mode
             /\ Merged(row.access, b).secret = row.access.secret
  <2>1. Merged(row.access, b).mode = row.access.mode
    BY <1>1, MergedFields DEF ModeOf
  <2>2. Omit \notin Passwords
    BY RoomsAssumption
  <2>3. QED
    BY <1>1, <2>1, <2>2, MergedFields DEF SecretInv, NoSecret
<1>2. QED
  BY <1>1, MergedFields DEF Given, Keeps

\* A step that leaves the configuration of the row and what the others merge.
LEMMA MergeFrame ==
  ASSUME TypeOK, MergeInv, NEW r \in Requests, Into(r, th'[r]),
         row' = NoRow \/ (row # NoRow /\ row'.access = row.access),
         th'[r].at \in {"lookup", "write"} =>
           /\ th[r].at \in {"lookup", "write"}
           /\ th'[r].access = th[r].access /\ th'[r].body = th[r].body
  PROVE  MergeInv'
<1>1. \A q \in Requests : q # r => th'[q] = th[q]
  BY DEF Into, Alone
<1>2. CASE row' = NoRow
  BY <1>2 DEF MergeInv, NoRow
<1>3. CASE row # NoRow /\ row'.access = row.access
  BY <1>1, <1>3 DEF MergeInv
<1>4. QED
  BY <1>2, <1>3

LEMMA StepMerge ==
  ASSUME TypeOK, AloneInv, MergeInv, Next, overlapped' # "yes"
  PROVE  MergeInv'
<1>1. AloneInv
  OBVIOUS
<1>2. ASSUME NEW r \in Requests, NEW b \in Bodies, CreateRow(r, b) PROVE MergeInv'
  <2>1. /\ Into(r, th'[r]) /\ th[r].at = "home"
        /\ th'[r].at = "spawn" /\ th'[r].kind = "create" /\ Start("create")
        /\ row'.access = Merged(Fresh, b)
    BY <1>2, CreateMoves DEF CreateRow
  <2>2. \A q \in Requests : th[q].at = "home"
    BY <1>1, <2>1, StartsAlone DEF Kinds
  <2>3. \A q \in Requests : th'[q].at \in {"home", "spawn"}
    BY <2>1, <2>2 DEF Into, Alone
  <2>4. QED
    BY <2>1, <2>3, MergedFields DEF MergeInv
<1>3. ASSUME NEW r \in Requests, NEW b \in Bodies, UpdateRead(r, b) PROVE MergeInv'
  <2>1. Into(r, th'[r]) /\ UNCHANGED row
    BY <1>3, ReadMoves DEF UpdateRead, store
  <2>2. th'[r].access = Merged(row.access, b) /\ th'[r].body = b
    BY <1>3 DEF UpdateRead, TypeOK, ThreadType
  <2>3. QED
    BY <2>1, <2>2 DEF MergeInv, Into, Alone
<1>4. ASSUME NEW r \in Requests, UpdateWrite(r) PROVE MergeInv'
  <2>1. th[r].at = "write" /\ Go(r, "apply")
    BY <1>4 DEF UpdateWrite, At
  <2>2. Into(r, th'[r]) /\ th'[r].at = "apply"
    BY <2>1, WritingMoves DEF Writes
  <2>3. \A q \in Requests : th'[q].at \notin {"lookup", "write"}
    BY <1>1, <2>1, <2>2, OthersOf DEF Into, Alone
  <2>4. row # NoRow => row'.access = Merged(row.access, th[r].body)
    BY <1>4, <2>1 DEF UpdateWrite, MergeInv, TypeOK, StoreType, Row
  <2>5. CASE row = NoRow
    BY <1>4, <2>3, <2>5 DEF UpdateWrite, MergeInv
  <2>6. CASE row # NoRow
    BY <2>3, <2>4, <2>6, MergedFields DEF MergeInv
  <2>7. QED
    BY <2>5, <2>6
<1>5. ASSUME NEW r \in Requests, Spawn(r) PROVE MergeInv'
  BY <1>5, FinishMoves, MergeFrame DEF Spawn, store, Into, TypeOK
<1>6. ASSUME NEW r \in Requests, UpdateLookup(r) PROVE MergeInv'
  <2>1. /\ Into(r, th'[r]) /\ th[r].at = "lookup" /\ row' = row
        /\ th'[r].at # "home" => th'[r].access = th[r].access /\ th'[r].body = th[r].body
    <3>1. row' = row /\ Home.at = "home"
      BY <1>6 DEF UpdateLookup, store, Home
    <3>2. QED
      BY <1>6, <3>1, LookupMoves DEF Writes
  <2>2. QED
    BY <2>1, MergeFrame
<1>7. ASSUME NEW r \in Requests, UpdateApply(r) PROVE MergeInv'
  BY <1>7, ApplyMoves, MergeFrame DEF UpdateApply, store
<1>8. ASSUME NEW r \in Requests, UpdatePolicy(r) PROVE MergeInv'
  BY <1>8, PolicyMoves, MergeFrame DEF Home
<1>9. ASSUME NEW r \in Requests, DeleteRead(r) \/ Delete(r) PROVE MergeInv'
  BY <1>9, DeleteMoves, MergeFrame DEF DeleteRead, Delete, store
<1>10. ASSUME NEW r \in Requests, Fails(r) PROVE MergeInv'
  <2>1. row' \in {row, NoRow}
    BY <1>10 DEF Fails, UpdateWriteFails, UpdatePolicyFails, DeleteRow, DeleteRowFails, store
  <2>2. QED
    BY <1>10, <2>1, FailMoves, MergeFrame
<1>11. CASE Crash
  BY <1>11, CrashMoves DEF MergeInv, Home
<1>12. CASE UNCHANGED <<row, th>>
  BY <1>12 DEF MergeInv
<1>13. ~Crash /\ ~(\E r \in Requests : Request(r)) => UNCHANGED <<row, th>>
  BY DEF Next, Client, Join, Bypass, BypassFails, CheckCredential, Enter, Grant, RevokeGrant,
     ActorWrites, CurrentAccessCode, Tick, store
<1>14. QED
  BY <1>2, <1>3, <1>4, <1>5, <1>6, <1>7, <1>8, <1>9, <1>10, <1>11, <1>12, <1>13
     DEF Request, Fails

\* The configurations in the row and on the way to it, whatever overlaps.
LEMMA SecretFrame ==
  ASSUME SecretInv, NEW r \in Requests, Into(r, th'[r]),
         row' # NoRow => NoSecret(row'.access),
         th'[r].at \in {"lookup", "write"} => NoSecret(th'[r].access)
  PROVE  SecretInv'
<1>1. \A q \in Requests : q # r => th'[q] = th[q]
  BY DEF Into, Alone
<1>2. QED
  BY <1>1 DEF SecretInv, NoSecret

LEMMA StepSecret ==
  ASSUME TypeOK, SecretInv, Next
  PROVE  SecretInv'
<1>1. ASSUME NEW r \in Requests, NEW b \in Bodies, CreateRow(r, b) PROVE SecretInv'
  <2>1. /\ Into(r, th'[r]) /\ th'[r].at = "spawn" /\ row'.access = Merged(Fresh, b)
    BY <1>1, CreateMoves DEF CreateRow
  <2>2. NoSecret(row'.access)
    BY <2>1, MergedFields DEF NoSecret
  <2>3. QED
    BY <2>1, <2>2, SecretFrame
<1>2. ASSUME NEW r \in Requests, NEW b \in Bodies, UpdateRead(r, b) PROVE SecretInv'
  <2>1. Into(r, th'[r]) /\ UNCHANGED row
    BY <1>2, ReadMoves DEF UpdateRead, store
  <2>2. th'[r].access = Merged(row.access, b)
    BY <1>2 DEF UpdateRead, TypeOK, ThreadType
  <2>3. NoSecret(th'[r].access)
    BY <2>2, MergedFields DEF NoSecret
  <2>4. QED
    BY <2>1, <2>3, SecretFrame DEF SecretInv
<1>3. ASSUME NEW r \in Requests, UpdateWrite(r) PROVE SecretInv'
  <2>1. th[r].at = "write" /\ Go(r, "apply")
    BY <1>3 DEF UpdateWrite, At
  <2>2. Into(r, th'[r]) /\ th'[r].at = "apply"
    BY <2>1, WritingMoves DEF Writes
  <2>3. row # NoRow => row'.access = th[r].access
    BY <1>3 DEF UpdateWrite, TypeOK, StoreType, Row
  <2>4. row = NoRow => row' = NoRow
    BY <1>3 DEF UpdateWrite
  <2>5. QED
    BY <2>1, <2>2, <2>3, <2>4, SecretFrame DEF SecretInv
<1>4. ASSUME NEW r \in Requests, Spawn(r) PROVE SecretInv'
  BY <1>4, FinishMoves, SecretFrame DEF Spawn, store, Into, TypeOK, SecretInv
<1>5. ASSUME NEW r \in Requests, UpdateLookup(r) PROVE SecretInv'
  <2>1. /\ Into(r, th'[r]) /\ th[r].at = "lookup" /\ row' = row
        /\ th'[r].at # "home" => th'[r].access = th[r].access
    <3>1. row' = row /\ Home.at = "home"
      BY <1>5 DEF UpdateLookup, store, Home
    <3>2. QED
      BY <1>5, <3>1, LookupMoves DEF Writes
  <2>2. QED
    BY <2>1, SecretFrame DEF SecretInv
<1>6. ASSUME NEW r \in Requests, UpdateApply(r) PROVE SecretInv'
  BY <1>6, ApplyMoves, SecretFrame DEF UpdateApply, store, SecretInv
<1>7. ASSUME NEW r \in Requests, UpdatePolicy(r) PROVE SecretInv'
  <2>1. /\ Into(r, th'[r]) /\ th'[r].at = "home" /\ (row' = NoRow <=> row = NoRow)
        /\ row # NoRow => row'.access = row.access
    BY <1>7, PolicyMoves DEF Home
  <2>2. QED
    BY <2>1, SecretFrame DEF SecretInv
<1>8. ASSUME NEW r \in Requests, DeleteRead(r) \/ Delete(r) PROVE SecretInv'
  BY <1>8, DeleteMoves, SecretFrame DEF DeleteRead, Delete, store, SecretInv
<1>9. ASSUME NEW r \in Requests, Fails(r) PROVE SecretInv'
  <2>1. row' \in {row, NoRow}
    BY <1>9 DEF Fails, UpdateWriteFails, UpdatePolicyFails, DeleteRow, DeleteRowFails, store
  <2>2. QED
    BY <1>9, <2>1, FailMoves, SecretFrame DEF SecretInv
<1>10. CASE Crash
  BY <1>10, CrashMoves DEF SecretInv, Home
<1>11. CASE UNCHANGED <<row, th>>
  BY <1>11 DEF SecretInv
<1>12. ~Crash /\ ~(\E r \in Requests : Request(r)) => UNCHANGED <<row, th>>
  BY DEF Next, Client, Join, Bypass, BypassFails, CheckCredential, Enter, Grant, RevokeGrant,
     ActorWrites, CurrentAccessCode, Tick, store
<1>13. QED
  BY <1>1, <1>2, <1>3, <1>4, <1>5, <1>6, <1>7, <1>8, <1>9, <1>10, <1>11, <1>12
     DEF Request, Fails

LEMMA StepPatch ==
  ASSUME TypeOK, RoomInv, PatchInv, Next
  PROVE  PatchInv'
<1>1. SecretInv'
  BY StepSecret DEF PatchInv
<1>2. ASSUME overlapped' # "yes" PROVE MergeInv'
  <2>1. CASE Crash
    BY <2>1, CrashMoves DEF MergeInv, Home
  <2>2. CASE ~Crash
    <3>1. overlapped # "yes"
      BY <1>2, <2>2, OverlappedStays
    <3>2. QED
      BY <1>2, <3>1, StepMerge DEF RoomInv, PatchInv
  <2>3. QED
    BY <2>1, <2>2
<1>3. QED
  BY <1>1, <1>2 DEF PatchInv

\* What a request at its write does next.
LEMMA OnlyWrites ==
  ASSUME TypeOK, Next, NEW r \in Requests, At(r, "write"), th'[r].at = "apply"
  PROVE  UpdateWrite(r)
<1>1. th[r].at = "write"
  BY DEF At
<1>2. ASSUME NEW q \in Requests, Request(q), Into(q, th'[q]) PROVE q = r
  BY <1>1, <1>2 DEF Into, Alone
<1>3. ASSUME NEW q \in Requests, Request(q) PROVE Into(q, th'[q])
  <2>1. ASSUME NEW b \in Bodies, CreateRow(q, b) \/ UpdateRead(q, b) PROVE Into(q, th'[q])
    BY <2>1, CreateMoves, ReadMoves
  <2>2. CASE Spawn(q)
    BY <2>2, FinishMoves DEF Spawn, TypeOK, Into
  <2>3. CASE UpdateLookup(q)
    BY <2>3, LookupMoves
  <2>4. CASE UpdateWrite(q)
    BY <2>4, WritingMoves DEF UpdateWrite, At
  <2>5. CASE UpdateApply(q) \/ UpdatePolicy(q)
    BY <2>5, ApplyMoves, PolicyMoves
  <2>6. CASE DeleteRead(q) \/ Delete(q)
    BY <2>6, DeleteMoves
  <2>7. CASE Fails(q)
    BY <2>7, FailMoves
  <2>8. QED
    BY <1>3, <2>1, <2>2, <2>3, <2>4, <2>5, <2>6, <2>7 DEF Request, Fails
<1>4. CASE \E q \in Requests : Request(q)
  <2>1. Request(r)
    BY <1>2, <1>3, <1>4
  <2>2. ~UpdateWriteFails(r)
    BY FailMoves DEF Fails
  <2>3. th[r] # Home
    BY <1>1 DEF Home
  <2>4. QED
    BY <1>1, <2>1, <2>2, <2>3 DEF Request, CreateRow, Spawn, UpdateRead, UpdateLookup,
       UpdateApply, UpdatePolicy, UpdatePolicyFails, DeleteRead, Delete, DeleteRow,
       DeleteRowFails, At
<1>5. CASE Crash
  BY <1>5, CrashMoves DEF Home
<1>6. ~Crash /\ ~(\E q \in Requests : Request(q)) => UNCHANGED th
  BY DEF Next, Client, Join, Bypass, BypassFails, CheckCredential, Enter, Grant, RevokeGrant,
     ActorWrites, CurrentAccessCode, Tick
<1>7. QED
  BY <1>1, <1>4, <1>5, <1>6

LEMMA WritesMerge ==
  ASSUME TypeOK, PatchInv, overlapped # "yes", Next, NEW r \in Requests
  PROVE  OmittedStays(r)
<1> SUFFICES ASSUME At(r, "write"), th'[r].at = "apply", row # NoRow
             PROVE  Keeps(row.access, th[r].body, row'.access)
  BY DEF OmittedStays
<1>1. UpdateWrite(r) /\ th[r].at = "write"
  BY OnlyWrites DEF At
<1>2. row'.access = th[r].access
  BY <1>1 DEF UpdateWrite, TypeOK, StoreType, Row
<1>3. th[r].access = Merged(row.access, th[r].body)
  BY <1>1 DEF PatchInv, MergeInv
<1>4. QED
  BY <1>2, <1>3, MergedKeeps DEF PatchInv
-----------------------------------------------------------------------------
(* The theorems.                                                           *)
LEMMA StepAdmission ==
  ASSUME TypeOK, CodeInv, EntryInv, ProbeInv, [Next]_vars
  PROVE  TypeOK' /\ CodeInv' /\ EntryInv' /\ ProbeInv'
<1>1. CASE Next
  BY <1>1, StepType, StepCode, StepEntry, StepProbe
<1>2. CASE UNCHANGED vars
  <2>1. UNCHANGED <<row, contents, grants, rooms, actors, registered, th, now, joining, bucket,
                    codes, probes, vouched>>
    BY <1>2 DEF vars, store, manager, admission
  <2>2. TypeOK'
    BY <2>1 DEF TypeOK, StoreType, ManagerType, ThreadType, AdmissionType
  <2>3. CodeInv' /\ ProbeInv'
    BY <2>1 DEF CodeInv, ProbeInv, ProbesBounded
  <2>4. EntryInv'
    BY <2>1 DEF EntryInv, IsEntitled
  <2>5. QED
    BY <2>2, <2>3, <2>4
<1>3. QED
  BY <1>1, <1>2

LEMMA InitAdmission == Init => TypeOK /\ CodeInv /\ EntryInv /\ ProbeInv
<1> SUFFICES ASSUME Init PROVE TypeOK /\ CodeInv /\ EntryInv /\ ProbeInv
  OBVIOUS
<1>1. CodeInv /\ EntryInv
  BY DEF Init, CodeInv, EntryInv, Home
<1>2. probes = <<>> /\ bucket = NoBucket /\ now = 0 /\ bucket.count = 0 /\ bucket.start = 0
  BY DEF Init, NoBucket
<1>3. bucket \in [count : 0 .. Limit, start : Nat]
  BY <1>2, RoomsAssumption DEF NoBucket
<1>4. ProbeInv
  BY <1>2, <1>3 DEF ProbeInv, ProbesBounded
<1>5. QED
  BY <1>1, <1>4, InitType

\* The types, of every room in every execution.
THEOREM RoomsKeepTheirTypes == Spec => []TypeOK
<1>1. TypeOK /\ CodeInv /\ EntryInv /\ ProbeInv /\ [Next]_vars
        => (TypeOK /\ CodeInv /\ EntryInv /\ ProbeInv)'
  BY StepAdmission
<1>2. QED
  BY <1>1, InitAdmission, PTL DEF Spec

\* CodeAt and Check of access.go: a code that was handed out is accepted exactly until
\* its period and the grace are over, whatever the periods are, while the room keeps
\* its period.
THEOREM CodesLiveRight == Spec => []CodesLiveTheirPeriod
<1>1. TypeOK /\ CodeInv /\ EntryInv /\ ProbeInv /\ [Next]_vars
        => (TypeOK /\ CodeInv /\ EntryInv /\ ProbeInv)'
  BY StepAdmission
<1>2. TypeOK /\ CodeInv /\ EntryInv /\ ProbeInv => CodesLiveTheirPeriod
  BY CodesAreRight
<1>3. QED
  BY <1>1, <1>2, InitAdmission, PTL DEF Spec

\* AdmitRoom: who is about to enter was entitled at a moment of the join, though the
\* configuration is read twice and the grants between the two; and of the wrong
\* credentials that are answered, 2 * Limit take at least a window.
THEOREM EntrantsWereEntitled == Spec => []AdmittedWereEntitled
<1>1. TypeOK /\ CodeInv /\ EntryInv /\ ProbeInv /\ [Next]_vars
        => (TypeOK /\ CodeInv /\ EntryInv /\ ProbeInv)'
  BY StepAdmission
<1>2. TypeOK /\ CodeInv /\ EntryInv /\ ProbeInv => AdmittedWereEntitled
  <2> SUFFICES ASSUME EntryInv, ProbeInv PROVE AdmittedWereEntitled
    OBVIOUS
  <2>1. ProbesBounded
    BY DEF ProbeInv
  <2>2. QED
    BY <2>1 DEF AdmittedWereEntitled, EntryInv
<1>3. QED
  BY <1>1, <1>2, InitAdmission, PTL DEF Spec

Inv == TypeOK /\ CodeInv /\ EntryInv /\ ProbeInv /\ RoomInv /\ PatchInv

LEMMA StepAll ==
  ASSUME Inv, [Next]_vars
  PROVE  Inv'
<1>1. CASE Next
  BY <1>1, StepAdmission, StepRoom, StepPatch DEF Inv
<1>2. CASE UNCHANGED vars
  <2>1. UNCHANGED <<row, contents, grants, actors, registered, th, undeleted, overlapped>>
    BY <1>2 DEF vars, store, manager
  <2>2. RoomInv'
    BY <2>1 DEF Inv, RoomInv, AloneInv, StateInv, ActorInv, ContentsInv, ContentsAreOwn, ConfigInv
  <2>3. PatchInv'
    BY <2>1 DEF Inv, PatchInv, SecretInv, MergeInv
  <2>4. QED
    BY <2>2, <2>3, StepAdmission DEF Inv
<1>3. QED
  BY <1>1, <1>2

LEMMA InitAll == Init => Inv
<1> SUFFICES ASSUME Init PROVE Inv
  OBVIOUS
<1>1. PICK b \in Bodies : row.access = Merged(Fresh, b)
  BY DEF Init
<1>2. \A r \in Requests : th[r].at = "home"
  BY DEF Init, Home
<1>3. PatchInv
  BY <1>1, <1>2, MergedFields DEF PatchInv, SecretInv, MergeInv, NoSecret
<1>4. QED
  BY <1>3, InitAdmission, InitRoom DEF Inv

\* The manager's map, the rows and the tables of the queue: as long as no requests have
\* overlapped since the server started, a room has one actor if it has a row, its own,
\* with the configuration that the row has, whatever fails, crashes or half succeeds;
\* and as long as none ever have, nothing of a deleted room is left for the next one of
\* its name.
THEOREM RoomsHaveTheirActors == Spec => []RoomHasItsActor
<1>1. Inv /\ [Next]_vars => Inv'
  BY StepAll
<1>2. Inv => RoomHasItsActor
  BY RoomIsRight DEF Inv
<1>3. QED
  BY <1>1, <1>2, InitAll, PTL DEF Spec

\* PATCH of a room: what the body omits stays what the row held when it was written,
\* unless another request has overlapped the update since the server started.
THEOREM PatchesKeepTheRest == Spec => OmittedKept
<1>1. Inv /\ [Next]_vars => Inv'
  BY StepAll
<1>2. Inv /\ [Next]_vars =>
        [overlapped # "yes" => \A r \in Requests : OmittedStays(r)]_vars
  BY WritesMerge DEF Inv
<1>3. QED
  BY <1>1, <1>2, InitAll, PTL DEF Spec, OmittedKept
=============================================================================

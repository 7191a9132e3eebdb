---------------------------- MODULE SessionsProofs ----------------------------
(***************************************************************************)
(* The three invariants of Sessions for any number of requests, tokens,    *)
(* credentials, restarts and refused writes.  The argument is about who    *)
(* holds a token: while a request issues one nobody else has it, so what   *)
(* was revoked cannot be put back by a step that was under way, and the    *)
(* row of a session lags behind it only while one known UPDATE runs.       *)
(***************************************************************************)
EXTENDS Sessions, TLAPS

(* The states of a request, one set of records for each shape.             *)
IssuingLogin == [at : {"save", "insert"}, token : Logins, until : Nat]
IssuingActor ==
  [at : {"save", "insert", "check"}, token : Actors, credential : Nat, until : Nat]
Using == [at : {"renew"}, token : Tokens]
Updating == [at : {"update"}, token : Logins, until : Nat, previous : Nat]
Ending == [at : {"revoke", "unsave"}, token : Tokens]
Patching == [at : {"patch", "reread"}, active : BOOLEAN, seen : BOOLEAN]
Sweeping == [at : {"sweep", "sweepRows"}, due : SUBSET Actors]
RequestState == {Home} \cup IssuingLogin \cup IssuingActor \cup Using \cup Updating
                  \cup Ending \cup Patching \cup Sweeping

TypeOK ==
  /\ now \in Nat \ {0} /\ pruning \in 0 .. now
  /\ sessions \in [Tokens -> [expires : Nat, persisted : Nat]]
  /\ rows \in [Tokens -> Nat]
  /\ holder \in [Tokens -> {"nobody", "unissued", "guest", "password", "actor"}]
  /\ roles \in [Kinds -> SUBSET {Admin}]
  /\ integration \in [credential : Nat, active : BOOLEAN] /\ credentials \in Nat
  /\ th \in [Requests -> RequestState]
  /\ handed \subseteq Tokens /\ ended \subseteq Tokens
  /\ leaked \subseteq Tokens /\ excused \subseteq Tokens
  /\ proof \in [Tokens -> {"none", "guest", "password"}]
  /\ promised \in [Tokens -> Nat]

Issues(r) == th[r].at \in {"save", "insert", "check"}
HasToken(r) == Issues(r) \/ th[r].at \in {"renew", "update", "revoke", "unsave"}

\* While a token is issued no other request has it and no client does.
TokenInv ==
  /\ \A t \in handed : holder[t] # "nobody"
  /\ \A t \in Tokens : promised[t] # 0 => t \in handed
  /\ \A r \in Requests : HasToken(r) => holder[th[r].token] # "nobody"
  /\ \A r \in Requests : Issues(r) => th[r].token \notin handed
  /\ \A r, q \in Requests : r # q /\ Issues(r) /\ HasToken(q) => th[r].token # th[q].token

\* Guests never share a principal with an administrator.
GuestInv ==
  /\ roles["guest"] = {}
  /\ \A t \in Logins : proof[t] = "guest" => holder[t] = "guest"

\* Whatever holds the end of an actor's session, it is the one end.
ActorInv ==
  /\ \A r \in Requests : th[r].at \in {"insert", "check"} /\ th[r].token \in Actors =>
       rows[th[r].token] \in {0, th[r].until}
  /\ \A r \in Requests : th[r].at = "check" =>
       sessions[th[r].token].expires \in {0, th[r].until}
  /\ \A t \in Actors : promised[t] # 0 =>
       rows[t] \in {0, promised[t]} /\ sessions[t].expires \in {0, promised[t]}

\* A credential that was replaced is never valid again.
CredentialInv ==
  /\ integration.credential <= credentials
  /\ \A r \in Requests : Issues(r) /\ th[r].token \in Actors =>
       th[r].credential \in 1 .. credentials

\* No client will be given the token any more, unless it has it.
Settled(t) ==
  t \in handed \/
    \A r \in Requests : Issues(r) /\ th[r].token = t =>
      t \in Actors /\ th[r].credential # integration.credential

\* What is to be ended, and what has ended, is settled.
SettledInv ==
  /\ \A r \in Requests : th[r].at \in {"sweep", "sweepRows"} =>
       \A t \in th[r].due : holder[t] # "nobody" /\ Settled(t)
  /\ \A t \in ended : holder[t] # "nobody" /\ Settled(t)

\* Between memory and store a token that is being ended has no session, and
\* no UPDATE that comes late mistakes its absence for the session it renewed.
GoneInv ==
  /\ \A r \in Requests : th[r].at = "update" => th[r].until # 0
  /\ \A r \in Requests : th[r].at = "unsave" => sessions[th[r].token] = NoSession
  /\ \A r \in Requests : th[r].at = "sweepRows" =>
       \A t \in th[r].due \cap handed : sessions[t] = NoSession
  /\ EndedIsGone

Pending(t) == \E r \in Requests : th[r].at = "update" /\ th[r].token = t

\* What an ordinary session, its row and its client's expectation have to do with
\* each other as long as nothing has excused a difference.
Kept(t) ==
  /\ now < promised[t] => /\ sessions[t].expires >= promised[t]
                          /\ sessions[t].persisted + PersistLag >= promised[t]
  /\ now < sessions[t].expires =>
       rows[t] # 0 /\ (Pending(t) \/ rows[t] >= sessions[t].persisted)
  /\ \A r \in Requests : th[r].at = "update" /\ th[r].token = t =>
       /\ sessions[t].expires = th[r].until /\ sessions[t].persisted = th[r].until
       /\ th[r].until >= now + SessionTTL

SlideInv ==
  /\ \A r \in Requests : th[r].at \in {"revoke", "unsave"} /\ th[r].token \in Logins =>
       promised[th[r].token] = 0
  /\ \A r \in Requests : th[r].at = "insert" /\ th[r].token \in Logins /\ now < th[r].until =>
       rows[th[r].token] = th[r].until
  /\ \A t \in Logins \ excused : promised[t] # 0 => Kept(t)
-----------------------------------------------------------------------------
(* The step of one request.                                                *)
Alone(r) == \A q \in Requests : q # r => th'[q] = th[q]
Into(r, s) == th' \in [Requests -> RequestState] /\ Alone(r) /\ th'[r] = s

LEMMA MoveRequest ==
  ASSUME TypeOK, NEW r \in Requests, NEW s \in RequestState, th' = [th EXCEPT ![r] = s]
  PROVE  Into(r, s)
  BY DEF TypeOK, Into, Alone

LEMMA AnswerMoves ==
  ASSUME TypeOK, NEW r \in Requests, Answer(r)
  PROVE  Into(r, Home) /\ th'[r].at = "home"
<1>1. Into(r, Home)
  BY MoveRequest DEF Answer, RequestState
<1>2. QED
  BY <1>1 DEF Into, Home

\* What the location of a request says about its other fields.
LEMMA Shape ==
  ASSUME TypeOK, NEW r \in Requests
  PROVE  /\ Issues(r) => th[r] \in IssuingLogin \cup IssuingActor
         /\ Issues(r) => th[r].token \in Tokens /\ th[r].until \in Nat
         /\ Issues(r) /\ th[r].token \in Actors => th[r] \in IssuingActor
         /\ th[r].at = "check" => th[r] \in IssuingActor
         /\ th[r].at = "renew" => th[r] \in Using
         /\ th[r].at = "update" => th[r] \in Updating
         /\ th[r].at \in {"revoke", "unsave"} => th[r] \in Ending
         /\ th[r].at \in {"patch", "reread"} => th[r] \in Patching
         /\ th[r].at \in {"sweep", "sweepRows"} => th[r] \in Sweeping
         /\ HasToken(r) => th[r].token \in Tokens
<1>1. th[r] \in RequestState
  BY DEF TypeOK
<1>2. CASE th[r] = Home
  BY <1>2 DEF Home, Issues, HasToken
<1>3. CASE th[r] \in IssuingLogin
  BY <1>3, SessionsAssumption DEF IssuingLogin, Issues, HasToken, Tokens
<1>4. CASE th[r] \in IssuingActor
  BY <1>4 DEF IssuingActor, Issues, HasToken, Tokens
<1>5. CASE th[r] \in Using
  BY <1>5 DEF Using, Issues, HasToken
<1>6. CASE th[r] \in Updating
  BY <1>6 DEF Updating, Issues, HasToken, Tokens
<1>7. CASE th[r] \in Ending
  BY <1>7 DEF Ending, Issues, HasToken
<1>8. CASE th[r] \in Patching
  BY <1>8 DEF Patching, Issues, HasToken
<1>9. CASE th[r] \in Sweeping
  BY <1>9 DEF Sweeping, Issues, HasToken
<1>10. QED
  BY <1>1, <1>2, <1>3, <1>4, <1>5, <1>6, <1>7, <1>8, <1>9 DEF RequestState

LEMMA LoginMoves ==
  ASSUME TypeOK, NEW r \in Requests, NEW t \in Logins, NEW kind \in Kinds, Login(r, t, kind)
  PROVE  /\ Into(r, [at |-> "save", token |-> t, until |-> now + SessionTTL])
         /\ th[r].at = "home"
         /\ th'[r].at = "save" /\ th'[r].token = t /\ th'[r].until = now + SessionTTL
<1>1. now + SessionTTL \in Nat
  BY SessionsAssumption DEF TypeOK
<1>2. [at |-> "save", token |-> t, until |-> now + SessionTTL] \in RequestState
  BY <1>1 DEF RequestState, IssuingLogin
<1>3. Into(r, [at |-> "save", token |-> t, until |-> now + SessionTTL])
  BY <1>2, MoveRequest DEF Login
<1>4. QED
  BY <1>3 DEF Into, Login, At

LEMMA ResolveMoves ==
  ASSUME TypeOK, NEW r \in Requests, NEW t \in Actors, NEW c \in 1 .. credentials, Resolve(r, t, c)
  PROVE  /\ Into(r, [at |-> "save", token |-> t, credential |-> c, until |-> now + ActorTTL])
         /\ th[r].at = "home"
         /\ th'[r].at = "save" /\ th'[r].token = t /\ th'[r].until = now + ActorTTL
         /\ th'[r].credential = c
<1>1. now + ActorTTL \in Nat /\ c \in Nat
  BY SessionsAssumption DEF TypeOK
<1>2. [at |-> "save", token |-> t, credential |-> c, until |-> now + ActorTTL] \in RequestState
  BY <1>1 DEF RequestState, IssuingActor
<1>3. Into(r, [at |-> "save", token |-> t, credential |-> c, until |-> now + ActorTTL])
  BY <1>2, MoveRequest DEF Resolve
<1>4. QED
  BY <1>3 DEF Into, Resolve, At

LEMMA FindMoves ==
  ASSUME TypeOK, NEW r \in Requests, NEW t \in Tokens, Find(r, t)
  PROVE  /\ th[r].at = "home"
         /\ \/ /\ now >= sessions[t].expires /\ th' = th
               /\ sessions' = [sessions EXCEPT ![t] = NoSession]
            \/ /\ Into(r, [at |-> "renew", token |-> t]) /\ sessions' = sessions
               /\ th'[r].at = "renew" /\ th'[r].token = t
<1>1. [at |-> "renew", token |-> t] \in RequestState
  BY DEF RequestState, Using
<1>2. CASE th' = [th EXCEPT ![r] = [at |-> "renew", token |-> t]] /\ sessions' = sessions
  <2>1. Into(r, [at |-> "renew", token |-> t])
    BY <1>1, <1>2, MoveRequest
  <2>2. QED
    BY <1>2, <2>1 DEF Into, Find, At
<1>3. CASE /\ now >= sessions[t].expires /\ th' = th
           /\ sessions' = [sessions EXCEPT ![t] = NoSession]
  BY <1>3 DEF Find, At
<1>4. QED
  BY <1>2, <1>3 DEF Find

LEMMA LogoutMoves ==
  ASSUME TypeOK, NEW r \in Requests, NEW t \in Tokens, Logout(r, t)
  PROVE  /\ Into(r, [at |-> "revoke", token |-> t]) /\ th[r].at = "home"
         /\ th'[r].at = "revoke" /\ th'[r].token = t
<1>1. [at |-> "revoke", token |-> t] \in RequestState
  BY DEF RequestState, Ending
<1>2. Into(r, [at |-> "revoke", token |-> t])
  BY <1>1, MoveRequest DEF Logout
<1>3. QED
  BY <1>2 DEF Into, Logout, At

LEMMA SaveMoves ==
  ASSUME TypeOK, NEW r \in Requests, Save(r)
  PROVE  /\ th' \in [Requests -> RequestState] /\ Alone(r) /\ th[r].at = "save"
         /\ th'[r].at = "insert" /\ th'[r].token = th[r].token /\ th'[r].until = th[r].until
         /\ th[r].token \in Actors => th'[r].credential = th[r].credential
<1>1. th[r].at = "save" /\ th' = [th EXCEPT ![r] = [th[r] EXCEPT !.at = "insert"]]
  BY DEF Save, At, Step, TypeOK
<1>2. CASE th[r] \in IssuingLogin
  <2>1. [th[r] EXCEPT !.at = "insert"] \in IssuingLogin
    BY <1>2 DEF IssuingLogin
  <2>2. Into(r, [th[r] EXCEPT !.at = "insert"])
    BY <1>1, <2>1, MoveRequest DEF RequestState
  <2>3. QED
    BY <1>1, <1>2, <2>2, SessionsAssumption DEF Into, IssuingLogin
<1>3. CASE th[r] \in IssuingActor
  <2>1. [th[r] EXCEPT !.at = "insert"] \in IssuingActor
    BY <1>3 DEF IssuingActor
  <2>2. Into(r, [th[r] EXCEPT !.at = "insert"])
    BY <1>1, <2>1, MoveRequest DEF RequestState
  <2>3. QED
    BY <1>1, <1>3, <2>2 DEF Into, IssuingActor
<1>4. QED
  BY <1>1, <1>2, <1>3, Shape DEF Issues

LEMMA InsertMoves ==
  ASSUME TypeOK, NEW r \in Requests, Insert(r)
  PROVE  /\ th[r].at = "insert" /\ Alone(r) /\ th' \in [Requests -> RequestState]
         /\ IF th[r].token \in Actors
            THEN /\ th'[r].at = "check" /\ th'[r].token = th[r].token
                 /\ th'[r].until = th[r].until /\ th'[r].credential = th[r].credential
            ELSE th'[r].at = "home"
<1>1. th[r].at = "insert"
  BY DEF Insert, At
<1>2. CASE th[r].token \in Actors
  <2>1. th[r] \in IssuingActor
    BY <1>1, <1>2, Shape DEF Issues
  <2>2. [th[r] EXCEPT !.at = "check"] \in IssuingActor
    BY <2>1 DEF IssuingActor
  <2>3. th' = [th EXCEPT ![r] = [th[r] EXCEPT !.at = "check"]]
    BY <1>2 DEF Insert, Step, TypeOK
  <2>4. Into(r, [th[r] EXCEPT !.at = "check"])
    BY <2>2, <2>3, MoveRequest DEF RequestState
  <2>5. QED
    BY <1>1, <1>2, <2>1, <2>4 DEF Into, IssuingActor
<1>3. CASE th[r].token \notin Actors
  BY <1>1, <1>3, AnswerMoves DEF Insert, Hand, Into
<1>4. QED
  BY <1>2, <1>3

LEMMA CheckMoves ==
  ASSUME TypeOK, NEW r \in Requests, Check(r)
  PROVE  /\ th[r].at = "check" /\ Alone(r) /\ th' \in [Requests -> RequestState]
         /\ \/ th'[r].at = "home" /\ StillValid(th[r].credential)
            \/ th'[r].at = "revoke" /\ th'[r].token = th[r].token
<1>1. th[r].at = "check" /\ th[r].token \in Actors
  BY Shape DEF Check, At, IssuingActor
<1>2. CASE StillValid(th[r].credential)
  BY <1>1, <1>2, AnswerMoves DEF Check, Hand, Into
<1>3. CASE ~StillValid(th[r].credential)
  <2>1. [at |-> "revoke", token |-> th[r].token] \in RequestState
    BY <1>1 DEF RequestState, Ending, Tokens
  <2>2. Into(r, [at |-> "revoke", token |-> th[r].token])
    BY <1>3, <2>1, MoveRequest DEF Check
  <2>3. QED
    BY <1>1, <2>2 DEF Into
<1>4. QED
  BY <1>2, <1>3

\* Renewal never shortens a session.
LEMMA SlidEnd ==
  ASSUME TypeOK, NEW t \in Tokens
  PROVE  /\ Slid(t) \in Nat /\ Slid(t) >= sessions[t].expires /\ Slid(t) >= now + SessionTTL
         /\ Slid(t) \in {sessions[t].expires, now + SessionTTL}
<1>1. sessions[t].expires \in Nat /\ now + SessionTTL \in Nat
  BY SessionsAssumption DEF TypeOK
<1>2. ASSUME NEW a \in Nat, NEW b \in Nat
      PROVE  Max({a, b}) \in {a, b} /\ Max({a, b}) >= a /\ Max({a, b}) >= b
  <2>1. \E x \in {a, b} : \A y \in {a, b} : x >= y
    <3>1. CASE a >= b
      BY <3>1
    <3>2. CASE ~(a >= b)
      BY <3>2
    <3>3. QED
      BY <3>1, <3>2
  <2>2. Max({a, b}) \in {a, b} /\ \A y \in {a, b} : Max({a, b}) >= y
    BY <2>1 DEF Max
  <2>3. QED
    BY <2>2
<1>3. QED
  BY <1>1, <1>2 DEF Slid

LEMMA RenewMoves ==
  ASSUME TypeOK, NEW r \in Requests, Renew(r)
  PROVE  /\ th[r].at = "renew" /\ th[r].token \in Tokens /\ Alone(r)
         /\ th' \in [Requests -> RequestState]
         /\ \/ /\ ~Renewable(th[r].token) /\ th'[r].at = "home"
               /\ sessions' = sessions /\ promised' = promised
            \/ /\ Renewable(th[r].token) /\ ~Lags(th[r].token) /\ th'[r].at = "home"
            \/ /\ Renewable(th[r].token) /\ Lags(th[r].token)
               /\ th'[r].at = "update" /\ th'[r].token = th[r].token
               /\ th'[r].until = Slid(th[r].token) /\ promised' = promised
<1>1. th[r].at = "renew" /\ th[r].token \in Tokens
  BY Shape DEF Renew, At, Using
<1> PICK t \in Tokens : t = th[r].token
  BY <1>1
<1>2. CASE ~Renewable(t)
  <2>1. Answer(r) /\ sessions' = sessions /\ promised' = promised
    BY <1>2 DEF Renew
  <2>2. QED
    BY <1>1, <1>2, <2>1, AnswerMoves DEF Into
<1>3. CASE Renewable(t) /\ ~Lags(t)
  <2>1. Answer(r)
    BY <1>3 DEF Renew
  <2>2. QED
    BY <1>1, <1>3, <2>1, AnswerMoves DEF Into
<1>4. CASE Renewable(t) /\ Lags(t)
  <2> DEFINE s == [at |-> "update", token |-> t, until |-> Slid(t),
                   previous |-> sessions[t].persisted]
  <2>1. th' = [th EXCEPT ![r] = s] /\ promised' = promised
    BY <1>4 DEF Renew
  <2>2. t \in Logins /\ Slid(t) \in Nat /\ sessions[t].persisted \in Nat
    BY <1>4, SlidEnd DEF Renewable, TypeOK
  <2>3. s \in RequestState
    BY <2>2 DEF RequestState, Updating
  <2>4. s.at = "update" /\ s.token = t /\ s.until = Slid(t)
    OBVIOUS
  <2> HIDE DEF s
  <2>5. Into(r, s)
    BY <2>1, <2>3, MoveRequest
  <2>6. QED
    BY <1>1, <1>4, <2>1, <2>4, <2>5 DEF Into
<1>5. QED
  BY <1>2, <1>3, <1>4

LEMMA UpdateMoves ==
  ASSUME TypeOK, NEW r \in Requests, Update(r) \/ UpdateFails(r)
  PROVE  /\ th[r].at = "update" /\ th[r].token \in Logins /\ th[r].until \in Nat
         /\ th[r].previous \in Nat
         /\ Alone(r) /\ th' \in [Requests -> RequestState] /\ th'[r].at = "home"
<1>1. th[r].at = "update" /\ Answer(r)
  BY DEF Update, UpdateFails, At
<1>2. th[r] \in Updating
  BY <1>1, Shape
<1>3. QED
  BY <1>1, <1>2, AnswerMoves DEF Into, Updating

LEMMA RevokeMoves ==
  ASSUME TypeOK, NEW r \in Requests, Revoke(r)
  PROVE  /\ th[r].at = "revoke" /\ th[r].token \in Tokens
         /\ Alone(r) /\ th' \in [Requests -> RequestState]
         /\ th'[r].at = "unsave" /\ th'[r].token = th[r].token
<1>1. th[r].at = "revoke" /\ th' = [th EXCEPT ![r] = [th[r] EXCEPT !.at = "unsave"]]
  BY DEF Revoke, At, Step, TypeOK
<1>2. th[r] \in Ending
  BY <1>1, Shape
<1>3. [th[r] EXCEPT !.at = "unsave"] \in Ending
  BY <1>2 DEF Ending
<1>4. Into(r, [th[r] EXCEPT !.at = "unsave"])
  BY <1>1, <1>3, MoveRequest DEF RequestState
<1>5. QED
  BY <1>1, <1>2, <1>4 DEF Into, Ending

LEMMA UnsaveMoves ==
  ASSUME TypeOK, NEW r \in Requests, Unsave(r)
  PROVE  /\ th[r].at = "unsave" /\ th[r].token \in Tokens
         /\ Alone(r) /\ th' \in [Requests -> RequestState] /\ th'[r].at = "home"
<1>1. th[r].at = "unsave" /\ Answer(r)
  BY DEF Unsave, At
<1>2. th[r] \in Ending
  BY <1>1, Shape
<1>3. QED
  BY <1>1, <1>2, AnswerMoves DEF Into, Ending

LEMMA SaveFailsMoves ==
  ASSUME TypeOK, NEW r \in Requests, SaveFails(r)
  PROVE  /\ th[r].at = "save" /\ Alone(r)
         /\ th' \in [Requests -> RequestState] /\ th'[r].at = "home"
  BY AnswerMoves DEF SaveFails, At, Into

LEMMA ReadIntegrationMoves ==
  ASSUME TypeOK, NEW r \in Requests, NEW active \in BOOLEAN, ReadIntegration(r, active)
  PROVE  /\ th[r].at = "home" /\ Alone(r)
         /\ th' \in [Requests -> RequestState] /\ th'[r].at = "patch"
<1> DEFINE s == [at |-> "patch", active |-> active, seen |-> integration.active]
<1>1. integration.active \in BOOLEAN
  BY DEF TypeOK
<1>2. s \in RequestState /\ s.at = "patch"
  BY <1>1 DEF RequestState, Patching
<1>3. th' = [th EXCEPT ![r] = s] /\ th[r].at = "home"
  BY DEF ReadIntegration, At
<1> HIDE DEF s
<1>4. QED
  BY <1>2, <1>3, MoveRequest DEF Into

LEMMA SweepMoves ==
  ASSUME TypeOK, NEW r \in Requests, NEW due \in SUBSET Actors, Sweep(r, due)
  PROVE  /\ Alone(r) /\ th' \in [Requests -> RequestState]
         /\ th'[r].at = "sweep" /\ th'[r].due = due
<1>1. [at |-> "sweep", due |-> due] \in RequestState
  BY DEF RequestState, Sweeping
<1>2. Into(r, [at |-> "sweep", due |-> due])
  BY <1>1, MoveRequest DEF Sweep
<1>3. QED
  BY <1>2 DEF Into

LEMMA DueActors == HandedActors \in SUBSET Actors /\ AllActors \in SUBSET Actors
  BY DEF HandedActors, AllActors

LEMMA UpdateIntegrationMoves ==
  ASSUME TypeOK, NEW r \in Requests, UpdateIntegration(r)
  PROVE  /\ th[r].at = "patch" /\ Alone(r) /\ th' \in [Requests -> RequestState]
         /\ th'[r].at \in {"home", "reread"}
<1>1. th[r].at = "patch"
  BY DEF UpdateIntegration, At
<1>2. Answer(r) \/ Step(r, "reread")
  BY DEF UpdateIntegration
<1>3. CASE Answer(r)
  BY <1>1, <1>3, AnswerMoves DEF Into
<1>4. CASE Step(r, "reread")
  <2>1. PICK a \in BOOLEAN, b \in BOOLEAN :
          th[r] = [at |-> "patch", active |-> a, seen |-> b]
    BY <1>1, Shape DEF Patching
  <2>2. [at |-> "reread", active |-> a, seen |-> b] \in RequestState
    BY DEF RequestState, Patching
  <2>3. [th[r] EXCEPT !.at = "reread"] = [at |-> "reread", active |-> a, seen |-> b]
    BY <2>1
  <2>4. th' = [th EXCEPT ![r] = [th[r] EXCEPT !.at = "reread"]]
    BY <1>4, Zenon DEF Step
  <2>5. th' = [th EXCEPT ![r] = [at |-> "reread", active |-> a, seen |-> b]]
    BY <2>3, <2>4, Zenon
  <2>6. QED
    BY <1>1, <2>2, <2>5, MoveRequest DEF Into
<1>5. QED
  BY <1>2, <1>3, <1>4

LEMMA RereadMoves ==
  ASSUME TypeOK, NEW r \in Requests, RereadIntegration(r)
  PROVE  /\ th[r].at = "reread" /\ Alone(r) /\ th' \in [Requests -> RequestState]
         /\ \/ th'[r].at = "home"
            \/ th'[r].at = "sweep" /\ th'[r].due = HandedActors
<1>1. th[r].at = "reread"
  BY DEF RereadIntegration, At
<1>2. Answer(r) \/ Sweep(r, HandedActors)
  BY DEF RereadIntegration, Reread
<1>3. CASE Answer(r)
  BY <1>1, <1>3, AnswerMoves DEF Into
<1>4. CASE Sweep(r, HandedActors)
  BY <1>1, <1>4, SweepMoves, DueActors
<1>5. QED
  BY <1>2, <1>3, <1>4

LEMMA RotateMoves ==
  ASSUME TypeOK, NEW r \in Requests, RotateToken(r)
  PROVE  /\ th[r].at = "home" /\ Alone(r) /\ th' \in [Requests -> RequestState]
         /\ \/ th'[r].at = "home"
            \/ th'[r].at = "sweep" /\ th'[r].due = AllActors
<1>1. th[r].at = "home"
  BY DEF RotateToken, At
<1>2. Answer(r) \/ Sweep(r, AllActors)
  BY DEF RotateToken, Reread
<1>3. CASE Answer(r)
  BY <1>1, <1>3, AnswerMoves DEF Into
<1>4. CASE Sweep(r, AllActors)
  BY <1>1, <1>4, SweepMoves, DueActors
<1>5. QED
  BY <1>2, <1>3, <1>4

LEMMA DeleteMoves ==
  ASSUME TypeOK, NEW r \in Requests, DeleteIntegration(r)
  PROVE  /\ th[r].at = "home" /\ Alone(r) /\ th' \in [Requests -> RequestState]
         /\ th'[r].at = "sweep" /\ th'[r].due = AllActors
  BY SweepMoves, DueActors DEF DeleteIntegration, At

LEMMA SweepMemoryMoves ==
  ASSUME TypeOK, NEW r \in Requests, SweepMemory(r)
  PROVE  /\ th[r].at = "sweep" /\ th[r].due \in SUBSET Actors
         /\ Alone(r) /\ th' \in [Requests -> RequestState]
         /\ th'[r].at = "sweepRows" /\ th'[r].due = th[r].due
<1>1. th[r].at = "sweep" /\ th' = [th EXCEPT ![r] = [th[r] EXCEPT !.at = "sweepRows"]]
  BY DEF SweepMemory, At, Step, TypeOK
<1>2. th[r] \in Sweeping
  BY <1>1, Shape
<1>3. [th[r] EXCEPT !.at = "sweepRows"] \in Sweeping
  BY <1>2 DEF Sweeping
<1>4. Into(r, [th[r] EXCEPT !.at = "sweepRows"])
  BY <1>1, <1>3, MoveRequest DEF RequestState
<1>5. QED
  BY <1>1, <1>2, <1>4 DEF Into, Sweeping

LEMMA SweepRowsMoves ==
  ASSUME TypeOK, NEW r \in Requests, SweepRows(r)
  PROVE  /\ th[r].at = "sweepRows" /\ th[r].due \in SUBSET Actors
         /\ Alone(r) /\ th' \in [Requests -> RequestState] /\ th'[r].at = "home"
<1>1. th[r].at = "sweepRows" /\ Answer(r)
  BY DEF SweepRows, At
<1>2. th[r] \in Sweeping
  BY <1>1, Shape
<1>3. QED
  BY <1>1, <1>2, AnswerMoves DEF Into, Sweeping

LEMMA RestartMoves ==
  ASSUME Restart
  PROVE  /\ th' \in [Requests -> RequestState]
         /\ \A r \in Requests : th'[r].at = "home"
<1>1. th' = [r \in Requests |-> Home]
  BY DEF Restart
<1>2. QED
  BY <1>1 DEF RequestState, Home
-----------------------------------------------------------------------------
(* Types.                                                                  *)
LEMMA InitType == Init => TypeOK
<1> SUFFICES ASSUME Init PROVE TypeOK
  OBVIOUS
<1>1. th \in [Requests -> RequestState]
  BY DEF Init, RequestState
<1>2. sessions \in [Tokens -> [expires : Nat, persisted : Nat]]
  BY DEF Init, NoSession
<1>3. integration \in [credential : Nat, active : BOOLEAN] /\ credentials \in Nat
  <2>1. \/ integration = NoIntegration /\ credentials = MaxCredentials
        \/ integration = [credential |-> 1, active |-> TRUE] /\ credentials = 1
    BY DEF Init
  <2>2. MaxCredentials \in Nat
    BY SessionsAssumption
  <2>3. CASE integration = NoIntegration /\ credentials = MaxCredentials
    BY <2>2, <2>3 DEF NoIntegration
  <2>4. CASE integration = [credential |-> 1, active |-> TRUE] /\ credentials = 1
    BY <2>4
  <2>5. QED
    BY <2>1, <2>3, <2>4
<1>4. holder \in [Tokens -> {"nobody", "unissued", "guest", "password", "actor"}]
  BY DEF Init
<1>5. /\ now \in Nat \ {0} /\ pruning \in 0 .. now
      /\ rows \in [Tokens -> Nat] /\ roles \in [Kinds -> SUBSET {Admin}]
      /\ handed \subseteq Tokens /\ ended \subseteq Tokens
      /\ leaked \subseteq Tokens /\ excused \subseteq Tokens
      /\ proof \in [Tokens -> {"none", "guest", "password"}]
      /\ promised \in [Tokens -> Nat]
  BY DEF Init
<1>6. QED
  BY <1>1, <1>2, <1>3, <1>4, <1>5 DEF TypeOK

LEMMA StepType == TypeOK /\ Next => TypeOK'
<1> SUFFICES ASSUME TypeOK, Next PROVE TypeOK'
  OBVIOUS
<1>1. ASSUME NEW r \in Requests, NEW t \in Logins, NEW kind \in Kinds, Login(r, t, kind)
      PROVE  TypeOK'
  BY <1>1, LoginMoves DEF TypeOK, Login, PrincipalOf, Granted, Kinds, Into
<1>2. ASSUME NEW r \in Requests, NEW t \in Actors, NEW c \in 1 .. credentials, Resolve(r, t, c)
      PROVE  TypeOK'
  <2>1. holder' \in [Tokens -> {"nobody", "unissued", "guest", "password", "actor"}]
    BY <1>2 DEF TypeOK, Resolve
  <2>2. th' \in [Requests -> RequestState]
    BY <1>2, ResolveMoves DEF Into
  <2>3. QED
    BY <1>2, <2>1, <2>2 DEF TypeOK, Resolve, store, history
<1>3. ASSUME NEW r \in Requests, NEW t \in Tokens, Find(r, t)
      PROVE  TypeOK'
  <2>1. sessions' \in [Tokens -> [expires : Nat, persisted : Nat]]
    BY <1>3 DEF TypeOK, Find, NoSession
  <2>2. th' \in [Requests -> RequestState]
    BY <1>3, FindMoves DEF Into, TypeOK
  <2>3. QED
    BY <1>3, <2>1, <2>2 DEF TypeOK, Find, store, history
<1>4. ASSUME NEW r \in Requests, NEW t \in Tokens, Logout(r, t)
      PROVE  TypeOK'
  BY <1>4, LogoutMoves DEF TypeOK, Logout, Into, store
<1>5. ASSUME NEW r \in Requests, Save(r)
      PROVE  TypeOK'
  <2>1. th[r].token \in Tokens /\ th[r].until \in Nat
    BY <1>5, SaveMoves, Shape DEF Issues
  <2>2. QED
    BY <1>5, <2>1, SaveMoves DEF TypeOK, Save, history
<1>6. ASSUME NEW r \in Requests, SaveFails(r)
      PROVE  TypeOK'
  BY <1>6, SaveFailsMoves DEF TypeOK, SaveFails, store, history
<1>7. ASSUME NEW r \in Requests, Insert(r)
      PROVE  TypeOK'
  <2>1. th[r].token \in Tokens /\ th[r].until \in Nat
    BY <1>7, InsertMoves, Shape DEF Issues
  <2>2. handed' \subseteq Tokens /\ promised' \in [Tokens -> Nat]
    BY <1>7, <2>1 DEF TypeOK, Insert, Hand
  <2>3. sessions' \in [Tokens -> [expires : Nat, persisted : Nat]]
    BY <1>7, <2>1 DEF TypeOK, Insert, Issued
  <2>4. th' \in [Requests -> RequestState]
    BY <1>7, InsertMoves
  <2>5. QED
    BY <1>7, <2>2, <2>3, <2>4 DEF TypeOK, Insert, store
<1>8. ASSUME NEW r \in Requests, Check(r)
      PROVE  TypeOK'
  <2>1. th[r].token \in Tokens /\ th[r].until \in Nat
    BY <1>8, CheckMoves, Shape DEF Issues
  <2>2. handed' \subseteq Tokens /\ promised' \in [Tokens -> Nat]
    BY <1>8, <2>1 DEF TypeOK, Check, Hand
  <2>3. sessions' = sessions
    BY <1>8 DEF Check
  <2>4. th' \in [Requests -> RequestState]
    BY <1>8, CheckMoves
  <2>5. QED
    BY <1>8, <2>2, <2>3, <2>4 DEF TypeOK, Check, store
<1>9. ASSUME NEW r \in Requests, Renew(r)
      PROVE  TypeOK'
  <2>1. th[r].token \in Tokens
    BY <1>9, RenewMoves
  <2> PICK t \in Tokens : t = th[r].token
    BY <2>1
  <2>2. Slid(t) \in Nat
    BY SlidEnd
  <2>3. sessions' \in [Tokens -> [expires : Nat, persisted : Nat]]
    BY <1>9, <2>2 DEF TypeOK, Renew
  <2>4. promised' \in [Tokens -> Nat]
    BY <1>9, <2>2 DEF TypeOK, Renew
  <2>5. QED
    BY <1>9, <2>3, <2>4, RenewMoves DEF TypeOK, Renew, store
<1>10. ASSUME NEW r \in Requests, Update(r)
      PROVE  TypeOK'
  <2>1. th[r].token \in Tokens /\ th[r].until \in Nat
    BY <1>10, UpdateMoves DEF Tokens
  <2>2. QED
    BY <1>10, <2>1, UpdateMoves DEF TypeOK, Update, PromiseRenewed
<1>11. ASSUME NEW r \in Requests, UpdateFails(r)
      PROVE  TypeOK'
  <2>1. th[r].token \in Tokens /\ th[r].until \in Nat /\ th[r].previous \in Nat
    BY <1>11, UpdateMoves DEF Tokens
  <2> PICK t \in Tokens : t = th[r].token
    BY <2>1
  <2>2. sessions' \in [Tokens -> [expires : Nat, persisted : Nat]]
    BY <1>11, <2>1 DEF TypeOK, UpdateFails
  <2>3. QED
    BY <1>11, <2>1, <2>2, UpdateMoves DEF TypeOK, UpdateFails, PromiseRenewed, store
<1>12. ASSUME NEW r \in Requests, Revoke(r)
      PROVE  TypeOK'
  BY <1>12, RevokeMoves DEF TypeOK, Revoke, NoSession, store, history
<1>13. ASSUME NEW r \in Requests, Unsave(r)
      PROVE  TypeOK'
  BY <1>13, UnsaveMoves DEF TypeOK, Unsave
<1>14. ASSUME NEW r \in Requests, NEW active \in BOOLEAN, ReadIntegration(r, active)
      PROVE  TypeOK'
  BY <1>14, ReadIntegrationMoves DEF TypeOK, ReadIntegration, store, history
<1>15. ASSUME NEW r \in Requests, UpdateIntegration(r)
      PROVE  TypeOK'
  <2>1. th[r].active \in BOOLEAN
    BY <1>15, UpdateIntegrationMoves, Shape DEF Patching
  <2>2. integration' \in [credential : Nat, active : BOOLEAN]
    BY <1>15, <2>1 DEF TypeOK, UpdateIntegration
  <2>3. QED
    BY <1>15, <2>2, UpdateIntegrationMoves DEF TypeOK, UpdateIntegration, history
<1>26. ASSUME NEW r \in Requests, RereadIntegration(r)
      PROVE  TypeOK'
  BY <1>26, RereadMoves DEF TypeOK, RereadIntegration, store, history
<1>16. ASSUME NEW r \in Requests, RotateToken(r)
      PROVE  TypeOK'
  <2>1. integration' \in [credential : Nat, active : BOOLEAN] /\ credentials' \in Nat
    BY <1>16 DEF TypeOK, RotateToken
  <2>2. QED
    BY <1>16, <2>1, RotateMoves DEF TypeOK, RotateToken, history
<1>17. ASSUME NEW r \in Requests, DeleteIntegration(r)
      PROVE  TypeOK'
  BY <1>17, DeleteMoves DEF TypeOK, DeleteIntegration, NoIntegration, history
<1>18. ASSUME NEW r \in Requests, SweepMemory(r)
      PROVE  TypeOK'
  BY <1>18, SweepMemoryMoves DEF TypeOK, SweepMemory, NoSession, store, history
<1>19. ASSUME NEW r \in Requests, SweepRows(r)
      PROVE  TypeOK'
  <2>1. rows' \in [Tokens -> Nat] /\ leaked' \subseteq Tokens
    BY <1>19 DEF TypeOK, SweepRows, SweptRows, Tokens
  <2>2. QED
    BY <1>19, <2>1, SweepRowsMoves DEF TypeOK, SweepRows, Tokens
<1>20. ASSUME CreateIntegration
      PROVE  TypeOK'
  BY <1>20 DEF TypeOK, CreateIntegration, memory, history
<1>21. ASSUME Tick
      PROVE  TypeOK'
  BY <1>21 DEF TypeOK, Tick, memory, store, history
<1>22. ASSUME PruneMemory
      PROVE  TypeOK'
  BY <1>22 DEF TypeOK, PruneMemory, NoSession, store, history
<1>23. ASSUME PruneRows
      PROVE  TypeOK'
  BY <1>23 DEF TypeOK, PruneRows, Unexpired, Tokens
<1>24. ASSUME Restart
      PROVE  TypeOK'
  <2>1. sessions' \in [Tokens -> [expires : Nat, persisted : Nat]]
    BY <1>24 DEF TypeOK, Restart, LoadSessions, NoSession
  <2>2. promised' \in [Tokens -> Nat]
    BY <1>24, SessionsAssumption DEF TypeOK, Restart
  <2>3. rows' \in [Tokens -> Nat] /\ excused' \subseteq Tokens
    BY <1>24 DEF TypeOK, Restart, Unexpired, Tokens
  <2>4. QED
    BY <1>24, <2>1, <2>2, <2>3, RestartMoves DEF TypeOK, Restart
<1>25. QED
  BY <1>1, <1>2, <1>3, <1>4, <1>5, <1>6, <1>7, <1>8, <1>9, <1>10, <1>11, <1>12, <1>13,
     <1>14, <1>15, <1>16, <1>17, <1>18, <1>19, <1>20, <1>21, <1>22, <1>23, <1>24, <1>26 DEF Next
-----------------------------------------------------------------------------
(* Which actions touch what.                                               *)
Logs == \E r \in Requests, t \in Logins, kind \in Kinds : Login(r, t, kind)
Resolves == \E r \in Requests, t \in Actors, c \in 1 .. credentials : Resolve(r, t, c)
Hands == \E r \in Requests : Insert(r) \/ Check(r)

\* The steps of a request by what they work on, and those of the server itself.
Answering(r) ==
  \/ \E t \in Tokens : Find(r, t) \/ Logout(r, t)
  \/ Save(r) \/ SaveFails(r) \/ Insert(r) \/ Check(r)
Sliding(r) == Renew(r) \/ Update(r) \/ UpdateFails(r) \/ Revoke(r) \/ Unsave(r)
Administering(r) ==
  \/ \E active \in BOOLEAN : ReadIntegration(r, active)
  \/ UpdateIntegration(r) \/ RereadIntegration(r)
  \/ RotateToken(r) \/ DeleteIntegration(r)
  \/ SweepMemory(r) \/ SweepRows(r)
Serving == CreateIntegration \/ Tick \/ PruneMemory \/ PruneRows \/ Restart

\* Who writes a variable that few actions write.
WritesRows == \/ \E r \in Requests : Save(r) \/ Update(r) \/ Unsave(r) \/ DeleteIntegration(r) \/ SweepRows(r)
              \/ PruneRows \/ Restart
WritesSessions == \/ \E r \in Requests, t \in Tokens : Find(r, t)
                  \/ \E r \in Requests : Insert(r) \/ Renew(r) \/ UpdateFails(r) \/ Revoke(r) \/ SweepMemory(r)
                  \/ PruneMemory \/ Restart
WritesPromised == \/ Hands \/ \E r \in Requests, t \in Tokens : Logout(r, t)
                  \/ \E r \in Requests : Renew(r) \/ Update(r) \/ UpdateFails(r)
                  \/ Restart
WritesIntegration == \/ \E r \in Requests : UpdateIntegration(r) \/ RotateToken(r) \/ DeleteIntegration(r)
                     \/ CreateIntegration
WritesEnded == \E r \in Requests : Unsave(r) \/ SweepRows(r)
WritesExcused == (\E r \in Requests : UpdateFails(r)) \/ PruneRows \/ Restart

OthersWriteNothing ==
  /\ Logs \/ Resolves \/ UNCHANGED <<holder, roles, proof>>
  /\ Hands \/ UNCHANGED handed
  /\ WritesRows \/ UNCHANGED rows
  /\ WritesSessions \/ UNCHANGED sessions
  /\ WritesPromised \/ UNCHANGED promised
  /\ WritesIntegration \/ UNCHANGED <<integration, credentials>>
  /\ WritesEnded \/ UNCHANGED <<leaked, ended>>
  /\ WritesExcused \/ UNCHANGED excused
  /\ Tick \/ UNCHANGED now

LEMMA Writers ==
  ASSUME Next
  PROVE  OthersWriteNothing
<1>1. ASSUME Logs \/ Resolves PROVE OthersWriteNothing
  <2>1. CASE Logs
    <3>1. UNCHANGED <<now, sessions, rows, integration, credentials, handed, promised, ended, leaked, excused>>
      BY <2>1 DEF Logs, Login
    <3> QED BY <2>1, <3>1 DEF OthersWriteNothing
  <2>2. CASE Resolves
    <3>1. UNCHANGED <<now, sessions, store, credentials, history>>
      BY <2>2 DEF Resolves, Resolve
    <3> QED BY <2>2, <3>1 DEF OthersWriteNothing, store, history
  <2> QED BY <1>1, <2>1, <2>2
<1>2. ASSUME NEW r \in Requests, Answering(r) PROVE OthersWriteNothing
  <2>1. ASSUME NEW t \in Tokens, Find(r, t) PROVE OthersWriteNothing
    <3>1. WritesSessions
      BY <2>1 DEF WritesSessions
    <3> QED BY <2>1, <3>1 DEF Find, OthersWriteNothing, store, history
  <2>2. ASSUME NEW t \in Tokens, Logout(r, t) PROVE OthersWriteNothing
    <3>1. WritesPromised
      BY <2>2 DEF WritesPromised
    <3> QED BY <2>2, <3>1 DEF Logout, OthersWriteNothing, store
  <2>3. ASSUME Save(r) \/ SaveFails(r) PROVE OthersWriteNothing
    <3>1. Save(r) => WritesRows
      BY DEF WritesRows
    <3> QED BY <2>3, <3>1 DEF Save, SaveFails, OthersWriteNothing, store, history
  <2>4. ASSUME Insert(r) \/ Check(r) PROVE OthersWriteNothing
    <3>1. Hands /\ WritesPromised /\ (Insert(r) => WritesSessions)
      BY <2>4 DEF Hands, WritesPromised, WritesSessions
    <3> QED BY <2>4, <3>1 DEF Insert, Check, OthersWriteNothing, store
  <2> QED BY <1>2, <2>1, <2>2, <2>3, <2>4 DEF Answering
<1>3. ASSUME NEW r \in Requests, Sliding(r) PROVE OthersWriteNothing
  <2>1. /\ Renew(r) => WritesSessions /\ WritesPromised
        /\ Update(r) => WritesRows /\ WritesPromised
        /\ UpdateFails(r) => WritesSessions /\ WritesPromised /\ WritesExcused
        /\ Revoke(r) => WritesSessions
        /\ Unsave(r) => WritesRows /\ WritesEnded
    BY DEF WritesSessions, WritesPromised, WritesRows, WritesExcused, WritesEnded
  <2>2. CASE Renew(r) \/ Update(r) \/ UpdateFails(r)
    BY <2>1, <2>2 DEF Renew, Update, UpdateFails, OthersWriteNothing, store
  <2>3. CASE Revoke(r) \/ Unsave(r)
    BY <2>1, <2>3 DEF Revoke, Unsave, OthersWriteNothing, store, history
  <2> QED BY <1>3, <2>2, <2>3 DEF Sliding
<1>4. ASSUME NEW r \in Requests, Administering(r) PROVE OthersWriteNothing
  <2>1. /\ UpdateIntegration(r) \/ RotateToken(r) \/ DeleteIntegration(r) => WritesIntegration
        /\ DeleteIntegration(r) => WritesRows
        /\ SweepMemory(r) => WritesSessions
        /\ SweepRows(r) => WritesRows /\ WritesEnded
    BY DEF WritesIntegration, WritesRows, WritesSessions, WritesEnded
  <2>2. CASE \E active \in BOOLEAN : ReadIntegration(r, active)
    BY <2>2 DEF ReadIntegration, OthersWriteNothing, store, history
  <2>3. CASE UpdateIntegration(r) \/ RotateToken(r) \/ DeleteIntegration(r)
    BY <2>1, <2>3 DEF UpdateIntegration, RotateToken, DeleteIntegration, OthersWriteNothing, history
  <2>4. CASE SweepMemory(r) \/ SweepRows(r)
    BY <2>1, <2>4 DEF SweepMemory, SweepRows, OthersWriteNothing, store, history
  <2>5. CASE RereadIntegration(r)
    BY <2>5 DEF RereadIntegration, OthersWriteNothing, store, history
  <2> QED BY <1>4, <2>2, <2>3, <2>4, <2>5 DEF Administering
<1>5. ASSUME Serving PROVE OthersWriteNothing
  <2>1. /\ CreateIntegration => WritesIntegration
        /\ PruneMemory => WritesSessions
        /\ PruneRows => WritesRows /\ WritesExcused
        /\ Restart => WritesRows /\ WritesExcused /\ WritesSessions /\ WritesPromised
    BY DEF WritesIntegration, WritesSessions, WritesRows, WritesExcused, WritesPromised
  <2>2. CASE CreateIntegration \/ Tick
    BY <2>1, <2>2 DEF CreateIntegration, Tick, OthersWriteNothing, memory, store, history
  <2>3. CASE PruneMemory \/ PruneRows \/ Restart
    BY <2>1, <2>3 DEF PruneMemory, PruneRows, Restart, OthersWriteNothing, store, history
  <2> QED BY <1>5, <2>2, <2>3 DEF Serving
<1>6. Logs \/ Resolves \/ Serving \/ \E r \in Requests : Answering(r) \/ Sliding(r) \/ Administering(r)
  BY DEF Next, Logs, Resolves, Answering, Sliding, Administering, Serving
<1> QED BY <1>1, <1>2, <1>3, <1>4, <1>5, <1>6

LEMMA HolderFrame ==
  ASSUME Next PROVE Logs \/ Resolves \/ UNCHANGED <<holder, roles, proof>>
BY Writers DEF OthersWriteNothing

LEMMA HandedFrame ==
  ASSUME Next PROVE Hands \/ UNCHANGED handed
BY Writers DEF OthersWriteNothing

LEMMA PrincipalsLast ==
  ASSUME TypeOK, Next, NEW t \in Tokens, holder[t] # "nobody"
  PROVE  holder'[t] # "nobody"
<1>1. CASE Logs
  BY <1>1 DEF Logs, Login, PrincipalOf, Kinds, TypeOK
<1>2. CASE Resolves
  BY <1>2 DEF Resolves, Resolve, TypeOK
<1>3. QED
  BY <1>1, <1>2, HolderFrame
-----------------------------------------------------------------------------
(* Guests and administrators.                                              *)
LEMMA InitGuest == Init => GuestInv
  BY DEF Init, GuestInv, Kinds, Tokens

LEMMA StepGuest ==
  ASSUME TypeOK, GuestInv, Next PROVE GuestInv'
<1>1. CASE Logs
  <2>1. PICK r \in Requests, t \in Logins, kind \in Kinds : Login(r, t, kind)
    BY <1>1 DEF Logs
  <2>2. roles'["guest"] = {}
    BY <2>1 DEF GuestInv, Login, PrincipalOf, Granted, Kinds, TypeOK
  <2>3. \A u \in Logins : proof'[u] = "guest" => holder'[u] = "guest"
    BY <2>1 DEF GuestInv, Login, PrincipalOf, Kinds, TypeOK, Tokens
  <2>4. QED
    BY <2>2, <2>3 DEF GuestInv
<1>2. CASE Resolves
  BY <1>2, SessionsAssumption DEF Resolves, Resolve, GuestInv, TypeOK, Tokens, store, history
<1>3. QED
  BY <1>1, <1>2, HolderFrame DEF GuestInv
-----------------------------------------------------------------------------
(* Who has which token.                                                    *)
Holding == {"save", "insert", "check", "renew", "update", "revoke", "unsave"}

LEMMA HoldingIsHasToken == \A r \in Requests : HasToken(r) <=> th[r].at \in Holding
  BY DEF HasToken, Issues, Holding

\* What takes a request to where it then has something to do.
Caused(r) ==
  /\ th'[r].at = "insert" => Save(r)
  /\ th'[r].at = "update" => Renew(r)
  /\ th'[r].at = "revoke" => Check(r) \/ \E t \in Tokens : Logout(r, t)
  /\ th'[r].at = "unsave" => Revoke(r)
  /\ th'[r].at = "sweepRows" => SweepMemory(r)
  /\ th[r].at = "update" => Update(r) \/ UpdateFails(r)

Moved(r) ==
  /\ Alone(r) /\ Caused(r)
  /\ \/ th'[r].at \notin Holding
     \/ /\ th[r].at \in Holding /\ th'[r].at \in Holding /\ th'[r].token = th[r].token
        /\ th'[r].at \in {"save", "insert", "check"} =>
             /\ th[r].at \in {"save", "insert"} /\ (Save(r) \/ Insert(r))
             /\ th[r].token \in Actors => th'[r].credential = th[r].credential
     \/ /\ th[r].at = "home" /\ th'[r].at \in {"renew", "revoke"}
        /\ th'[r].token \in handed

LEMMA RequestsMove ==
  ASSUME TypeOK, Next
  PROVE  \/ Logs \/ Resolves \/ UNCHANGED th
         \/ Restart /\ \A q \in Requests : th'[q].at = "home"
         \/ \E r \in Requests : Moved(r)
<1>1. ASSUME NEW r \in Requests, NEW t \in Tokens, Find(r, t) \/ Logout(r, t)
      PROVE  UNCHANGED th \/ Moved(r)
  <2>1. t \in handed
    BY <1>1 DEF Find, Logout
  <2>2. CASE Find(r, t)
    BY <2>1, <2>2, FindMoves DEF Into, Moved, Caused, Holding
  <2>3. CASE Logout(r, t)
    BY <2>1, <2>3, LogoutMoves DEF Into, Moved, Caused, Holding
  <2>4. QED
    BY <1>1, <2>2, <2>3
<1>2. ASSUME NEW r \in Requests, Save(r) \/ SaveFails(r) PROVE Moved(r)
  BY <1>2, SaveMoves, SaveFailsMoves DEF Moved, Caused, Holding
<1>3. ASSUME NEW r \in Requests, Insert(r) \/ Check(r) PROVE Moved(r)
  BY <1>3, InsertMoves, CheckMoves DEF Moved, Caused, Holding
<1>4. ASSUME NEW r \in Requests, Renew(r) PROVE Moved(r)
  BY <1>4, RenewMoves DEF Moved, Caused, Holding
<1>5. ASSUME NEW r \in Requests, Update(r) \/ UpdateFails(r) PROVE Moved(r)
  BY <1>5, UpdateMoves DEF Moved, Caused, Holding
<1>6. ASSUME NEW r \in Requests, Revoke(r) \/ Unsave(r) PROVE Moved(r)
  BY <1>6, RevokeMoves, UnsaveMoves DEF Moved, Caused, Holding
<1>7. ASSUME NEW r \in Requests, NEW active \in BOOLEAN, ReadIntegration(r, active)
      PROVE  Moved(r)
  BY <1>7, ReadIntegrationMoves DEF Moved, Caused, Holding
<1>8. ASSUME NEW r \in Requests,
             UpdateIntegration(r) \/ RereadIntegration(r) \/ RotateToken(r) \/ DeleteIntegration(r)
      PROVE  Moved(r)
  BY <1>8, UpdateIntegrationMoves, RereadMoves, RotateMoves, DeleteMoves DEF Moved, Caused, Holding
<1>9. ASSUME NEW r \in Requests, SweepMemory(r) \/ SweepRows(r) PROVE Moved(r)
  BY <1>9, SweepMemoryMoves, SweepRowsMoves DEF Moved, Caused, Holding
<1>10. ASSUME CreateIntegration \/ Tick \/ PruneMemory \/ PruneRows PROVE UNCHANGED th
  BY <1>10 DEF CreateIntegration, Tick, PruneMemory, PruneRows, memory
<1>11. QED
  BY <1>1, <1>2, <1>3, <1>4, <1>5, <1>6, <1>7, <1>8, <1>9, <1>10, RestartMoves
     DEF Next, Logs, Resolves

\* Only a token that nobody had is issued anew.
LEMMA StillHolding ==
  ASSUME TypeOK, Next, ~Logs, ~Resolves, NEW q \in Requests, th'[q].at \in Holding
  PROVE  /\ \/ th[q].at \in Holding /\ th'[q].token = th[q].token
            \/ th'[q].at \in {"renew", "revoke"} /\ th'[q].token \in handed
         /\ th'[q].at \in {"save", "insert", "check"} =>
              /\ th[q].at \in {"save", "insert", "check"} /\ th'[q].token = th[q].token
              /\ th[q].token \in Actors => th'[q].credential = th[q].credential
<1>1. CASE UNCHANGED th
  BY <1>1
<1>2. CASE \A p \in Requests : th'[p].at = "home"
  BY <1>2 DEF Holding
<1>3. ASSUME NEW r \in Requests, Moved(r)
      PROVE  /\ \/ th[q].at \in Holding /\ th'[q].token = th[q].token
                \/ th'[q].at \in {"renew", "revoke"} /\ th'[q].token \in handed
             /\ th'[q].at \in {"save", "insert", "check"} =>
                  /\ th[q].at \in {"save", "insert", "check"} /\ th'[q].token = th[q].token
                  /\ th[q].token \in Actors => th'[q].credential = th[q].credential
  <2>1. CASE q = r
    BY <1>3, <2>1 DEF Moved
  <2>2. CASE q # r
    BY <1>3, <2>2 DEF Moved, Alone
  <2>3. QED
    BY <2>1, <2>2
<1>4. QED
  BY <1>1, <1>2, <1>3, RequestsMove

LEMMA Origins ==
  ASSUME TypeOK, Next, NEW q \in Requests,
         th'[q].at \in {"insert", "update", "revoke", "unsave", "sweepRows"}
  PROVE  th'[q] = th[q] \/ Caused(q)
<1>1. CASE Logs
  BY <1>1, LoginMoves DEF Logs, Into, Alone
<1>2. CASE Resolves
  BY <1>2, ResolveMoves DEF Resolves, Into, Alone
<1>3. ASSUME NEW r \in Requests, Moved(r) PROVE th'[q] = th[q] \/ Caused(q)
  BY <1>3 DEF Moved, Alone
<1>4. QED
  BY <1>1, <1>2, <1>3, RequestsMove

LEMMA UpdateLasts ==
  ASSUME TypeOK, Next, ~Restart, NEW q \in Requests, th[q].at = "update"
  PROVE  th'[q] = th[q] \/ Update(q) \/ UpdateFails(q)
<1>1. CASE Logs
  BY <1>1, LoginMoves DEF Logs, Into, Alone
<1>2. CASE Resolves
  BY <1>2, ResolveMoves DEF Resolves, Into, Alone
<1>3. ASSUME NEW r \in Requests, Moved(r)
      PROVE  th'[q] = th[q] \/ Update(q) \/ UpdateFails(q)
  BY <1>3 DEF Moved, Alone, Caused
<1>4. QED
  BY <1>1, <1>2, <1>3, RequestsMove

LEMMA HandStep ==
  ASSUME TypeOK, Hands
  PROVE  (handed' = handed /\ promised' = promised) \/ \E r \in Requests :
           /\ Issues(r) /\ th[r].token \in Tokens /\ th[r].until \in Nat
           /\ th'[r].at = "home" /\ Alone(r)
           /\ handed' = handed \cup {th[r].token}
           /\ promised' = [promised EXCEPT ![th[r].token] = th[r].until]
           /\ th[r].at = "check" => StillValid(th[r].credential)
<1>1. PICK r \in Requests : Insert(r) \/ Check(r)
  BY DEF Hands
<1>2. CASE Insert(r)
  <2>1. Issues(r)
    BY <1>2, InsertMoves DEF Issues
  <2>2. QED
    BY <1>2, <2>1, InsertMoves, Shape DEF Insert, Hand
<1>3. CASE Check(r)
  <2>1. Issues(r)
    BY <1>3, CheckMoves DEF Issues
  <2>2. CASE StillValid(th[r].credential)
    <3>1. Hand(r) /\ th'[r].at = "home"
      BY <1>3, <2>2, AnswerMoves DEF Check, Hand
    <3>2. QED
      BY <1>3, <2>1, <2>2, <3>1, CheckMoves, Shape DEF Hand
  <2>3. CASE ~StillValid(th[r].credential)
    BY <1>3, <2>3 DEF Check
  <2>4. QED
    BY <2>2, <2>3
<1>4. QED
  BY <1>1, <1>2, <1>3

\* A client counts only on a session it was given.
LEMMA PromiseFrame ==
  ASSUME TypeOK, Next, ~Hands, NEW t \in Tokens, promised'[t] # 0
  PROVE  promised[t] # 0
<1>1. CASE \E r \in Requests : Renew(r)
  BY <1>1 DEF Renew, TypeOK
<1>2. CASE \E r \in Requests : Update(r) \/ UpdateFails(r)
  BY <1>2 DEF Update, UpdateFails, PromiseRenewed, TypeOK
<1>3. CASE \E r \in Requests, u \in Tokens : Logout(r, u)
  BY <1>3 DEF Logout, TypeOK
<1>4. CASE Restart
  BY <1>4, SessionsAssumption DEF Restart, TypeOK
<1>5. CASE UNCHANGED promised
  BY <1>5
<1>6. ASSUME ~\E r \in Requests : Renew(r), ~\E r \in Requests : Update(r) \/ UpdateFails(r),
             ~\E r \in Requests, u \in Tokens : Logout(r, u), ~Restart
      PROVE  UNCHANGED promised
  BY <1>6, Writers DEF OthersWriteNothing, WritesPromised
<1>7. QED
  BY <1>1, <1>2, <1>3, <1>4, <1>5, <1>6

LEMMA InitToken == Init => TokenInv
  BY DEF Init, TokenInv, HasToken, Issues, Home

\* A login or a resolve takes a token nobody has.
LEMMA TokenTaken ==
  ASSUME TypeOK, TokenInv, Logs \/ Resolves
  PROVE  TokenInv'
<1>1. PICK r \in Requests, t \in Tokens :
        /\ Alone(r) /\ holder[t] = "nobody" /\ holder'[t] # "nobody"
        /\ \A u \in Tokens : u # t => holder'[u] = holder[u]
        /\ th[r].at = "home" /\ th'[r].at = "save" /\ th'[r].token = t
        /\ handed' = handed /\ promised' = promised
  <2>1. CASE Logs
    <3>1. PICK r \in Requests, t \in Logins, kind \in Kinds : Login(r, t, kind)
      BY <2>1 DEF Logs
    <3>2. Alone(r) /\ th[r].at = "home" /\ th'[r].at = "save" /\ th'[r].token = t
      BY <3>1, LoginMoves DEF Into
    <3>3. holder[t] = "nobody" /\ holder' = [holder EXCEPT ![t] = kind]
          /\ handed' = handed /\ promised' = promised
      BY <3>1 DEF Login, Unused, PrincipalOf
    <3>4. t \in Tokens /\ kind # "nobody" /\ DOMAIN holder = Tokens
      BY DEF Tokens, Kinds, TypeOK
    <3>5. QED
      BY <3>2, <3>3, <3>4
  <2>2. CASE Resolves
    <3>1. PICK r \in Requests, t \in Actors, c \in 1 .. credentials : Resolve(r, t, c)
      BY <2>2 DEF Resolves
    <3>2. Alone(r) /\ th[r].at = "home" /\ th'[r].at = "save" /\ th'[r].token = t
      BY <3>1, ResolveMoves DEF Into
    <3>3. holder[t] = "nobody" /\ holder' = [holder EXCEPT ![t] = "actor"]
          /\ handed' = handed /\ promised' = promised
      BY <3>1 DEF Resolve, Unused, history
    <3>4. t \in Tokens /\ DOMAIN holder = Tokens
      BY DEF Tokens, TypeOK
    <3>5. QED
      BY <3>2, <3>3, <3>4
  <2>3. QED
    BY <2>1, <2>2
<1>2. \A q \in Requests : q # r => th'[q] = th[q]
  BY <1>1 DEF Alone
<1>3. \A q \in Requests : HasToken(q) => th[q].token # t /\ th[q].token \in Tokens
  BY <1>1, Shape DEF TokenInv
<1>4. t \notin handed
  BY <1>1 DEF TokenInv
<1>5. /\ \A u \in handed' : holder'[u] # "nobody"
      /\ \A u \in Tokens : promised'[u] # 0 => u \in handed'
  BY <1>1, <1>4 DEF TokenInv, TypeOK
<1>6. \A q \in Requests : th'[q].at \in Holding => holder'[th'[q].token] # "nobody"
  BY <1>1, <1>2, <1>3 DEF TokenInv, HasToken, Issues, Holding
<1>7. \A q \in Requests : th'[q].at \in {"save", "insert", "check"} =>
        th'[q].token \notin handed'
  BY <1>1, <1>2, <1>4 DEF TokenInv, Issues
<1>8. \A q, p \in Requests : q # p /\ th'[q].at \in {"save", "insert", "check"}
                             /\ th'[p].at \in Holding => th'[q].token # th'[p].token
  <2> SUFFICES ASSUME NEW q \in Requests, NEW p \in Requests, q # p,
                      th'[q].at \in {"save", "insert", "check"}, th'[p].at \in Holding
               PROVE  th'[q].token # th'[p].token
    OBVIOUS
  <2>1. CASE q = r
    BY <1>1, <1>2, <1>3, <2>1 DEF HasToken, Issues, Holding
  <2>2. CASE p = r
    BY <1>1, <1>2, <1>3, <2>2 DEF HasToken, Issues
  <2>3. CASE q # r /\ p # r
    BY <1>2, <2>3 DEF TokenInv, HasToken, Issues, Holding
  <2>4. QED
    BY <2>1, <2>2, <2>3
<1>9. QED
  BY <1>5, <1>6, <1>7, <1>8 DEF TokenInv, HasToken, Issues, Holding

LEMMA StepToken ==
  ASSUME TypeOK, TokenInv, Next
  PROVE  TokenInv'
<1> SUFFICES ASSUME ~Logs, ~Resolves PROVE TokenInv'
  BY TokenTaken
<1>1. UNCHANGED holder
  BY HolderFrame
<1>2. /\ \A r \in Requests : th[r].at \in Holding => holder[th[r].token] # "nobody"
      /\ \A r \in Requests : th[r].at \in {"save", "insert", "check"} => th[r].token \notin handed
      /\ \A r, q \in Requests : r # q /\ th[r].at \in {"save", "insert", "check"}
                                /\ th[q].at \in Holding => th[r].token # th[q].token
  BY DEF TokenInv, HasToken, Issues, Holding
<1>3. \A q \in Requests : th'[q].at \in Holding => holder[th'[q].token] # "nobody"
  BY <1>2, StillHolding DEF TokenInv
<1>4. \A r, q \in Requests : r # q /\ th'[r].at \in {"save", "insert", "check"}
                             /\ th'[q].at \in Holding => th'[r].token # th'[q].token
  <2> SUFFICES ASSUME NEW r \in Requests, NEW q \in Requests, r # q,
                      th'[r].at \in {"save", "insert", "check"}, th'[q].at \in Holding
               PROVE  th'[r].token # th'[q].token
    OBVIOUS
  <2>1. th[r].at \in {"save", "insert", "check"} /\ th'[r].token = th[r].token
    BY StillHolding DEF Holding
  <2>2. \/ th[q].at \in Holding /\ th'[q].token = th[q].token
        \/ th'[q].token \in handed
    BY StillHolding
  <2>3. QED
    BY <1>2, <2>1, <2>2
<1>5. /\ \A t \in handed' : holder[t] # "nobody"
      /\ \A t \in Tokens : promised'[t] # 0 => t \in handed'
      /\ \A r \in Requests : th'[r].at \in {"save", "insert", "check"} =>
           th'[r].token \notin handed'
  <2>1. CASE handed' = handed /\ ~Hands
    BY <1>2, <2>1, StillHolding, PromiseFrame DEF TokenInv, Holding
  <2>2. CASE handed' = handed /\ promised' = promised
    BY <1>2, <2>2, StillHolding DEF TokenInv, Holding
  <2>3. CASE Hands /\ ~(handed' = handed /\ promised' = promised)
    <3>1. PICK r \in Requests :
           /\ Issues(r) /\ th[r].token \in Tokens /\ th[r].until \in Nat
           /\ th'[r].at = "home" /\ Alone(r)
           /\ handed' = handed \cup {th[r].token}
           /\ promised' = [promised EXCEPT ![th[r].token] = th[r].until]
      BY <2>3, HandStep
    <3>2. \A t \in handed' : holder[t] # "nobody"
      BY <3>1 DEF TokenInv, HasToken
    <3>3. \A t \in Tokens : promised'[t] # 0 => t \in handed'
      BY <3>1 DEF TokenInv, TypeOK
    <3>4. ASSUME NEW q \in Requests, th'[q].at \in {"save", "insert", "check"}
          PROVE  th'[q].token \notin handed'
      <4>1. q # r /\ th'[q] = th[q]
        BY <3>1, <3>4 DEF Alone
      <4>2. QED
        BY <1>2, <3>1, <3>4, <4>1 DEF Issues, Holding
    <3>5. QED
      BY <3>2, <3>3, <3>4
  <2>4. QED
    BY <2>1, <2>2, <2>3, HandedFrame
<1>6. QED
  BY <1>1, <1>3, <1>4, <1>5 DEF TokenInv, HasToken, Issues, Holding
-----------------------------------------------------------------------------
(* Credentials.                                                            *)
\* The credential stays, or there is none, or it is one never used before.
LEMMA CredentialStep ==
  ASSUME TypeOK, Next
  PROVE  /\ credentials' >= credentials
         /\ \/ integration'.credential = integration.credential
            \/ integration'.credential = 0
            \/ integration'.credential = credentials + 1 /\ credentials' = credentials + 1
<1>1. CASE \E r \in Requests : RotateToken(r)
  BY <1>1 DEF RotateToken, TypeOK
<1>2. CASE \E r \in Requests : UpdateIntegration(r)
  BY <1>2 DEF UpdateIntegration, TypeOK
<1>3. CASE \E r \in Requests : DeleteIntegration(r)
  BY <1>3 DEF DeleteIntegration, NoIntegration, TypeOK
<1>4. CASE CreateIntegration
  BY <1>4 DEF CreateIntegration, TypeOK
<1>5. ASSUME ~\E r \in Requests : RotateToken(r), ~\E r \in Requests : UpdateIntegration(r),
             ~\E r \in Requests : DeleteIntegration(r), ~CreateIntegration
      PROVE  UNCHANGED <<integration, credentials>>
  BY <1>5, Writers DEF OthersWriteNothing, WritesIntegration
<1>6. QED
  BY <1>1, <1>2, <1>3, <1>4, <1>5 DEF TypeOK

LEMMA InitCredential == Init => CredentialInv
<1> SUFFICES ASSUME Init PROVE CredentialInv
  OBVIOUS
<1>1. MaxCredentials \in Nat
  BY SessionsAssumption
<1>2. \/ integration = NoIntegration /\ credentials = MaxCredentials
      \/ integration = [credential |-> 1, active |-> TRUE] /\ credentials = 1
  BY DEF Init
<1>3. integration.credential <= credentials
  BY <1>1, <1>2 DEF NoIntegration
<1>4. QED
  BY <1>3 DEF Init, CredentialInv, Issues, Home

LEMMA StepCredential ==
  ASSUME TypeOK, TypeOK', CredentialInv, Next
  PROVE  CredentialInv'
<1>1. integration'.credential <= credentials'
  BY CredentialStep DEF CredentialInv, TypeOK
<1>2. ASSUME NEW q \in Requests, th'[q].at \in {"save", "insert", "check"},
             th'[q].token \in Actors
      PROVE  th'[q].credential \in 1 .. credentials'
  <2>1. CASE Logs
    <3>1. PICK r \in Requests, t \in Logins, kind \in Kinds : Login(r, t, kind)
      BY <2>1 DEF Logs
    <3>2. q # r /\ credentials' = credentials
      <4>1. th'[r].token = t
        BY <3>1, LoginMoves
      <4>2. t \notin Actors /\ credentials' = credentials
        BY <3>1, SessionsAssumption DEF Login
      <4>3. QED
        BY <1>2, <4>1, <4>2
    <3>3. th'[q] = th[q]
      BY <3>1, <3>2, LoginMoves DEF Into, Alone
    <3>4. QED
      BY <1>2, <3>2, <3>3 DEF CredentialInv, Issues
  <2>2. CASE Resolves
    <3>1. PICK r \in Requests, t \in Actors, c \in 1 .. credentials : Resolve(r, t, c)
      BY <2>2 DEF Resolves
    <3>2. credentials' = credentials
      BY <3>1 DEF Resolve
    <3>3. CASE q = r
      <4>1. th'[r].credential = c
        <5>1. TypeOK /\ r \in Requests /\ t \in Actors /\ c \in 1 .. credentials /\ Resolve(r, t, c)
          BY <3>1
        <5>2. QED
          BY ONLY <5>1, ResolveMoves
      <4>2. c \in 1 .. credentials'
        BY <3>2
      <4>3. th'[q] = th'[r]
        BY <3>3
      <4>4. QED
        BY <4>1, <4>2, <4>3
    <3>4. CASE q # r
      BY <1>2, <3>1, <3>2, <3>4, ResolveMoves DEF Into, Alone, CredentialInv, Issues
    <3>5. QED
      BY <3>3, <3>4
  <2>3. CASE ~Logs /\ ~Resolves
    <3>1. /\ th[q].at \in {"save", "insert", "check"} /\ th'[q].token = th[q].token
          /\ th[q].token \in Actors => th'[q].credential = th[q].credential
      BY <1>2, <2>3, StillHolding DEF Holding
    <3>2. th'[q].credential \in 1 .. credentials
      BY <1>2, <3>1 DEF CredentialInv, Issues
    <3>3. QED
      BY <3>2, CredentialStep DEF TypeOK
  <2>4. QED
    BY <2>1, <2>2, <2>3
<1>3. QED
  BY <1>1, <1>2 DEF CredentialInv, Issues
-----------------------------------------------------------------------------
(* The fixed life of actor sessions.                                       *)
LEMMA InitActor == Init => ActorInv
  BY DEF Init, ActorInv, Home, Tokens

\* What most steps do to actor sessions: they end them or leave them.
ActorsOnlyEnd ==
  \A t \in Actors : /\ sessions'[t].expires \in {0, sessions[t].expires}
                    /\ rows'[t] \in {0, rows[t]}
                    /\ promised'[t] \in {0, promised[t]}

LEMMA ActorFrame ==
  ASSUME ActorInv, ActorsOnlyEnd, TypeOK, TypeOK',
         \A q \in Requests : th'[q].at \in {"insert", "check"} => th'[q] = th[q]
  PROVE  ActorInv'
<1>1. ASSUME NEW q \in Requests, th'[q].at \in {"insert", "check"}, th'[q].token \in Actors
      PROVE  rows'[th'[q].token] \in {0, th'[q].until}
  <2>1. th'[q] = th[q]
    BY <1>1
  <2> PICK t \in Actors : t = th'[q].token
    BY <1>1
  <2>2. rows[t] \in {0, th'[q].until}
    BY <1>1, <2>1 DEF ActorInv
  <2>3. QED
    BY <2>2 DEF ActorsOnlyEnd
<1>2. ASSUME NEW q \in Requests, th'[q].at = "check"
      PROVE  sessions'[th'[q].token].expires \in {0, th'[q].until}
  <2>1. th'[q] = th[q]
    BY <1>2
  <2>2. th[q].token \in Actors
    BY <1>2, <2>1, Shape DEF IssuingActor
  <2> PICK t \in Actors : t = th'[q].token
    BY <2>1, <2>2
  <2>3. sessions[t].expires \in {0, th'[q].until}
    BY <1>2, <2>1 DEF ActorInv
  <2>4. QED
    BY <2>3 DEF ActorsOnlyEnd
<1>3. \A t \in Actors : promised'[t] # 0 =>
        rows'[t] \in {0, promised'[t]} /\ sessions'[t].expires \in {0, promised'[t]}
  BY DEF ActorInv, ActorsOnlyEnd
<1>4. QED
  BY <1>1, <1>2, <1>3 DEF ActorInv


LEMMA SessionsEnd ==
  ASSUME TypeOK, Next, NEW t \in Actors, ~(\E r \in Requests : Insert(r)), ~Restart
  PROVE  sessions'[t].expires \in {0, sessions[t].expires}
<1>1. t \in Tokens /\ t \notin Logins /\ sessions[t].expires \in Nat
  BY SessionsAssumption DEF Tokens, TypeOK
<1>2. CASE \E r \in Requests : Renew(r)
  BY <1>1, <1>2 DEF Renew, Renewable, TypeOK
<1>3. CASE \E r \in Requests : UpdateFails(r)
  BY <1>1, <1>3 DEF UpdateFails, TypeOK
<1>4. CASE \E r \in Requests : Revoke(r)
  BY <1>1, <1>4 DEF Revoke, NoSession, TypeOK
<1>5. CASE \E r \in Requests, u \in Tokens : Find(r, u)
  BY <1>1, <1>5 DEF Find, NoSession, TypeOK
<1>6. CASE \E r \in Requests : SweepMemory(r)
  BY <1>1, <1>6 DEF SweepMemory, NoSession
<1>7. CASE PruneMemory
  BY <1>1, <1>7 DEF PruneMemory, NoSession
<1>8. ASSUME ~\E r \in Requests : Renew(r), ~\E r \in Requests : UpdateFails(r),
             ~\E r \in Requests : Revoke(r), ~\E r \in Requests, u \in Tokens : Find(r, u),
             ~\E r \in Requests : SweepMemory(r), ~PruneMemory
      PROVE  UNCHANGED sessions
  BY <1>8, Writers DEF OthersWriteNothing, WritesSessions
<1>9. QED
  BY <1>2, <1>3, <1>4, <1>5, <1>6, <1>7, <1>8

\* Only a save gives a session a row, and only a renewal moves its end.
LEMMA RowsEnd ==
  ASSUME TypeOK, Next, NEW t \in Tokens, ~(\E r \in Requests : Save(r)),
         t \in Actors \/ rows[t] = 0
  PROVE  rows'[t] \in {0, rows[t]}
<1>1. CASE \E r \in Requests : Update(r)
  <2>1. PICK r \in Requests : Update(r)
    BY <1>1
  <2>2. th[r].token \in Logins /\ th[r].token \notin Actors
    BY <2>1, UpdateMoves, SessionsAssumption
  <2>3. QED
    BY <2>1, <2>2 DEF Update, TypeOK
<1>2. CASE \E r \in Requests : Unsave(r)
  BY <1>2 DEF Unsave, TypeOK
<1>3. CASE \E r \in Requests : DeleteIntegration(r)
  BY <1>3 DEF DeleteIntegration
<1>4. CASE \E r \in Requests : SweepRows(r)
  BY <1>4 DEF SweepRows, SweptRows
<1>5. CASE PruneRows \/ Restart
  BY <1>5 DEF PruneRows, Restart, Unexpired
<1>6. ASSUME ~\E r \in Requests : Update(r), ~\E r \in Requests : Unsave(r),
             ~\E r \in Requests : DeleteIntegration(r),
             ~\E r \in Requests : SweepRows(r), ~(PruneRows \/ Restart)
      PROVE  UNCHANGED rows
  BY <1>6, Writers DEF OthersWriteNothing, WritesRows
<1>7. QED
  BY <1>1, <1>2, <1>3, <1>4, <1>5, <1>6

LEMMA ActorPromises ==
  ASSUME TypeOK, Next, ~Hands, NEW t \in Actors
  PROVE  promised'[t] \in {0, promised[t]}
<1>1. t \in Tokens /\ t \notin Logins
  BY SessionsAssumption DEF Tokens
<1>2. CASE \E r \in Requests : Renew(r)
  BY <1>1, <1>2 DEF Renew, Renewable, TypeOK
<1>3. CASE \E r \in Requests : Update(r) \/ UpdateFails(r)
  <2>1. PICK r \in Requests : Update(r) \/ UpdateFails(r)
    BY <1>3
  <2>2. th[r].token \in Logins
    BY <2>1, UpdateMoves
  <2>3. QED
    BY <1>1, <2>1, <2>2 DEF Update, UpdateFails, PromiseRenewed, TypeOK
<1>4. CASE \E r \in Requests, u \in Tokens : Logout(r, u)
  BY <1>1, <1>4 DEF Logout, TypeOK
<1>5. CASE Restart
  BY <1>1, <1>5 DEF Restart
<1>6. ASSUME ~\E r \in Requests : Renew(r), ~\E r \in Requests : Update(r) \/ UpdateFails(r),
             ~\E r \in Requests, u \in Tokens : Logout(r, u), ~Restart
      PROVE  UNCHANGED promised
  BY <1>6, Writers DEF OthersWriteNothing, WritesPromised
<1>7. QED
  BY <1>2, <1>3, <1>4, <1>5, <1>6

LEMMA IssuingStays ==
  ASSUME TypeOK, Next, ~(\E r \in Requests : Save(r) \/ Insert(r)),
         NEW q \in Requests, th'[q].at \in {"insert", "check"}
  PROVE  th'[q] = th[q]
<1>1. CASE Logs
  BY <1>1, LoginMoves DEF Logs, Into, Alone
<1>2. CASE Resolves
  BY <1>2, ResolveMoves DEF Resolves, Into, Alone
<1>3. ASSUME NEW r \in Requests, Moved(r) PROVE th'[q] = th[q]
  BY <1>3 DEF Moved, Alone, Holding
<1>4. QED
  BY <1>1, <1>2, <1>3, RequestsMove

LEMMA StepActor ==
  ASSUME TypeOK, TypeOK', TokenInv, ActorInv, Next
  PROVE  ActorInv'
<1>1. CASE Restart
  <2>1. /\ sessions' = LoadSessions /\ rows' = Unexpired(now)
        /\ \A t \in Tokens : t \in Actors => promised'[t] = promised[t]
    BY <1>1 DEF Restart
  <2>2. \A t \in Actors : promised'[t] # 0 =>
          rows'[t] \in {0, promised'[t]} /\ sessions'[t].expires \in {0, promised'[t]}
    BY <2>1 DEF LoadSessions, Unexpired, NoSession, ActorInv, Tokens
  <2>3. QED
    BY <1>1, <2>2, RestartMoves DEF ActorInv
<1>2. ASSUME NEW r \in Requests, Save(r) PROVE ActorInv'
  <2> PICK t \in Tokens : t = th[r].token
    BY <1>2, SaveMoves, Shape DEF Issues
  <2>1. /\ Alone(r) /\ th'[r].at = "insert" /\ th'[r].token = t /\ th'[r].until = th[r].until
        /\ sessions' = sessions /\ promised' = promised
        /\ rows' = [rows EXCEPT ![t] = th[r].until]
    BY <1>2, SaveMoves DEF Save, history
  <2>2. \A q \in Requests : q # r /\ th[q].at \in {"insert", "check"} => th[q].token # t
    BY <1>2, SaveMoves DEF TokenInv, HasToken, Issues
  <2>3. promised[t] = 0
    BY <1>2, SaveMoves DEF TokenInv, Issues
  <2>4. ASSUME NEW q \in Requests, th'[q].at \in {"insert", "check"}, th'[q].token \in Actors
        PROVE  rows'[th'[q].token] \in {0, th'[q].until}
    <3>1. CASE q = r
      BY <2>1, <3>1 DEF TypeOK
    <3>2. CASE q # r
      BY <2>1, <2>2, <2>4, <3>2 DEF Alone, ActorInv, TypeOK
    <3>3. QED
      BY <3>1, <3>2
  <2>5. ASSUME NEW q \in Requests, th'[q].at = "check"
        PROVE  sessions'[th'[q].token].expires \in {0, th'[q].until}
    BY <2>1, <2>5 DEF Alone, ActorInv
  <2>6. \A u \in Actors : promised'[u] # 0 =>
          rows'[u] \in {0, promised'[u]} /\ sessions'[u].expires \in {0, promised'[u]}
    BY <2>1, <2>3 DEF ActorInv, TypeOK, Tokens
  <2>7. QED
    BY <2>4, <2>5, <2>6 DEF ActorInv
<1>3. ASSUME NEW r \in Requests, Insert(r) PROVE ActorInv'
  <2> PICK t \in Tokens : t = th[r].token
    BY <1>3, InsertMoves, Shape DEF Issues
  <2> PICK end \in Nat : end = th[r].until
    BY <1>3, InsertMoves, Shape DEF Issues
  <2>1. /\ Alone(r) /\ th[r].at = "insert" /\ rows' = rows
        /\ sessions' = [sessions EXCEPT ![t] = [expires |-> end, persisted |-> end]]
    BY <1>3, InsertMoves DEF Insert, Issued, store
  <2>2. \A q \in Requests : q # r /\ th[q].at \in {"insert", "check"} => th[q].token # t
    BY <2>1 DEF TokenInv, HasToken, Issues
  <2>3. promised[t] = 0
    BY <2>1 DEF TokenInv, Issues
  <2>4. CASE t \in Actors
    <3>1. th'[r].at = "check" /\ th'[r].token = t /\ th'[r].until = end /\ promised' = promised
      BY <1>3, <2>4, InsertMoves DEF Insert
    <3>2. ASSUME NEW q \in Requests, th'[q].at \in {"insert", "check"}, th'[q].token \in Actors
          PROVE  rows'[th'[q].token] \in {0, th'[q].until}
      BY <2>1, <2>4, <3>1, <3>2 DEF Alone, ActorInv
    <3>3. ASSUME NEW q \in Requests, th'[q].at = "check"
          PROVE  sessions'[th'[q].token].expires \in {0, th'[q].until}
      <4>1. CASE q = r
        BY <2>1, <3>1, <4>1 DEF TypeOK
      <4>2. CASE q # r
        <5>1. th'[q] = th[q] /\ th[q].at = "check" /\ th[q].token # t
          BY <2>1, <2>2, <3>3, <4>2 DEF Alone
        <5> PICK u \in Tokens : u = th[q].token
          BY <5>1, Shape DEF Issues
        <5>2. sessions'[u] = sessions[u]
          BY <2>1, <5>1 DEF TypeOK
        <5>3. QED
          BY <5>1, <5>2 DEF ActorInv
      <4>3. QED
        BY <4>1, <4>2
    <3>4. \A u \in Actors : promised'[u] # 0 =>
            rows'[u] \in {0, promised'[u]} /\ sessions'[u].expires \in {0, promised'[u]}
      BY <2>1, <2>3, <3>1 DEF ActorInv, TypeOK, Tokens
    <3>5. QED
      BY <3>2, <3>3, <3>4 DEF ActorInv
  <2>5. CASE t \notin Actors
    <3>1. th'[r].at = "home" /\ promised' = [promised EXCEPT ![t] = end]
      BY <1>3, <2>5, InsertMoves DEF Insert, Hand
    <3>2. \A u \in Actors : sessions'[u] = sessions[u] /\ promised'[u] = promised[u]
      BY <2>1, <2>5, <3>1 DEF TypeOK, Tokens
    <3>3. ActorsOnlyEnd
      BY <2>1, <3>2 DEF ActorsOnlyEnd
    <3>4. \A q \in Requests : th'[q].at \in {"insert", "check"} => th'[q] = th[q]
      BY <2>1, <3>1 DEF Alone
    <3>5. QED
      BY <3>3, <3>4, ActorFrame
  <2>6. QED
    BY <2>4, <2>5
<1>4. ASSUME NEW r \in Requests, Check(r) PROVE ActorInv'
  <2>1. th[r].at = "check" /\ Alone(r) /\ th'[r].at \in {"home", "revoke"}
    BY <1>4, CheckMoves
  <2> PICK t \in Actors : t = th[r].token
    BY <2>1, Shape DEF IssuingActor
  <2>2. sessions' = sessions /\ rows' = rows
    BY <1>4 DEF Check, store
  <2>3. \A q \in Requests : th'[q].at \in {"insert", "check"} => th'[q] = th[q]
    BY <2>1 DEF Alone
  <2>4. promised' = promised \/ promised' = [promised EXCEPT ![t] = th[r].until]
    BY <1>4 DEF Check, Hand
  <2>5. rows[t] \in {0, th[r].until} /\ sessions[t].expires \in {0, th[r].until}
    BY <2>1 DEF ActorInv
  <2>6. \A u \in Actors : promised'[u] # 0 =>
          rows'[u] \in {0, promised'[u]} /\ sessions'[u].expires \in {0, promised'[u]}
    BY <2>2, <2>4, <2>5 DEF ActorInv, TypeOK, Tokens
  <2>7. QED
    BY <2>2, <2>3, <2>6 DEF ActorInv
<1>5. CASE ~Restart /\ ~\E r \in Requests : Save(r) \/ Insert(r) \/ Check(r)
  <2>1. ~Hands
    BY <1>5 DEF Hands
  <2>2. ActorsOnlyEnd
    BY <1>5, <2>1, SessionsEnd, RowsEnd, ActorPromises DEF ActorsOnlyEnd, Tokens
  <2>3. QED
    BY <1>5, <2>2, ActorFrame, IssuingStays
<1>6. QED
  BY <1>1, <1>2, <1>3, <1>4, <1>5
-----------------------------------------------------------------------------
(* What is settled stays settled.                                          *)
LEMMA SettledStays ==
  ASSUME TypeOK, TokenInv, CredentialInv, Next, NEW t \in Tokens,
         holder[t] # "nobody", Settled(t)
  PROVE  holder'[t] # "nobody" /\ Settled(t)'
<1>1. holder'[t] # "nobody"
  BY PrincipalsLast
<1>2. CASE t \in handed
  <2>1. t \in handed'
    BY <1>2, HandedFrame, HandStep
  <2>2. QED
    BY <1>1, <2>1 DEF Settled
<1>3. ASSUME t \notin handed, NEW q \in Requests, th'[q].at \in {"save", "insert", "check"},
             th'[q].token = t
      PROVE  t \in Actors /\ th'[q].credential # integration'.credential
  <2>1. th[q].at \in {"save", "insert", "check"} /\ th[q].token = t
        /\ (t \in Actors => th'[q].credential = th[q].credential)
    <3>1. CASE Logs
      <4>1. PICK r \in Requests, u \in Logins, kind \in Kinds : Login(r, u, kind)
        BY <3>1 DEF Logs
      <4>2. u # t /\ th'[r].token = u /\ Alone(r)
        BY <4>1, LoginMoves DEF Login, Unused, Into
      <4>3. q # r /\ th'[q] = th[q]
        BY <1>3, <4>2 DEF Alone
      <4>4. QED
        BY <1>3, <4>3
    <3>2. CASE Resolves
      <4>1. PICK r \in Requests, u \in Actors, c \in 1 .. credentials : Resolve(r, u, c)
        BY <3>2 DEF Resolves
      <4>2. u # t /\ th'[r].token = u /\ Alone(r)
        BY <4>1, ResolveMoves DEF Resolve, Unused, Into
      <4>3. q # r /\ th'[q] = th[q]
        BY <1>3, <4>2 DEF Alone
      <4>4. QED
        BY <1>3, <4>3
    <3>3. CASE ~Logs /\ ~Resolves
      BY <1>3, <3>3, StillHolding DEF Holding
    <3>4. QED
      BY <3>1, <3>2, <3>3
  <2>2. t \in Actors /\ th[q].credential # integration.credential
    BY <1>3, <2>1 DEF Settled, Issues
  <2>3. th[q].credential \in 1 .. credentials /\ credentials \in Nat
    BY <2>1, <2>2 DEF CredentialInv, Issues, TypeOK
  <2>4. QED
    BY <2>1, <2>2, <2>3, CredentialStep
<1>4. QED
  BY <1>1, <1>2, <1>3 DEF Settled, Issues

LEMMA InitSettled == Init => SettledInv
  BY DEF Init, SettledInv, Home

\* After a rotation or a deletion no request that was issuing a token can
\* still prove its credential.
LEMMA AllActorsSettled ==
  ASSUME TypeOK, TypeOK', TokenInv, CredentialInv, NEW r \in Requests,
         RotateToken(r) \/ DeleteIntegration(r), NEW t \in AllActors
  PROVE  holder'[t] # "nobody" /\ Settled(t)'
<1>1. t \in Actors /\ (t \in handed \/ Issuing(t)) /\ holder' = holder /\ handed' = handed
  BY DEF AllActors, RotateToken, DeleteIntegration, history
<1>2. holder[t] # "nobody"
  BY <1>1 DEF TokenInv, Issuing, HasToken, Issues
<1>3. integration'.credential = 0 \/ integration'.credential = credentials + 1
  BY DEF RotateToken, DeleteIntegration, NoIntegration, TypeOK
<1>4. Alone(r) /\ th'[r].at \in {"home", "sweep"}
  BY RotateMoves, DeleteMoves
<1>5. ASSUME NEW q \in Requests, th'[q].at \in {"save", "insert", "check"}, th'[q].token = t
      PROVE  th'[q].credential # integration'.credential
  <2>1. th'[q] = th[q]
    BY <1>4, <1>5 DEF Alone
  <2>2. th[q].credential \in 1 .. credentials /\ credentials \in Nat
    BY <1>1, <1>5, <2>1 DEF CredentialInv, Issues, TypeOK
  <2>3. QED
    BY <1>3, <2>1, <2>2
<1>6. QED
  BY <1>1, <1>2, <1>5 DEF Settled, Issues

\* Where a sweep comes from.
LEMMA SweepStep ==
  ASSUME TypeOK, Next, NEW q \in Requests, th'[q].at \in {"sweep", "sweepRows"}
  PROVE  \/ th[q].at \in {"sweep", "sweepRows"} /\ th'[q].due = th[q].due
         \/ RereadIntegration(q) /\ th'[q].due = HandedActors
         \/ (RotateToken(q) \/ DeleteIntegration(q)) /\ th'[q].due = AllActors
<1>1. CASE Logs
  BY <1>1, LoginMoves DEF Logs, Into, Alone
<1>2. CASE Resolves
  BY <1>2, ResolveMoves DEF Resolves, Into, Alone
<1>3. ASSUME NEW r \in Requests, NEW t \in Tokens, Find(r, t) \/ Logout(r, t)
      PROVE  th'[q] = th[q]
  BY <1>3, FindMoves, LogoutMoves DEF Into, Alone
<1>4. ASSUME NEW r \in Requests, Save(r) \/ SaveFails(r) \/ Insert(r) \/ Check(r)
      PROVE  th'[q] = th[q]
  BY <1>4, SaveMoves, SaveFailsMoves, InsertMoves, CheckMoves DEF Alone
<1>5. ASSUME NEW r \in Requests, Renew(r) \/ Update(r) \/ UpdateFails(r)
      PROVE  th'[q] = th[q]
  BY <1>5, RenewMoves, UpdateMoves DEF Alone
<1>6. ASSUME NEW r \in Requests, Revoke(r) \/ Unsave(r)
      PROVE  th'[q] = th[q]
  BY <1>6, RevokeMoves, UnsaveMoves DEF Alone
<1>7. ASSUME NEW r \in Requests, NEW active \in BOOLEAN, ReadIntegration(r, active)
      PROVE  th'[q] = th[q]
  BY <1>7, ReadIntegrationMoves DEF Alone
<1>8. ASSUME NEW r \in Requests, UpdateIntegration(r)
      PROVE  th'[q] = th[q]
  BY <1>8, UpdateIntegrationMoves DEF Alone
<1>15. ASSUME NEW r \in Requests, RereadIntegration(r)
      PROVE  th'[q] = th[q] \/ (q = r /\ th'[q].due = HandedActors)
  <2>1. CASE q = r
    BY <1>15, <2>1, RereadMoves
  <2>2. CASE q # r
    BY <1>15, <2>2, RereadMoves DEF Alone
  <2>3. QED
    BY <2>1, <2>2
<1>9. ASSUME NEW r \in Requests, RotateToken(r) \/ DeleteIntegration(r)
      PROVE  th'[q] = th[q] \/ (q = r /\ th'[q].due = AllActors)
  <2>1. CASE q = r
    BY <1>9, <2>1, RotateMoves, DeleteMoves
  <2>2. CASE q # r
    BY <1>9, <2>2, RotateMoves, DeleteMoves DEF Alone
  <2>3. QED
    BY <2>1, <2>2
<1>10. ASSUME NEW r \in Requests, SweepMemory(r)
      PROVE  th'[q] = th[q] \/ (q = r /\ th[q].at = "sweep" /\ th'[q].due = th[q].due)
  <2>1. CASE q = r
    BY <1>10, <2>1, SweepMemoryMoves
  <2>2. CASE q # r
    BY <1>10, <2>2, SweepMemoryMoves DEF Alone
  <2>3. QED
    BY <2>1, <2>2
<1>11. ASSUME NEW r \in Requests, SweepRows(r)
      PROVE  th'[q] = th[q]
  BY <1>11, SweepRowsMoves DEF Alone
<1>12. CASE CreateIntegration \/ Tick \/ PruneMemory \/ PruneRows
  BY <1>12 DEF CreateIntegration, Tick, PruneMemory, PruneRows, memory
<1>13. CASE Restart
  BY <1>13, RestartMoves
<1>14. QED
  BY <1>1, <1>2, <1>3, <1>4, <1>5, <1>6, <1>7, <1>8, <1>9, <1>10, <1>11, <1>12, <1>13, <1>15
     DEF Next, Logs, Resolves

\* Whoever ends a token that nobody issues settles it.
LEMMA EndedStep ==
  ASSUME TypeOK, TokenInv, SettledInv, Next, NEW t \in ended'
  PROVE  t \in Tokens /\ holder[t] # "nobody" /\ Settled(t)
<1>1. CASE \E r \in Requests : Unsave(r)
  <2>1. PICK r \in Requests : Unsave(r)
    BY <1>1
  <2>2. CASE t \in ended
    BY <2>2 DEF SettledInv, TypeOK
  <2>3. CASE t = th[r].token
    <3>1. HasToken(r) /\ ~Issues(r)
      BY <2>1, UnsaveMoves DEF HasToken, Issues
    <3>2. \A q \in Requests : Issues(q) => th[q].token # t
      BY <2>3, <3>1 DEF TokenInv
    <3>3. QED
      BY <2>1, <2>3, <3>1, <3>2, UnsaveMoves DEF TokenInv, Settled
  <2>4. QED
    BY <2>1, <2>2, <2>3 DEF Unsave
<1>2. CASE \E r \in Requests : SweepRows(r)
  <2>1. PICK r \in Requests : SweepRows(r)
    BY <1>2
  <2>2. t \in ended \/ t \in th[r].due
    BY <2>1 DEF SweepRows
  <2>3. QED
    BY <2>1, <2>2, SweepRowsMoves DEF SettledInv, TypeOK, Tokens
<1>3. ASSUME ~\E r \in Requests : Unsave(r), ~\E r \in Requests : SweepRows(r)
      PROVE  UNCHANGED ended
  BY <1>3, Writers DEF OthersWriteNothing, WritesEnded
<1>4. QED
  BY <1>1, <1>2, <1>3 DEF SettledInv, TypeOK

LEMMA StepSettled ==
  ASSUME TypeOK, TypeOK', TokenInv, CredentialInv, SettledInv, Next
  PROVE  SettledInv'
<1>1. ASSUME NEW t \in ended' PROVE holder'[t] # "nobody" /\ Settled(t)'
  BY <1>1, EndedStep, SettledStays
<1>2. ASSUME NEW q \in Requests, th'[q].at \in {"sweep", "sweepRows"}, NEW t \in th'[q].due
      PROVE  holder'[t] # "nobody" /\ Settled(t)'
  <2>1. CASE th[q].at \in {"sweep", "sweepRows"} /\ th'[q].due = th[q].due
    <3>1. t \in Tokens /\ holder[t] # "nobody" /\ Settled(t)
      BY <1>2, <2>1, Shape DEF SettledInv, Sweeping, Tokens
    <3>2. QED
      BY <3>1, SettledStays
  <2>2. CASE RereadIntegration(q) /\ th'[q].due = HandedActors
    <3>1. t \in Tokens /\ t \in handed
      BY <1>2, <2>2 DEF HandedActors, Tokens
    <3>2. holder[t] # "nobody" /\ Settled(t)
      BY <3>1 DEF TokenInv, Settled
    <3>3. QED
      BY <3>1, <3>2, SettledStays
  <2>3. CASE (RotateToken(q) \/ DeleteIntegration(q)) /\ th'[q].due = AllActors
    BY <1>2, <2>3, AllActorsSettled
  <2>4. QED
    BY <1>2, <2>1, <2>2, <2>3, SweepStep
<1>3. QED
  BY <1>1, <1>2 DEF SettledInv
-----------------------------------------------------------------------------
(* What has ended is gone.                                                 *)
LEMMA InitGone == Init => GoneInv
  BY DEF Init, GoneInv, EndedIsGone, Home

\* Only its issue and a restart open a session.
LEMMA EmptyStays ==
  ASSUME TypeOK, GoneInv, Next, NEW t \in Tokens, sessions[t] = NoSession, ~Restart,
         \A r \in Requests : Insert(r) => th[r].token # t
  PROVE  sessions'[t] = NoSession
<1>1. CASE \E r \in Requests : Insert(r)
  BY <1>1 DEF Insert, TypeOK
<1>2. CASE \E r \in Requests : Renew(r)
  BY <1>2 DEF Renew, Renewable, TypeOK
<1>3. CASE \E r \in Requests : UpdateFails(r)
  <2>1. PICK r \in Requests : UpdateFails(r)
    BY <1>3
  <2>2. th[r].at = "update" /\ th[r].until # 0 /\ th[r].token \in Tokens
    BY <2>1, UpdateMoves DEF GoneInv, Tokens
  <2> PICK u \in Tokens : u = th[r].token
    BY <2>2
  <2>3. sessions' = [sessions EXCEPT ![u].persisted =
                       IF @ = th[r].until THEN th[r].previous ELSE @]
    BY <2>1 DEF UpdateFails
  <2>4. CASE t = u
    <3>1. sessions'[t] = [sessions[t] EXCEPT !.persisted = 0]
      BY <2>2, <2>3, <2>4 DEF TypeOK, NoSession
    <3>2. QED
      BY <3>1 DEF NoSession
  <2>5. CASE t # u
    BY <2>3, <2>5 DEF TypeOK
  <2>6. QED
    BY <2>4, <2>5
<1>4. CASE \E r \in Requests : Revoke(r)
  BY <1>4 DEF Revoke, TypeOK
<1>5. CASE \E r \in Requests, u \in Tokens : Find(r, u)
  BY <1>5 DEF Find, TypeOK
<1>6. CASE (\E r \in Requests : SweepMemory(r)) \/ PruneMemory
  BY <1>6 DEF SweepMemory, PruneMemory
<1>7. ASSUME ~\E r \in Requests : Insert(r), ~\E r \in Requests : Renew(r),
             ~\E r \in Requests : UpdateFails(r), ~\E r \in Requests : Revoke(r),
             ~\E r \in Requests, u \in Tokens : Find(r, u),
             ~((\E r \in Requests : SweepMemory(r)) \/ PruneMemory)
      PROVE  UNCHANGED sessions
  BY <1>7, Writers DEF OthersWriteNothing, WritesSessions
<1>8. QED
  BY <1>1, <1>2, <1>3, <1>4, <1>5, <1>6, <1>7

LEMMA LeakStep ==
  ASSUME TypeOK, Next PROVE leaked \subseteq leaked'
<1>1. CASE \E r \in Requests : Unsave(r) \/ SweepRows(r)
  BY <1>1 DEF Unsave, SweepRows
<1>2. ASSUME ~\E r \in Requests : Unsave(r) \/ SweepRows(r)
      PROVE  UNCHANGED <<leaked, ended>>
  BY <1>2, Writers DEF OthersWriteNothing, WritesEnded
<1>3. QED
  BY <1>1, <1>2

LEMMA EndedFrame ==
  ASSUME Next, ~\E r \in Requests : Unsave(r) \/ SweepRows(r) PROVE UNCHANGED ended
BY Writers DEF OthersWriteNothing, WritesEnded

\* A settled token that is handed was in its client's hands before.
LEMMA SettledIsHanded ==
  ASSUME TypeOK, Next, NEW t \in handed', Settled(t)
  PROVE  t \in handed
<1>1. CASE Hands /\ t \notin handed
  <2>1. PICK r \in Requests :
          /\ Issues(r) /\ t = th[r].token
          /\ th'[r].at = "home"
          /\ th[r].at = "check" => StillValid(th[r].credential)
    BY <1>1, HandStep
  <2>2. t \in Actors /\ th[r].credential # integration.credential
    BY <1>1, <2>1 DEF Settled
  <2>3. th[r].at = "check"
    <3>1. PICK q \in Requests : Insert(q) \/ Check(q)
      BY <1>1 DEF Hands
    <3>2. CASE q # r
      <4>1. th'[r] = th[r]
        BY <3>1, <3>2, InsertMoves, CheckMoves DEF Alone
      <4>2. QED
        BY <2>1, <4>1 DEF Issues
    <3>3. CASE q = r
      BY <2>1, <2>2, <3>1, <3>3, InsertMoves, CheckMoves
    <3>4. QED
      BY <3>2, <3>3
  <2>4. QED
    BY <2>1, <2>2, <2>3 DEF StillValid, Valid
<1>2. QED
  BY <1>1, HandedFrame

\* Nobody inserts a session that is being ended, or has ended, in a client's hands.
LEMMA GoneStays ==
  ASSUME TypeOK, TokenInv, GoneInv, Next, ~Restart, NEW t \in handed, sessions[t] = NoSession
  PROVE  sessions'[t] = NoSession
<1>1. \A r \in Requests : Insert(r) => th[r].token # t
  BY InsertMoves DEF TokenInv, Issues
<1>2. QED
  BY <1>1, EmptyStays DEF TypeOK

LEMMA RowGoneStays ==
  ASSUME TypeOK, TokenInv, Next, NEW t \in handed, rows[t] = 0
  PROVE  rows'[t] = 0
<1>1. ASSUME NEW r \in Requests, Save(r) PROVE rows'[t] = 0
  <2>1. th[r].token # t
    BY <1>1, SaveMoves DEF TokenInv, Issues
  <2>2. QED
    BY <1>1, <2>1 DEF Save, TypeOK
<1>2. QED
  BY <1>1, RowsEnd DEF TypeOK

LEMMA StepEnded ==
  ASSUME TypeOK, TokenInv, SettledInv, GoneInv, Next,
         NEW t \in (ended' \cap handed') \ leaked'
  PROVE  sessions'[t] = NoSession /\ rows'[t] = 0
<1>1. t \in Tokens /\ Settled(t)
  BY EndedStep
<1>2. t \in handed /\ t \notin leaked
  BY <1>1, SettledIsHanded, LeakStep
<1>3. CASE t \in ended
  <2>1. sessions[t] = NoSession /\ rows[t] = 0
    BY <1>2, <1>3 DEF GoneInv, EndedIsGone
  <2>2. rows'[t] = 0
    BY <1>2, <2>1, RowGoneStays
  <2>3. CASE Restart
    <3>1. sessions'[t] = NoSession
      BY <1>1, <2>1, <2>3 DEF Restart, LoadSessions, TypeOK
    <3>2. QED
      BY <2>2, <3>1
  <2>4. CASE ~Restart
    BY <1>2, <2>1, <2>2, <2>4, GoneStays
  <2>5. QED
    BY <2>3, <2>4
<1>4. CASE t \notin ended
  <2>1. PICK r \in Requests : Unsave(r) \/ SweepRows(r)
    BY <1>4, EndedFrame
  <2>2. CASE Unsave(r)
    <3>1. t = th[r].token /\ th[r].at = "unsave"
      BY <1>4, <2>2, UnsaveMoves DEF Unsave
    <3>2. sessions'[t] = NoSession
      BY <2>2, <3>1 DEF GoneInv, Unsave
    <3>3. rows' = [rows EXCEPT ![t] = 0] \/ t \in leaked'
      BY <2>2, <3>1 DEF Unsave
    <3>4. QED
      BY <1>1, <3>2, <3>3 DEF TypeOK
  <2>3. CASE SweepRows(r)
    <3>1. t \in th[r].due /\ th[r].at = "sweepRows" /\ t \in Actors
      BY <1>4, <2>3, SweepRowsMoves DEF SweepRows
    <3>2. sessions'[t] = NoSession
      BY <1>2, <2>3, <3>1 DEF GoneInv, SweepRows
    <3>3. rows' = SweptRows \/ (rows' = rows /\ (rows[t] # 0 => t \in leaked'))
      BY <2>3, <3>1 DEF SweepRows
    <3>4. QED
      BY <1>1, <3>1, <3>2, <3>3 DEF SweptRows
  <2>4. QED
    BY <2>1, <2>2, <2>3
<1>5. QED
  BY <1>3, <1>4

LEMMA StepGone ==
  ASSUME TypeOK, TypeOK', TokenInv, SettledInv, GoneInv, Next
  PROVE  GoneInv'
<1>1. ASSUME NEW q \in Requests, th'[q].at = "update"
      PROVE  th'[q].until # 0
  <2>1. CASE th'[q] = th[q]
    BY <1>1, <2>1 DEF GoneInv
  <2>2. CASE Caused(q)
    <3>1. Renew(q)
      BY <1>1, <2>2 DEF Caused
    <3>2. th[q].token \in Tokens /\ th'[q].until = Slid(th[q].token)
      BY <1>1, <3>1, RenewMoves
    <3>3. Slid(th[q].token) >= now + SessionTTL /\ Slid(th[q].token) \in Nat
      BY <3>2, SlidEnd
    <3>4. QED
      BY <3>2, <3>3, SessionsAssumption DEF TypeOK
  <2>3. QED
    BY <1>1, <2>1, <2>2, Origins
<1>2. ASSUME NEW q \in Requests, th'[q].at = "unsave"
      PROVE  sessions'[th'[q].token] = NoSession
  <2>1. CASE th'[q] = th[q]
    <3>1. ~Restart
      BY <1>2, RestartMoves
    <3>2. HasToken(q) /\ ~Issues(q) /\ sessions[th[q].token] = NoSession
      BY <1>2, <2>1 DEF HasToken, Issues, GoneInv
    <3> PICK t \in Tokens : t = th[q].token
      BY <3>2, Shape
    <3>3. \A r \in Requests : Insert(r) => th[r].token # t
      BY <3>2, InsertMoves DEF TokenInv, Issues
    <3>4. sessions'[t] = NoSession
      BY <3>1, <3>2, <3>3, EmptyStays
    <3>5. QED
      BY <2>1, <3>4
  <2>2. CASE Caused(q)
    <3>1. Revoke(q)
      BY <1>2, <2>2 DEF Caused
    <3>2. QED
      BY <3>1, RevokeMoves DEF Revoke, TypeOK
  <2>3. QED
    BY <1>2, <2>1, <2>2, Origins
<1>3. ASSUME NEW q \in Requests, th'[q].at = "sweepRows", NEW t \in th'[q].due \cap handed'
      PROVE  sessions'[t] = NoSession
  <2>1. CASE th'[q] = th[q]
    <3>1. ~Restart
      BY <1>3, RestartMoves
    <3>2. Settled(t)
      BY <1>3, <2>1 DEF SettledInv
    <3>3. t \in handed
      BY <1>3, <3>2, SettledIsHanded
    <3>4. sessions[t] = NoSession
      BY <1>3, <2>1, <3>3 DEF GoneInv
    <3>5. QED
      BY <3>1, <3>3, <3>4, GoneStays
  <2>2. CASE Caused(q)
    <3>1. SweepMemory(q)
      BY <1>3, <2>2 DEF Caused
    <3>2. t \in Actors
      BY <1>3, <3>1, SweepMemoryMoves
    <3>3. QED
      BY <3>1, <3>2 DEF SweepMemory, Tokens
  <2>3. QED
    BY <1>3, <2>1, <2>2, Origins
<1>4. EndedIsGone'
  BY StepEnded DEF EndedIsGone
<1>5. QED
  BY <1>1, <1>2, <1>3, <1>4 DEF GoneInv
-----------------------------------------------------------------------------
(* Ordinary sessions and their rows.                                       *)
LEMMA InitSlide == Init => SlideInv
  BY DEF Init, SlideInv, Home, Tokens

\* A promise is made with the token.
LEMMA NoNewPromise ==
  ASSUME TypeOK, Next, NEW t \in Tokens, promised[t] = 0,
         \A r \in Requests : Issues(r) => th[r].token # t
  PROVE  promised'[t] = 0
<1>1. CASE Hands
  BY <1>1, HandStep DEF TypeOK
<1>2. CASE ~Hands
  BY <1>2, PromiseFrame
<1>3. QED
  BY <1>1, <1>2

\* Who writes the row of an ordinary session.
LEMMA RowStep ==
  ASSUME TypeOK, Next, NEW t \in Logins,
         \A r \in Requests : Save(r) \/ Update(r) \/ Unsave(r) => th[r].token # t
  PROVE  \/ rows'[t] = rows[t]
         \/ PruneRows /\ rows[t] <= pruning /\ rows'[t] = 0
         \/ Restart /\ rows[t] <= now /\ rows'[t] = 0
<1>1. t \in Tokens /\ t \notin Actors
  BY SessionsAssumption DEF Tokens
<1>2. CASE \E r \in Requests : Save(r) \/ Update(r) \/ Unsave(r)
  BY <1>1, <1>2 DEF Save, Update, Unsave, TypeOK
<1>3. CASE \E r \in Requests : DeleteIntegration(r) \/ SweepRows(r)
  BY <1>1, <1>3 DEF DeleteIntegration, SweepRows, SweptRows
<1>4. CASE PruneRows \/ Restart
  BY <1>1, <1>4 DEF PruneRows, Restart, Unexpired
<1>5. ASSUME ~\E r \in Requests : Save(r) \/ Update(r) \/ Unsave(r),
             ~\E r \in Requests : DeleteIntegration(r) \/ SweepRows(r), ~(PruneRows \/ Restart)
      PROVE  UNCHANGED rows
  BY <1>5, Writers DEF OthersWriteNothing, WritesRows
<1>6. QED
  BY <1>2, <1>3, <1>4, <1>5

\* What an action on another token leaves alone.
Same(t) == /\ now' = now /\ sessions'[t] = sessions[t] /\ rows'[t] = rows[t]
           /\ promised'[t] = promised[t]
SameUpdates(t) ==
  /\ \A q \in Requests : th'[q].at = "update" /\ th'[q].token = t => th'[q] = th[q]
  /\ \A q \in Requests : th[q].at = "update" /\ th[q].token = t => th'[q] = th[q]

LEMMA KeptFrame ==
  ASSUME NEW t \in Logins, Kept(t), Same(t), SameUpdates(t)
  PROVE  Kept(t)'
<1>1. \A q \in Requests : th'[q].at = "update" /\ th'[q].token = t =>
        /\ sessions[t].expires = th'[q].until /\ sessions[t].persisted = th'[q].until
        /\ th'[q].until >= now + SessionTTL
  BY DEF Kept, SameUpdates
<1>2. Pending(t) => \E q \in Requests : th'[q].at = "update" /\ th'[q].token = t
  BY DEF Pending, SameUpdates
<1>3. /\ now < promised[t] => /\ sessions[t].expires >= promised[t]
                              /\ sessions[t].persisted + PersistLag >= promised[t]
      /\ now < sessions[t].expires =>
           rows[t] # 0 /\ (Pending(t) \/ rows[t] >= sessions[t].persisted)
  BY DEF Kept
<1>4. QED
  BY <1>1, <1>2, <1>3 DEF Kept, Pending, Same

LEMMA UpdatesFrame ==
  ASSUME TypeOK, Next, ~Restart, NEW t \in Logins,
         \A r \in Requests : Renew(r) \/ Update(r) \/ UpdateFails(r) => th[r].token # t
  PROVE  SameUpdates(t)
<1>1. ASSUME NEW q \in Requests, th'[q].at = "update", th'[q].token = t
      PROVE  th'[q] = th[q]
  BY <1>1, Origins, RenewMoves DEF Caused
<1>2. ASSUME NEW q \in Requests, th[q].at = "update", th[q].token = t
      PROVE  th'[q] = th[q]
  BY <1>2, UpdateLasts
<1>3. QED
  BY <1>1, <1>2 DEF SameUpdates

\* The actions that do not concern a session in its client's hands.
LEMMA NotConcerned ==
  ASSUME TypeOK, TokenInv, SlideInv, Next, NEW t \in Logins, promised[t] # 0, promised'[t] # 0,
         ~Restart, ~Tick, ~PruneMemory, ~PruneRows,
         \A r \in Requests : Renew(r) \/ Update(r) \/ UpdateFails(r) => th[r].token # t,
         ~\E r \in Requests : Find(r, t)
  PROVE  Same(t)
<1>1. t \in Tokens /\ t \notin Actors
  BY SessionsAssumption DEF Tokens
<1>2. t \in handed
  BY <1>1 DEF TokenInv
<1>3. \A r \in Requests : Save(r) \/ Insert(r) => th[r].token # t
  BY <1>2, SaveMoves, InsertMoves DEF TokenInv, Issues
<1>4. \A r \in Requests : Check(r) => th[r].token # t
  BY <1>1, CheckMoves, Shape DEF IssuingActor
<1>5. \A r \in Requests : Revoke(r) \/ Unsave(r) => th[r].token # t
  BY RevokeMoves, UnsaveMoves DEF SlideInv
<1>6. rows'[t] = rows[t]
  BY <1>3, <1>5, RowStep
<1>7. CASE \E r \in Requests, u \in Logins, kind \in Kinds : Login(r, u, kind)
  BY <1>6, <1>7 DEF Login, Same
<1>8. CASE \E r \in Requests, u \in Actors, c \in 1 .. credentials : Resolve(r, u, c)
  BY <1>6, <1>8 DEF Resolve, Same, history
<1>9. CASE \E r \in Requests, u \in Tokens : Find(r, u) \/ Logout(r, u)
  BY <1>1, <1>6, <1>9 DEF Find, Logout, Same, TypeOK, history
<1>10. CASE \E r \in Requests : Save(r) \/ SaveFails(r)
  BY <1>6, <1>10 DEF Save, SaveFails, Same, history
<1>11. CASE \E r \in Requests : Insert(r) \/ Check(r)
  BY <1>1, <1>3, <1>4, <1>6, <1>11 DEF Insert, Check, Hand, Same, TypeOK
<1>12. CASE \E r \in Requests : Renew(r)
  <2>1. PICK r \in Requests : Renew(r)
    BY <1>12
  <2>2. PICK u : u = th[r].token
    OBVIOUS
  <2>3. u # t
    BY <2>1, <2>2
  <2>4. /\ now' = now
        /\ \/ UNCHANGED <<sessions, promised>>
           \/ /\ \E e : sessions' = [sessions EXCEPT ![u] = e]
              /\ promised' = promised \/ \E e : promised' = [promised EXCEPT ![u] = e]
    BY <2>1, <2>2 DEF Renew
  <2>5. sessions'[t] = sessions[t] /\ promised'[t] = promised[t]
    BY <1>1, <2>3, <2>4 DEF TypeOK
  <2>6. QED
    BY <1>6, <2>4, <2>5 DEF Same
<1>13. CASE \E r \in Requests : Update(r) \/ UpdateFails(r)
  <2>1. PICK r \in Requests : Update(r) \/ UpdateFails(r)
    BY <1>13
  <2>2. PICK u : u = th[r].token
    OBVIOUS
  <2>3. u # t
    BY <2>1, <2>2
  <2>4. /\ now' = now
        /\ \/ sessions' = sessions
           \/ \E e : sessions' = [sessions EXCEPT ![u].persisted = e]
        /\ \E e : promised' = [promised EXCEPT ![u] = e]
    BY <2>1, <2>2 DEF Update, UpdateFails, PromiseRenewed
  <2>5. sessions'[t] = sessions[t] /\ promised'[t] = promised[t]
    BY <1>1, <2>3, <2>4 DEF TypeOK
  <2>6. QED
    BY <1>6, <2>4, <2>5 DEF Same
<1>14. CASE \E r \in Requests : Revoke(r) \/ Unsave(r)
  BY <1>1, <1>5, <1>6, <1>14 DEF Revoke, Unsave, Same, TypeOK, history
<1>15. CASE \E r \in Requests, active \in BOOLEAN : ReadIntegration(r, active)
  BY <1>6, <1>15 DEF ReadIntegration, Same, history
<1>16. CASE \E r \in Requests : UpdateIntegration(r) \/ RotateToken(r) \/ DeleteIntegration(r)
  BY <1>6, <1>16 DEF UpdateIntegration, RotateToken, DeleteIntegration, Same, history
<1>20. CASE \E r \in Requests : RereadIntegration(r)
  BY <1>6, <1>20 DEF RereadIntegration, Same, history
<1>17. CASE \E r \in Requests : SweepMemory(r) \/ SweepRows(r)
  BY <1>1, <1>6, <1>17 DEF SweepMemory, SweepRows, Same, history
<1>18. CASE CreateIntegration
  BY <1>6, <1>18 DEF CreateIntegration, memory, history, Same
<1>19. QED
  BY <1>7, <1>8, <1>9, <1>10, <1>11, <1>12, <1>13, <1>14, <1>15, <1>16, <1>17, <1>18, <1>20 DEF Next

LEMMA Numbers ==
  ASSUME TypeOK, NEW t \in Tokens
  PROVE  /\ now \in Nat /\ pruning \in Nat /\ pruning <= now
         /\ sessions[t].expires \in Nat /\ sessions[t].persisted \in Nat
         /\ rows[t] \in Nat /\ promised[t] \in Nat
         /\ SessionTTL \in Nat /\ SessionTTL > 0 /\ PersistLag \in Nat /\ PersistLag > 0
<1>1. SessionTTL \in Nat \ {0} /\ PersistLag \in Nat \ {0}
  BY SessionsAssumption
<1>2. QED
  BY <1>1 DEF TypeOK

\* A renewal that lags starts the one UPDATE of its token.
LEMMA RenewKeeps ==
  ASSUME TypeOK, TypeOK', Next, NEW t \in Logins, Kept(t), promised[t] # 0,
         NEW r \in Requests, Renew(r), th[r].token = t
  PROVE  Kept(t)'
<1>1. t \in Tokens
  BY DEF Tokens
<1> DEFINE S == Slid(t)
           e == sessions[t].expires
           p == sessions[t].persisted
<1>2. /\ S \in Nat /\ S >= e /\ S >= now + SessionTTL /\ S \in {e, now + SessionTTL}
      /\ e \in Nat /\ p \in Nat /\ now \in Nat /\ promised[t] \in Nat /\ rows[t] \in Nat
      /\ SessionTTL \in Nat /\ SessionTTL > 0 /\ PersistLag \in Nat
  BY <1>1, SlidEnd, Numbers
<1>3. now' = now /\ rows' = rows
  BY DEF Renew, store
<1>4. Lags(t) <=> S - p > PersistLag
  BY DEF Lags
<1>5. \A q \in Requests : th[q].at = "update" /\ th[q].token = t =>
        e = th[q].until /\ p = th[q].until /\ th[q].until >= now + SessionTTL
  BY DEF Kept
<1>6. /\ now < promised[t] => e >= promised[t] /\ p + PersistLag >= promised[t]
      /\ now < e => rows[t] # 0 /\ (Pending(t) \/ rows[t] >= p)
  BY DEF Kept
<1>7. CASE ~Renewable(t)
  <2>1. sessions' = sessions /\ promised' = promised /\ th'[r].at = "home" /\ Alone(r)
        /\ th[r].at = "renew"
    BY <1>7, RenewMoves
  <2>2. Same(t) /\ SameUpdates(t)
    BY <1>3, <2>1 DEF Same, SameUpdates, Alone
  <2>3. QED
    BY <2>2, KeptFrame
<1>8. CASE Renewable(t) /\ ~Lags(t)
  <2>1. th'[r].at = "home" /\ Alone(r) /\ th[r].at = "renew"
    BY <1>8, RenewMoves
  <2>2. /\ sessions' = [sessions EXCEPT ![t] = [expires |-> S, persisted |-> @.persisted]]
        /\ promised' = [promised EXCEPT ![t] = IF @ = 0 THEN 0 ELSE S]
    BY <1>8 DEF Renew
  <2> HIDE DEF S
  <2>3. sessions'[t].expires = S /\ sessions'[t].persisted = p /\ promised'[t] = S
    BY <1>1, <2>2 DEF TypeOK
  <2>4. SameUpdates(t)
    BY <2>1 DEF SameUpdates, Alone
  <2>5. Pending(t) => \E q \in Requests : th'[q].at = "update" /\ th'[q].token = t
    BY <2>4 DEF Pending, SameUpdates
  <2>6. \A q \in Requests : th'[q].at = "update" /\ th'[q].token = t =>
          S = th'[q].until /\ p = th'[q].until /\ th'[q].until >= now + SessionTTL
    BY <1>2, <1>5, <2>4 DEF SameUpdates
  <2>7. S >= S /\ p + PersistLag >= S
    BY <1>2, <1>4, <1>8
  <2>8. now < e
    BY <1>8 DEF Renewable
  <2>9. QED
    BY <1>3, <1>6, <2>3, <2>5, <2>6, <2>7, <2>8 DEF Kept, Pending
<1>9. CASE Renewable(t) /\ Lags(t)
  <2>1. /\ th'[r].at = "update" /\ th'[r].token = t /\ th'[r].until = S
        /\ promised' = promised /\ Alone(r) /\ th[r].at = "renew"
    BY <1>9, RenewMoves
  <2>2. sessions' = [sessions EXCEPT ![t] = [expires |-> S, persisted |-> S]]
    BY <1>9 DEF Renew
  <2>3. \A q \in Requests : ~(th[q].at = "update" /\ th[q].token = t)
    BY <1>2, <1>4, <1>5, <1>9
  <2> HIDE DEF S
  <2>4. sessions'[t].expires = S /\ sessions'[t].persisted = S
    BY <1>1, <2>2 DEF TypeOK
  <2>5. \A q \in Requests : th'[q].at = "update" /\ th'[q].token = t => q = r
    BY <2>1, <2>3 DEF Alone
  <2>6. \A q \in Requests : th'[q].at = "update" /\ th'[q].token = t =>
          S = th'[q].until /\ th'[q].until >= now + SessionTTL
    BY <1>2, <2>1, <2>5
  <2>7. rows[t] # 0 /\ Pending(t)'
    BY <1>6, <1>9, <2>1 DEF Pending, Renewable
  <2>8. now < promised[t] => S >= promised[t] /\ S + PersistLag >= promised[t]
    BY <1>2, <1>6
  <2>9. QED
    BY <1>3, <2>1, <2>4, <2>6, <2>7, <2>8 DEF Kept
<1>10. QED
  BY <1>7, <1>8, <1>9

LEMMA UpdateKeeps ==
  ASSUME TypeOK, TypeOK', Next, NEW t \in Logins, Kept(t), promised[t] # 0,
         NEW r \in Requests, Update(r), th[r].token = t
  PROVE  Kept(t)'
<1>1. t \in Tokens
  BY DEF Tokens
<1>2. /\ now' = now /\ sessions' = sessions /\ Alone(r) /\ th'[r].at = "home"
      /\ th[r].at = "update" /\ th[r].until \in Nat
  BY UpdateMoves DEF Update
<1> PICK u \in Nat : u = th[r].until
  BY <1>2
<1>3. sessions[t].expires = u /\ sessions[t].persisted = u /\ u >= now + SessionTTL
  BY <1>2 DEF Kept
<1>4. rows[t] # 0
  BY <1>1, <1>3, Numbers DEF Kept
<1>5. rows'[t] = u /\ promised'[t] = u
  BY <1>1, <1>4 DEF Update, PromiseRenewed, TypeOK
<1>6. \A q \in Requests : th'[q].at = "update" /\ th'[q].token = t =>
        u = th'[q].until /\ th'[q].until >= now + SessionTTL
  BY <1>2, <1>3 DEF Alone, Kept
<1>7. u # 0 /\ u >= u /\ u + PersistLag >= u
  BY <1>1, <1>3, Numbers
<1>8. QED
  BY <1>2, <1>3, <1>5, <1>6, <1>7 DEF Kept

\* An expired session is one its client no longer counts on.
LEMMA ExpiryKeeps ==
  ASSUME TypeOK, NEW t \in Logins, Kept(t), now' = now, promised' = promised, th' = th,
         rows' = rows,
         \/ sessions'[t] = sessions[t]
         \/ now >= sessions[t].expires /\ sessions'[t] = NoSession
  PROVE  Kept(t)'
<1>1. t \in Tokens
  BY DEF Tokens
<1>2. CASE sessions'[t] = sessions[t]
  <2>1. Same(t) /\ SameUpdates(t)
    BY <1>2 DEF Same, SameUpdates
  <2>2. QED
    BY <2>1, KeptFrame
<1>3. CASE now >= sessions[t].expires /\ sessions'[t] = NoSession
  <2>1. sessions'[t].expires = 0 /\ sessions'[t].persisted = 0
    BY <1>3 DEF NoSession
  <2>2. ~(now < promised[t])
    BY <1>1, <1>3, Numbers DEF Kept
  <2>3. \A q \in Requests : ~(th[q].at = "update" /\ th[q].token = t)
    <3> SUFFICES ASSUME NEW q \in Requests, th[q].at = "update", th[q].token = t PROVE FALSE
      OBVIOUS
    <3>1. sessions[t].expires >= now + SessionTTL
      BY DEF Kept
    <3>2. QED
      BY <1>1, <1>3, <3>1, Numbers
  <2>4. ~(now < 0)
    BY <1>1, Numbers
  <2>5. QED
    BY <2>1, <2>2, <2>3, <2>4 DEF Kept
<1>4. QED
  BY <1>2, <1>3

LEMMA TickKeeps ==
  ASSUME TypeOK, NEW t \in Logins, Kept(t), Tick
  PROVE  Kept(t)'
<1>1. t \in Tokens
  BY DEF Tokens
<1>2. /\ now' = now + 1 /\ sessions' = sessions /\ rows' = rows /\ promised' = promised
      /\ th' = th /\ \A q \in Requests : th[q].at # "update"
  BY DEF Tick, memory, store, history, At
<1>3. /\ now' < promised[t] => now < promised[t]
      /\ now' < sessions[t].expires => now < sessions[t].expires
  BY <1>1, <1>2, Numbers
<1>4. now' < sessions[t].expires => rows[t] # 0 /\ rows[t] >= sessions[t].persisted
  BY <1>2, <1>3 DEF Kept, Pending
<1>5. QED
  BY <1>2, <1>3, <1>4 DEF Kept, Pending

\* The pruner takes the row of a session that lives only from an excused one.
LEMMA PruneKeeps ==
  ASSUME TypeOK, NEW t \in Logins, t \notin excused', Kept(t), PruneRows
  PROVE  Kept(t)'
<1>1. t \in Tokens
  BY DEF Tokens
<1>2. /\ now' = now /\ sessions' = sessions /\ promised' = promised /\ th' = th
  BY DEF PruneRows
<1>3. now < sessions[t].expires => rows'[t] = rows[t]
  BY DEF PruneRows
<1>4. QED
  BY <1>2, <1>3 DEF Kept, Pending

\* A restart costs a session what its row lags behind, and no more.
LEMMA RestartKeeps ==
  ASSUME TypeOK, NEW t \in Logins, t \notin excused', promised[t] # 0 => Kept(t), Restart,
         promised'[t] # 0
  PROVE  Kept(t)'
<1>1. t \in Tokens /\ t \notin Actors
  BY SessionsAssumption DEF Tokens
<1>2. /\ now' = now /\ promised[t] > PersistLag /\ promised'[t] = promised[t] - PersistLag
      /\ sessions'[t] = IF rows[t] <= now THEN NoSession
                        ELSE [expires |-> rows[t], persisted |-> rows[t]]
      /\ rows'[t] = IF rows[t] <= now THEN 0 ELSE rows[t]
  BY <1>1 DEF Restart, LoadSessions, Unexpired
<1>3. ~Pending(t)
  BY DEF Restart, At, Pending
<1>4. Kept(t)
  BY <1>1, <1>2, Numbers
<1>5. \A q \in Requests : th'[q].at # "update"
  BY RestartMoves
<1>6. CASE rows[t] <= now
  <2>1. sessions'[t].expires = 0 /\ sessions'[t].persisted = 0 /\ rows'[t] = 0
    BY <1>2, <1>6 DEF NoSession
  <2>2. ~(now < promised[t] - PersistLag)
    <3> SUFFICES ASSUME now < promised[t] - PersistLag PROVE FALSE
      OBVIOUS
    <3>1. now < promised[t]
      BY <1>1, Numbers
    <3>2. sessions[t].expires >= promised[t] /\ sessions[t].persisted + PersistLag >= promised[t]
      BY <1>4, <3>1 DEF Kept
    <3>3. rows[t] >= sessions[t].persisted
      BY <1>1, <1>3, <1>4, <3>1, <3>2, Numbers DEF Kept
    <3>4. QED
      BY <1>1, <1>6, <3>2, <3>3, Numbers
  <2>3. ~(now < 0)
    BY <1>1, Numbers
  <2>4. QED
    BY <1>2, <1>5, <2>1, <2>2, <2>3 DEF Kept
<1>7. CASE ~(rows[t] <= now)
  <2>1. sessions'[t].expires = rows[t] /\ sessions'[t].persisted = rows[t] /\ rows'[t] = rows[t]
    BY <1>2, <1>7
  <2>2. now < promised[t] - PersistLag =>
          rows[t] >= promised[t] - PersistLag /\ rows[t] + PersistLag >= promised[t] - PersistLag
    <3> SUFFICES ASSUME now < promised[t] - PersistLag
                 PROVE  rows[t] >= promised[t] - PersistLag
      BY <1>1, Numbers
    <3>1. now < promised[t]
      BY <1>1, Numbers
    <3>2. sessions[t].expires >= promised[t] /\ sessions[t].persisted + PersistLag >= promised[t]
      BY <1>4, <3>1 DEF Kept
    <3>3. rows[t] >= sessions[t].persisted
      BY <1>1, <1>3, <1>4, <3>1, <3>2, Numbers DEF Kept
    <3>4. QED
      BY <1>1, <3>2, <3>3, Numbers
  <2>3. rows[t] # 0 /\ rows[t] >= rows[t]
    BY <1>1, <1>7, Numbers
  <2>4. QED
    BY <1>2, <1>5, <2>1, <2>2, <2>3 DEF Kept
<1>8. QED
  BY <1>6, <1>7

\* A login hands its token out with the row just saved.
LEMMA HandKeeps ==
  ASSUME TypeOK, TokenInv, SlideInv, NEW t \in Logins, NEW r \in Requests, Insert(r),
         th[r].token = t
  PROVE  Kept(t)'
<1>1. t \in Tokens /\ t \notin Actors
  BY SessionsAssumption DEF Tokens
<1>2. th[r].at = "insert" /\ Alone(r) /\ th'[r].at = "home" /\ Issues(r) /\ th[r].until \in Nat
  BY <1>1, InsertMoves, Shape DEF Issues
<1> PICK u \in Nat : u = th[r].until
  BY <1>2
<1>3. /\ now' = now /\ rows' = rows /\ sessions'[t].expires = u /\ sessions'[t].persisted = u
      /\ promised'[t] = u
  BY <1>1 DEF Insert, Issued, Hand, store, TypeOK
<1>4. now < u => rows[t] = u
  BY <1>2 DEF SlideInv
<1>5. \A q \in Requests : ~(th'[q].at = "update" /\ th'[q].token = t)
  BY <1>2 DEF Alone, TokenInv, HasToken
<1>6. u >= u /\ u + PersistLag >= u /\ (now < u => u # 0)
  BY <1>1, Numbers
<1>7. QED
  BY <1>3, <1>4, <1>5, <1>6 DEF Kept

LEMMA ExcusedStep ==
  ASSUME TypeOK, Next
  PROVE  excused \subseteq excused' /\ \A r \in Requests : UpdateFails(r) => th[r].token \in excused'
<1>1. CASE (\E r \in Requests : UpdateFails(r)) \/ PruneRows \/ Restart
  BY <1>1 DEF UpdateFails, PruneRows, Restart
<1>2. ASSUME ~((\E r \in Requests : UpdateFails(r)) \/ PruneRows \/ Restart)
      PROVE  UNCHANGED excused
  BY <1>2, Writers DEF OthersWriteNothing, WritesExcused
<1>3. QED
  BY <1>1, <1>2 DEF UpdateFails

LEMMA NowGrows ==
  ASSUME TypeOK, Next PROVE now' >= now
<1>1. CASE Tick
  BY <1>1 DEF Tick, TypeOK
<1>2. ASSUME ~Tick PROVE UNCHANGED now
  BY <1>2, Writers DEF OthersWriteNothing
<1>3. QED
  BY <1>1, <1>2 DEF TypeOK

LEMMA StepKept ==
  ASSUME TypeOK, TypeOK', TokenInv, SlideInv, Next, NEW t \in Logins, t \notin excused',
         promised'[t] # 0
  PROVE  Kept(t)'
<1>1. t \in Tokens /\ t \notin Actors /\ t \notin excused
  BY SessionsAssumption, ExcusedStep DEF Tokens
<1>2. promised[t] # 0 => Kept(t)
  BY <1>1 DEF SlideInv
<1>3. CASE Restart
  BY <1>2, <1>3, RestartKeeps
<1>4. CASE promised[t] = 0
  <2>1. PICK r \in Requests : Issues(r) /\ th[r].token = t
    BY <1>1, <1>4, NoNewPromise
  <2>2. Hands
    BY <1>1, <1>4, PromiseFrame
  <2>3. PICK q \in Requests : /\ Issues(q) /\ promised' = [promised EXCEPT ![th[q].token] = th[q].until]
                              /\ th'[q].at = "home" /\ Alone(q)
    BY <1>4, <2>2, HandStep
  <2>4. th[q].token = t
    BY <1>1, <1>4, <2>3 DEF TypeOK
  <2>5. th[q].at # "check"
    BY <1>1, <2>4, Shape DEF IssuingActor
  <2>6. PICK p \in Requests : Insert(p) \/ Check(p)
    BY <2>2 DEF Hands
  <2>7. p = q
    BY <2>3, <2>6, InsertMoves, CheckMoves DEF Alone, Issues
  <2>8. Insert(q)
    BY <2>5, <2>6, <2>7, CheckMoves
  <2>9. QED
    BY <2>4, <2>8, HandKeeps
<1>5. CASE ~Restart /\ promised[t] # 0
  <2>1. Kept(t)
    BY <1>2, <1>5
  <2>2. CASE \E r \in Requests : Renew(r) /\ th[r].token = t
    BY <1>5, <2>1, <2>2, RenewKeeps
  <2>3. CASE \E r \in Requests : Update(r) /\ th[r].token = t
    BY <1>5, <2>1, <2>3, UpdateKeeps
  <2>4. \A r \in Requests : UpdateFails(r) => th[r].token # t
    BY ExcusedStep
  <2>5. CASE \E r \in Requests : Find(r, t)
    <3>1. PICK r \in Requests : Find(r, t)
      BY <2>5
    <3>2. /\ now' = now /\ rows' = rows /\ promised' = promised
      BY <3>1 DEF Find, store, history
    <3>3. CASE /\ now >= sessions[t].expires /\ th' = th
               /\ sessions' = [sessions EXCEPT ![t] = NoSession]
      BY <1>1, <2>1, <3>2, <3>3, ExpiryKeeps DEF TypeOK
    <3>4. CASE /\ Into(r, [at |-> "renew", token |-> t]) /\ sessions' = sessions
               /\ th'[r].at = "renew" /\ th[r].at = "home"
      <4>1. Alone(r)
        BY <3>4 DEF Into
      <4>2. Same(t) /\ SameUpdates(t)
        BY <3>2, <3>4, <4>1 DEF Same, SameUpdates, Alone
      <4>3. QED
        BY <2>1, <4>2, KeptFrame
    <3>5. QED
      BY <1>1, <3>1, <3>3, <3>4, FindMoves
  <2>6. CASE PruneMemory
    <3>1. /\ now' = now /\ rows' = rows /\ promised' = promised /\ th' = th
          /\ sessions'[t] = IF now >= sessions[t].expires THEN NoSession ELSE sessions[t]
      BY <1>1, <2>6 DEF PruneMemory, store, history
    <3>2. QED
      BY <2>1, <3>1, ExpiryKeeps
  <2>7. CASE Tick
    BY <2>1, <2>7, TickKeeps
  <2>8. CASE PruneRows
    BY <2>1, <2>8, PruneKeeps
  <2>9. CASE /\ ~\E r \in Requests : (Renew(r) \/ Update(r)) /\ th[r].token = t
             /\ ~Tick /\ ~PruneMemory /\ ~PruneRows /\ ~\E r \in Requests : Find(r, t)
    <3>1. \A r \in Requests : Renew(r) \/ Update(r) \/ UpdateFails(r) => th[r].token # t
      BY <2>4, <2>9
    <3>2. Same(t)
      BY <1>5, <2>9, <3>1, NotConcerned
    <3>3. SameUpdates(t)
      BY <1>5, <3>1, UpdatesFrame
    <3>4. QED
      BY <2>1, <3>2, <3>3, KeptFrame
  <2>10. QED
    BY <2>2, <2>3, <2>5, <2>6, <2>7, <2>8, <2>9
<1>6. QED
  BY <1>3, <1>4, <1>5

LEMMA StepSlide ==
  ASSUME TypeOK, TypeOK', TokenInv, SlideInv, Next
  PROVE  SlideInv'
<1>1. ASSUME NEW q \in Requests, th'[q].at \in {"revoke", "unsave"}, th'[q].token \in Logins
      PROVE  promised'[th'[q].token] = 0
  <2> PICK t \in Logins : t = th'[q].token
    BY <1>1
  <2>1. t \in Tokens /\ t \notin Actors
    BY SessionsAssumption DEF Tokens
  <2>2. CASE th'[q] = th[q]
    <3>1. promised[t] = 0 /\ HasToken(q) /\ ~Issues(q)
      BY <1>1, <2>2 DEF SlideInv, HasToken, Issues
    <3>2. \A r \in Requests : Issues(r) => th[r].token # t
      BY <2>2, <3>1 DEF TokenInv
    <3>3. QED
      BY <2>1, <3>1, <3>2, NoNewPromise
  <2>3. CASE Caused(q) /\ th'[q].at = "unsave"
    <3>1. Revoke(q)
      BY <2>3 DEF Caused
    <3>2. th[q].at = "revoke" /\ th[q].token = t /\ promised' = promised
      BY <3>1, RevokeMoves DEF Revoke, history
    <3>3. QED
      BY <3>2 DEF SlideInv
  <2>4. CASE Caused(q) /\ th'[q].at = "revoke"
    <3>1. Check(q) \/ \E u \in Tokens : Logout(q, u)
      BY <2>4 DEF Caused
    <3>2. ~Check(q)
      BY <2>1, <2>4, CheckMoves, Shape DEF IssuingActor
    <3>3. PICK u \in Tokens : Logout(q, u)
      BY <3>1, <3>2
    <3>4. u = t
      BY <3>3, LogoutMoves
    <3>5. QED
      BY <2>1, <3>3, <3>4 DEF Logout, TypeOK
  <2>5. QED
    BY <1>1, <2>2, <2>3, <2>4, Origins
<1>2. ASSUME NEW q \in Requests, th'[q].at = "insert", th'[q].token \in Logins,
             now' < th'[q].until
      PROVE  rows'[th'[q].token] = th'[q].until
  <2> PICK t \in Logins : t = th'[q].token
    BY <1>2
  <2>1. t \in Tokens /\ t \notin Actors
    BY SessionsAssumption DEF Tokens
  <2>2. CASE th'[q] = th[q]
    <3>1. now' >= now
      BY <2>1, Numbers, NowGrows
    <3>2. th[q].until \in Nat /\ now' \in Nat /\ Issues(q)
      BY <1>2, <2>2, Shape DEF Issues, TypeOK
    <3>3. now < th[q].until
      BY <1>2, <2>1, <2>2, <3>1, <3>2, Numbers
    <3>4. rows[t] = th[q].until
      BY <1>2, <2>2, <3>3 DEF SlideInv
    <3>5. \A r \in Requests : Save(r) \/ Update(r) \/ Unsave(r) => th[r].token # t
      <4> SUFFICES ASSUME NEW r \in Requests, Save(r) \/ Update(r) \/ Unsave(r) PROVE th[r].token # t
        OBVIOUS
      <4>1. HasToken(r) /\ th[r].at # "insert"
        BY SaveMoves, UpdateMoves, UnsaveMoves DEF HasToken, Issues
      <4>2. QED
        BY <1>2, <2>2, <3>2, <4>1 DEF TokenInv
    <3>6. ~(rows[t] <= pruning) /\ ~(rows[t] <= now)
      BY <2>1, <3>2, <3>3, <3>4, Numbers
    <3>7. QED
      BY <2>2, <3>4, <3>5, <3>6, RowStep
  <2>3. CASE Caused(q)
    <3>1. Save(q)
      BY <1>2, <2>3 DEF Caused
    <3>2. QED
      BY <2>1, <3>1, SaveMoves DEF Save, TypeOK
  <2>4. QED
    BY <1>2, <2>2, <2>3, Origins
<1>3. \A t \in Logins \ excused' : promised'[t] # 0 => Kept(t)'
  BY StepKept
<1>4. QED
  BY <1>1, <1>2, <1>3 DEF SlideInv
-----------------------------------------------------------------------------
(* The inductive invariant.                                                *)
IInv == /\ TypeOK /\ TokenInv /\ GuestInv /\ CredentialInv /\ ActorInv
        /\ SettledInv /\ GoneInv /\ SlideInv

LEMMA StepInv == IInv /\ [Next]_vars => IInv'
<1> SUFFICES ASSUME IInv, [Next]_vars PROVE IInv'
  OBVIOUS
<1>1. CASE Next
  <2>1. TypeOK'
    BY <1>1, StepType DEF IInv
  <2>2. QED
    BY <1>1, <2>1, StepToken, StepGuest, StepCredential, StepActor, StepSettled, StepGone,
       StepSlide DEF IInv
<1>2. CASE UNCHANGED vars
  <2>1. TypeOK'
    BY <1>2 DEF IInv, TypeOK, vars, history
  <2>2. TokenInv' /\ GuestInv' /\ CredentialInv' /\ ActorInv'
    BY <1>2 DEF IInv, TokenInv, HasToken, Issues, GuestInv, CredentialInv, ActorInv, vars, history
  <2>3. SettledInv' /\ GoneInv'
    BY <1>2 DEF IInv, SettledInv, Settled, Issues, GoneInv, EndedIsGone, vars, history
  <2>4. SlideInv'
    BY <1>2 DEF IInv, SlideInv, Kept, Pending, vars, history
  <2>5. QED
    BY <2>1, <2>2, <2>3, <2>4 DEF IInv
<1>3. QED
  BY <1>1, <1>2

LEMMA SessionsInvHolds == Spec => []IInv
<1>1. Init => IInv
  BY InitType, InitToken, InitGuest, InitCredential, InitActor, InitSettled, InitGone,
     InitSlide DEF IInv
<1>2. QED
  BY <1>1, StepInv, PTL DEF Spec

\* What was logged out, or was issued under a credential that has been replaced,
\* disabled or deleted, never opens a session again once that was answered.
THEOREM EndedStaysGone == Spec => []EndedIsGone
<1>1. IInv => EndedIsGone
  BY DEF IInv, GoneInv
<1>2. QED
  BY <1>1, SessionsInvHolds, PTL

\* An ordinary session lives out its last renewal, less PersistLag per restart;
\* an actor session ends when its client was told it would.
THEOREM SessionsKeepTheirPromise == Spec => []SlidingSession
<1>1. IInv => SlidingSession
  <2> SUFFICES ASSUME IInv PROVE SlidingSession
    OBVIOUS
  <2>1. ASSUME NEW t \in Logins \ (ended \cup excused), now < promised[t]
        PROVE  sessions[t].expires >= promised[t]
    <3>1. t \in Tokens
      BY DEF Tokens
    <3>2. promised[t] # 0
      BY <2>1, <3>1, Numbers DEF IInv
    <3>3. QED
      BY <2>1, <3>2 DEF IInv, SlideInv, Kept
  <2>2. ActorsNeverSlide
    BY DEF IInv, ActorInv, ActorsNeverSlide
  <2>3. QED
    BY <2>1, <2>2 DEF SlidingSession
<1>2. QED
  BY <1>1, SessionsInvHolds, PTL

\* However logins of the same name follow each other, a guest's session never
\* reads the role of an administrator.
THEOREM GuestsAreNeverAdmins == Spec => []GuestsStayGuests
<1>1. IInv => GuestsStayGuests
  BY DEF IInv, GuestInv, GuestsStayGuests
<1>2. QED
  BY <1>1, SessionsInvHolds, PTL
=============================================================================

------------------------------ MODULE Sessions ------------------------------
(***************************************************************************)
(* The sessions of internal/auth: a table in memory and its rows in the    *)
(* store, which are written, renewed, pruned and revoked by handlers that  *)
(* never hold a lock over both.  Ordinary sessions slide with every use    *)
(* and their row follows only when it lags by more than PersistLag; actor  *)
(* sessions of the integration have a fixed life and end when its          *)
(* credential is rotated, or when it is disabled or deleted.               *)
(*                                                                         *)
(* A request is one HTTP handler; its steps are the accesses to memory     *)
(* (under Manager.mu) and to the store.  One integration row, one display  *)
(* name; time advances in units of PersistLag's scale.                     *)
(***************************************************************************)
EXTENDS Naturals, FiniteSets, FiniteSetsExt

CONSTANTS Requests,      \* handlers that may run at the same time
          Logins,        \* tokens of ordinary sessions
          Actors,        \* tokens of actor sessions
          Batches,       \* sets of tokens: an execution issues one of them,
                         \* and has an integration if it holds an actor's
          SessionTTL, ActorTTL, PersistLag,
          MaxTime, MaxCredentials, MaxCrashes, MaxFaults   \* bounds

ASSUME SessionsAssumption ==
  /\ {SessionTTL, ActorTTL, PersistLag} \subseteq Nat \ {0}
  /\ {MaxTime, MaxCredentials, MaxCrashes, MaxFaults} \subseteq Nat
  /\ Logins \cap Actors = {}
  /\ Batches \subseteq SUBSET (Logins \cup Actors)

Tokens == Logins \cup Actors
Kinds == {"guest", "password"}
Admin == "room_admin"

VARIABLES
  now,          \* the wall clock
  sessions,     \* Manager.sessions: expiresAt and persistedExpiresAt
  rows,         \* sessions table: expires_at, 0 without a row
  holder,       \* the principal a session was issued to
  roles,        \* users table: the roles of each principal
  integration,  \* integrations row: credential (0: no row) and active
  credentials,  \* credentials made so far
  th,           \* what each request does next
  pruning,      \* PruneExpired between memory and store: its now, or 0
  crashes, faults,
  handed,       \* history: tokens a client was given
  proof,        \* history: how the login of a token was proved
  promised,     \* history: until when the client may count on its session
  ended,        \* history: tokens whose end was answered
  leaked,       \* history: tokens whose DELETE the store refused
  excused       \* history: tokens whose row fell behind for another reason

memory == <<sessions, th, pruning>>
store == <<rows, roles, integration>>
history == <<handed, proof, promised, ended, leaked, excused>>
vars == <<now, sessions, rows, holder, roles, integration, credentials, th,
          pruning, crashes, faults, history>>

NoSession == [expires |-> 0, persisted |-> 0]
NoIntegration == [credential |-> 0, active |-> FALSE]
Home == [at |-> "home"]

At(r, place) == th[r].at = place
Step(r, place) == th' = [th EXCEPT ![r].at = place]
Answer(r) == th' = [th EXCEPT ![r] = Home]

\* A write the store refuses.
Fault == faults < MaxFaults /\ faults' = faults + 1

Init ==
  /\ now = 1
  /\ sessions = [t \in Tokens |-> NoSession]
  /\ rows = [t \in Tokens |-> 0]
  /\ \E batch \in Batches :
       /\ holder = [t \in Tokens |-> IF t \in batch THEN "nobody" ELSE "unissued"]
       /\ IF batch \subseteq Logins
          THEN integration = NoIntegration /\ credentials = MaxCredentials
          ELSE integration = [credential |-> 1, active |-> TRUE] /\ credentials = 1
  /\ roles = [k \in Kinds |-> {}]
  /\ th = [r \in Requests |-> Home]
  /\ pruning = 0
  /\ crashes = 0 /\ faults = 0
  /\ handed = {} /\ ended = {} /\ leaked = {} /\ excused = {}
  /\ proof = [t \in Tokens |-> "none"]
  /\ promised = [t \in Tokens |-> 0]

-----------------------------------------------------------------------------
(* Login: GuestAuth with and without the administrator's password.         *)

\* Mutant: the name alone makes the principal.
PrincipalOfName(kind) == "guest"

\* Guests and administrators of one name are different principals.
PrincipalOf(kind) == kind

Granted(kind) == IF kind = "password" THEN {Admin} ELSE {}

Unused(t) == holder[t] = "nobody"

\* The principal is stored with the roles of this login, then its session.
Login(r, t, kind) ==
  /\ At(r, "home") /\ t \in Logins /\ Unused(t)
  /\ roles' = [roles EXCEPT ![PrincipalOf(kind)] = Granted(kind)]
  /\ holder' = [holder EXCEPT ![t] = PrincipalOf(kind)]
  /\ proof' = [proof EXCEPT ![t] = kind]
  /\ th' = [th EXCEPT ![r] = [at |-> "save", token |-> t, until |-> now + SessionTTL]]
  /\ UNCHANGED <<now, sessions, rows, integration, credentials, pruning,
                 crashes, faults, handed, promised, ended, leaked, excused>>

Save(r) ==
  /\ At(r, "save")
  /\ rows' = [rows EXCEPT ![th[r].token] = th[r].until]
  /\ Step(r, "insert")
  /\ UNCHANGED <<now, sessions, holder, roles, integration, credentials,
                 pruning, crashes, faults, history>>

SaveFails(r) ==
  /\ At(r, "save") /\ Fault
  /\ Answer(r)
  /\ UNCHANGED <<now, sessions, store, holder, credentials, pruning, crashes,
                 history>>

Issued(r) == [expires |-> th[r].until, persisted |-> th[r].until]

Hand(r) ==
  /\ handed' = handed \cup {th[r].token}
  /\ promised' = [promised EXCEPT ![th[r].token] = th[r].until]
  /\ Answer(r)

\* An actor session is checked once more before its token is handed out.
Insert(r) ==
  /\ At(r, "insert")
  /\ sessions' = [sessions EXCEPT ![th[r].token] = Issued(r)]
  /\ IF th[r].token \in Actors
     THEN Step(r, "check") /\ UNCHANGED <<handed, promised>>
     ELSE Hand(r)
  /\ UNCHANGED <<now, store, holder, credentials, pruning, crashes, faults,
                 proof, ended, leaked, excused>>

-----------------------------------------------------------------------------
(* Authentication of a request: Manager.Session.                           *)

\* An expired session is deleted by whoever looks it up.  The principal, and
\* for an actor its integration and scope, are read anew; that decides the
\* answer, but an actor session is never renewed.
Find(r, t) ==
  /\ At(r, "home") /\ t \in handed /\ sessions[t] # NoSession
  /\ \/ /\ now >= sessions[t].expires
        /\ sessions' = [sessions EXCEPT ![t] = NoSession]
        /\ UNCHANGED th
     \/ /\ now < sessions[t].expires
        /\ th' = [th EXCEPT ![r] = [at |-> "renew", token |-> t]]
        /\ UNCHANGED sessions
  /\ UNCHANGED <<now, store, holder, credentials, pruning, crashes, faults,
                 history>>

Renewable(t) == sessions[t] # NoSession /\ t \in Logins /\ now < sessions[t].expires

Slid(t) == Max({sessions[t].expires, now + SessionTTL})

\* Mutant: the row is renewed only once a whole lifetime has passed.
LagsLong(t) == Slid(t) - sessions[t].persisted > SessionTTL

Lags(t) == Slid(t) - sessions[t].persisted > PersistLag

\* Nothing was locked since Find: the session may have been revoked.
Renew(r) ==
  /\ At(r, "renew")
  /\ LET t == th[r].token IN
       IF ~Renewable(t)
       THEN Answer(r) /\ UNCHANGED <<sessions, promised>>
       ELSE /\ sessions' = [sessions EXCEPT ![t] =
                  [expires   |-> Slid(t),
                   persisted |-> IF Lags(t) THEN Slid(t) ELSE @.persisted]]
            /\ IF Lags(t)
               THEN /\ th' = [th EXCEPT ![r] =
                         [at |-> "update", token |-> t, until |-> Slid(t),
                          previous |-> sessions[t].persisted]]
                    /\ UNCHANGED promised
               ELSE /\ Answer(r)
                    /\ promised' = [promised EXCEPT ![t] =
                                      IF @ = 0 THEN 0 ELSE Slid(t)]
  /\ UNCHANGED <<now, store, holder, credentials, pruning, crashes, faults,
                 handed, proof, ended, leaked, excused>>

\* Whoever has asked to log out counts on nothing.
PromiseRenewed(r) ==
  promised' = [promised EXCEPT ![th[r].token] = IF @ = 0 THEN 0 ELSE th[r].until]

\* UPDATE changes no row when the row is gone.
Update(r) ==
  /\ At(r, "update")
  /\ rows' = [rows EXCEPT ![th[r].token] = IF @ = 0 THEN 0 ELSE th[r].until]
  /\ PromiseRenewed(r)
  /\ Answer(r)
  /\ UNCHANGED <<now, sessions, holder, roles, integration, credentials,
                 pruning, crashes, faults, handed, proof, ended, leaked, excused>>

\* The next request is to try again.
UpdateFails(r) ==
  /\ At(r, "update") /\ Fault
  /\ LET t == th[r].token IN
       /\ sessions' = [sessions EXCEPT ![t].persisted =
                         IF @ = th[r].until THEN th[r].previous ELSE @]
       /\ excused' = excused \cup {t}
  /\ PromiseRenewed(r)
  /\ Answer(r)
  /\ UNCHANGED <<now, store, holder, credentials, pruning, crashes, handed,
                 proof, ended, leaked>>

-----------------------------------------------------------------------------
(* Revocation: Manager.Revoke, of a logout and of a resolve that came late.*)

Logout(r, t) ==
  /\ At(r, "home") /\ t \in handed \ ended
  /\ promised' = [promised EXCEPT ![t] = 0]
  /\ th' = [th EXCEPT ![r] = [at |-> "revoke", token |-> t]]
  /\ UNCHANGED <<now, sessions, store, holder, credentials, pruning, crashes,
                 faults, handed, proof, ended, leaked, excused>>

Revoke(r) ==
  /\ At(r, "revoke")
  /\ sessions' = [sessions EXCEPT ![th[r].token] = NoSession]
  /\ Step(r, "unsave")
  /\ UNCHANGED <<now, store, holder, credentials, pruning, crashes, faults,
                 history>>

\* The error of the DELETE is ignored.
Unsave(r) ==
  /\ At(r, "unsave")
  /\ LET t == th[r].token IN
       /\ \/ rows' = [rows EXCEPT ![t] = 0] /\ UNCHANGED <<faults, leaked>>
          \/ Fault /\ leaked' = leaked \cup {t} /\ UNCHANGED rows
       /\ ended' = ended \cup {t}
  /\ Answer(r)
  /\ UNCHANGED <<now, sessions, holder, roles, integration, credentials,
                 pruning, crashes, handed, proof, promised, excused>>

-----------------------------------------------------------------------------
(* The integration: resolveIntegrationActor and its administration.        *)

Valid(credential) == integration.active /\ integration.credential = credential

\* The credential is valid and the integration active; identity and default
\* room are read before the session is issued.
Resolve(r, t, credential) ==
  /\ At(r, "home") /\ t \in Actors /\ Unused(t) /\ Valid(credential)
  /\ holder' = [holder EXCEPT ![t] = "actor"]
  /\ th' = [th EXCEPT ![r] = [at |-> "save", token |-> t,
               credential |-> credential, until |-> now + ActorTTL]]
  /\ UNCHANGED <<now, sessions, store, credentials, pruning, crashes, faults,
                 history>>

\* Mutant: the version of the credential is not compared again.
StillValidActive(credential) == integration.active /\ credential # 0

StillValid(credential) == Valid(credential)

\* The credential may have changed while the session was issued.
Check(r) ==
  /\ At(r, "check")
  /\ IF StillValid(th[r].credential)
     THEN Hand(r)
     ELSE /\ th' = [th EXCEPT ![r] = [at |-> "revoke", token |-> th[r].token]]
          /\ UNCHANGED <<handed, promised>>
  /\ UNCHANGED <<now, sessions, store, holder, credentials, pruning, crashes,
                 faults, proof, ended, leaked, excused>>

CreateIntegration ==
  /\ integration = NoIntegration /\ credentials < MaxCredentials
  /\ credentials' = credentials + 1
  /\ integration' = [credential |-> credentials', active |-> TRUE]
  /\ UNCHANGED <<now, memory, rows, holder, roles, crashes, faults, history>>

\* PATCH merges its fields with the row it read; a new name alone writes the
\* active it read, so both values of active stand for every PATCH.
ReadIntegration(r, active) ==
  /\ At(r, "home") /\ integration # NoIntegration
  /\ th' = [th EXCEPT ![r] =
              [at |-> "patch", active |-> active, seen |-> integration.active]]
  /\ UNCHANGED <<now, sessions, store, holder, credentials, pruning, crashes,
                 faults, history>>

\* Actor sessions that are being issued, whose client has no token yet.
Issuing(t) == \E r \in Requests :
  th[r].at \in {"save", "insert", "check"} /\ th[r].token = t

\* The actor sessions that must not outlive the answer.
Sweep(r, due) == th' = [th EXCEPT ![r] = [at |-> "sweep", due |-> due]]
HandedActors == handed \cap Actors
AllActors == {t \in Actors : t \in handed \/ Issuing(t)}

\* The row just written is read again; when that fails, or the client has left,
\* the handler answers with an error and revokes nothing.
Reread(r, due) ==
  \/ Sweep(r, due) /\ UNCHANGED faults
  \/ Fault /\ Answer(r)

UpdateIntegration(r) ==
  /\ At(r, "patch")
  /\ \/ /\ integration # NoIntegration /\ UNCHANGED faults
        /\ integration' = [integration EXCEPT !.active = th[r].active]
        /\ Step(r, "reread")
     \/ integration = NoIntegration /\ Answer(r) /\ UNCHANGED <<integration, faults>>
     \/ Fault /\ Answer(r) /\ UNCHANGED integration
  /\ UNCHANGED <<now, sessions, rows, holder, roles, credentials, pruning,
                 crashes, history>>

\* What is revoked depends on the row as it is read again, after whatever other
\* handlers wrote to it.
Disabled(r) == th[r].seen /\ ~integration.active

RereadIntegration(r) ==
  /\ At(r, "reread")
  /\ IF integration # NoIntegration /\ Disabled(r)
     THEN Reread(r, HandedActors)
     ELSE Answer(r) /\ UNCHANGED faults
  /\ UNCHANGED <<now, sessions, store, holder, credentials, pruning, crashes,
                 history>>

RotateToken(r) ==
  /\ At(r, "home") /\ integration # NoIntegration
  /\ credentials < MaxCredentials /\ credentials' = credentials + 1
  /\ integration' = [integration EXCEPT !.credential = credentials']
  /\ Reread(r, AllActors)
  /\ UNCHANGED <<now, sessions, rows, holder, roles, pruning, crashes, history>>

\* One transaction with the rows of its sessions.
DeleteIntegration(r) ==
  /\ At(r, "home") /\ integration # NoIntegration
  /\ integration' = NoIntegration
  /\ rows' = [t \in Tokens |-> IF t \in Actors THEN 0 ELSE rows[t]]
  /\ Sweep(r, AllActors)
  /\ UNCHANGED <<now, sessions, holder, roles, credentials, pruning, crashes,
                 faults, history>>

\* RevokeIntegration: memory, then the rows.
SweepMemory(r) ==
  /\ At(r, "sweep")
  /\ sessions' = [t \in Tokens |-> IF t \in Actors THEN NoSession ELSE sessions[t]]
  /\ Step(r, "sweepRows")
  /\ UNCHANGED <<now, store, holder, credentials, pruning, crashes, faults,
                 history>>

SweptRows == [t \in Tokens |-> IF t \in Actors THEN 0 ELSE rows[t]]

SweepRows(r) ==
  /\ At(r, "sweepRows")
  /\ \/ rows' = SweptRows /\ UNCHANGED <<faults, leaked>>
     \/ /\ Fault /\ UNCHANGED rows
        /\ leaked' = leaked \cup {t \in Actors : rows[t] # 0}
  /\ ended' = ended \cup th[r].due
  /\ Answer(r)
  /\ UNCHANGED <<now, sessions, holder, roles, integration, credentials,
                 pruning, crashes, handed, proof, promised, excused>>

-----------------------------------------------------------------------------
(* Time, the pruner and restarts.                                          *)

\* No UPDATE takes as long as PersistLag (24 hours).
Tick ==
  /\ now < MaxTime /\ now' = now + 1
  /\ \A r \in Requests : ~At(r, "update")
  /\ UNCHANGED <<memory, store, holder, credentials, crashes, faults, history>>

Expired(t) == \/ sessions[t] # NoSession /\ now >= sessions[t].expires
              \/ rows[t] # 0 /\ rows[t] <= now

\* A pass that finds nothing changes nothing.
PruneMemory ==
  /\ pruning = 0 /\ pruning' = now
  /\ \E t \in Tokens : Expired(t)
  /\ sessions' = [t \in Tokens |->
       IF now >= sessions[t].expires THEN NoSession ELSE sessions[t]]
  /\ UNCHANGED <<now, store, holder, credentials, th, crashes, faults, history>>

Unexpired(moment) == [t \in Tokens |-> IF rows[t] <= moment THEN 0 ELSE rows[t]]

\* The row of a session that lives on in memory is deleted with the others.
PruneRows ==
  /\ pruning # 0 /\ pruning' = 0
  /\ rows' = Unexpired(pruning)
  /\ excused' = excused \cup
       {t \in Logins : rows[t] # rows'[t] /\ now < sessions[t].expires}
  /\ UNCHANGED <<now, sessions, holder, roles, integration, credentials, th,
                 crashes, faults, handed, proof, promised, ended, leaked>>

LoadSessions ==
  [t \in Tokens |-> IF rows[t] <= now THEN NoSession
                    ELSE [expires |-> rows[t], persisted |-> rows[t]]]

\* A restart may cost an ordinary session what its row lags behind, and more
\* in the middle of an UPDATE that another request has relied on.
Restart ==
  /\ crashes < MaxCrashes /\ crashes' = crashes + 1
  /\ sessions' = LoadSessions
  /\ rows' = Unexpired(now)
  /\ th' = [r \in Requests |-> Home]
  /\ pruning' = 0
  /\ promised' = [t \in Tokens |->
       IF t \in Actors THEN promised[t]
       ELSE IF promised[t] > PersistLag THEN promised[t] - PersistLag ELSE 0]
  /\ excused' = excused \cup {t \in Logins : \E r \in Requests :
                                 At(r, "update") /\ th[r].token = t}
  /\ UNCHANGED <<now, holder, roles, integration, credentials, faults, handed,
                 proof, ended, leaked>>

-----------------------------------------------------------------------------
Next ==
  \/ \E r \in Requests :
       \/ \E t \in Logins, kind \in Kinds : Login(r, t, kind)
       \/ \E t \in Actors, c \in 1 .. credentials : Resolve(r, t, c)
       \/ \E t \in Tokens : Find(r, t) \/ Logout(r, t)
       \/ Save(r) \/ SaveFails(r) \/ Insert(r) \/ Check(r)
       \/ Renew(r) \/ Update(r) \/ UpdateFails(r)
       \/ Revoke(r) \/ Unsave(r)
       \/ \E active \in BOOLEAN : ReadIntegration(r, active)
       \/ UpdateIntegration(r) \/ RereadIntegration(r)
       \/ RotateToken(r) \/ DeleteIntegration(r)
       \/ SweepMemory(r) \/ SweepRows(r)
  \/ CreateIntegration
  \/ Tick \/ PruneMemory \/ PruneRows \/ Restart

Spec == Init /\ [][Next]_vars

-----------------------------------------------------------------------------
(* Properties.                                                             *)

\* A token in a client's hands whose logout was answered, or which was issued
\* under a credential whose rotation, disabling or deletion was answered, opens
\* no session in memory and none at a restart, whatever renewals and issues were
\* under way: it comes back only if the store refused its DELETE.
EndedIsGone ==
  \A t \in (ended \cap handed) \ leaked : sessions[t] = NoSession /\ rows[t] = 0

\* An actor session ends when its client was told it would: no use of it, no
\* restart and no pruning moves its end.
ActorsNeverSlide ==
  \A t \in Actors : promised[t] # 0 => sessions[t].expires \in {0, promised[t]}

\* An ordinary session lives for a whole SessionTTL after its last use; a
\* restart costs it at most PersistLag, unless an UPDATE failed or was cut
\* short, or the pruner deleted the row while the session was alive in memory.
\* An actor session does not slide at all.
SlidingSession ==
  /\ \A t \in Logins \ (ended \cup excused) :
       now < promised[t] => sessions[t].expires >= promised[t]
  /\ ActorsNeverSlide

\* The same without the exception for the pruner, as the specification of
\* the project words it (restarts do not end sessions).
SurvivesRestart ==
  faults = 0 =>
    \A t \in Logins \ ended : now < promised[t] => sessions[t].expires >= promised[t]

\* Once the integration is disabled and nothing is under way no actor session
\* is left that would work again when it is enabled.
DisabledHasNoSessions ==
  ~integration.active /\ (\A r \in Requests : At(r, "home")) =>
    \A t \in (Actors \cap handed) \ leaked : sessions[t] = NoSession

\* The roles of a session are read from its principal at every use, so a
\* login with the administrator's password must not reach the sessions of
\* guests who chose the same name.
GuestsStayGuests ==
  \A t \in Logins : proof[t] = "guest" => Admin \notin roles[holder[t]]
=============================================================================

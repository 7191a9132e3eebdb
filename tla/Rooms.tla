------------------------------- MODULE Rooms -------------------------------
(***************************************************************************)
(* The life of the room of one id: its row in the database, the actor the  *)
(* manager runs for it, the REST requests that create, change and delete   *)
(* it, and the admission of clients that want to enter it.                 *)
(*                                                                         *)
(* Every step of a request is one access to the store, to the manager's    *)
(* maps or to the actor.  What the actor does with its queue is in module  *)
(* Room: here it only matters that it writes rows under the room's id.     *)
(* Time is counted in units of Grace's.                                    *)
(***************************************************************************)
EXTENDS Integers, Sequences

CONSTANTS Requests, Clients,
          Trusted,          \* clients with a role a room may trust
          Passwords, Periods, Policies,
          NoOne, Omit, Empty, Wrong,   \* distinguished values
          MinPeriod, DefaultPeriod, Grace,   \* of rotating codes
          Limit, Window,    \* of wrong credentials from one address
          Scenarios,        \* an execution is about one of them: what may happen
          MaxTime, MaxRooms, MaxActors, MaxRequests, MaxJoins, MaxFaults, MaxCrashes

Modes == {"open", "password", "code"}
Fields == {"mode", "password", "period", "trusted", "policy"}
Kinds == {"create", "update", "delete"}

ASSUME RoomsAssumption ==
  /\ Trusted \subseteq Clients
  /\ Periods \subseteq Nat \ {0}
  /\ {MinPeriod, DefaultPeriod, Grace, Limit, Window} \subseteq Nat \ {0}
  /\ Omit \notin Passwords
  /\ (Passwords \cup {Wrong}) \cap (Nat \X Nat \X Int) = {}   \* none is a code
  /\ Grace <= MinPeriod /\ MinPeriod <= DefaultPeriod
  /\ Scenarios \subseteq
       SUBSET (Fields \cup Kinds \cup {"join", "grant", "time", "read"})
  /\ {MaxTime, MaxRooms, MaxActors, MaxRequests, MaxJoins, MaxFaults,
      MaxCrashes} \subseteq Nat

VARIABLES
  scenario,     \* what may happen in this execution
  now,
  row,          \* the row of rooms, or NoRow
  contents,     \* the room whose queue and history the other tables hold, or 0
  grants,       \* clients with a controller grant for the id
  rooms,        \* how many rows the id has had: a row's birth date
  actors,       \* every actor spawned in this execution
  registered,   \* the manager's entry for the id: an actor, or 0
  th,           \* what each REST request does next
  requests, faults, crashes,
  joining,      \* what each client's room.join does next
  bucket,       \* the limiter's bucket for the id and the clients' address
  codes,        \* history: access codes handed out
  probes,       \* history: when wrong credentials were answered since a right one
  vouched,      \* history: joining clients that were entitled meanwhile
  undeleted,    \* history: a DELETE stopped the actor and failed at the row
  overlapped    \* history: requests that nothing keeps apart have overlapped:
                \* "no", "yes", or "before" the last start of the server

store == <<row, contents, grants, rooms>>
manager == <<actors, registered>>
admission == <<joining, bucket, codes, probes, vouched>>
bounds == <<requests, faults, crashes>>
vars == <<scenario, now, store, manager, th, bounds, admission, undeleted, overlapped>>

NoRow == [born |-> 0]
NoBucket == [count |-> 0, start |-> 0]
Home == [at |-> "home"]
Running(a) == a # 0 /\ actors[a].running
At(r, place) == th[r].at = place
Fault == faults < MaxFaults /\ faults' = faults + 1

-----------------------------------------------------------------------------
(* Access configurations.                                                  *)

\* A request gives some of the fields; the scenario bounds which.
Bodies ==
  {b \in [mode : Modes \cup {Omit}, password : Passwords \cup {Empty, Omit},
          period : Periods \cup {Omit}, trusted : BOOLEAN \cup {Omit},
          policy : Policies \cup {Omit}] :
     \A f \in Fields \ scenario : b[f] = Omit}

Given(value, otherwise) == IF value = Omit THEN otherwise ELSE value

ModeOf(old, b) ==
  IF b.mode # Omit THEN b.mode
  ELSE IF b.password = Omit THEN old.mode
  ELSE IF b.password = Empty THEN "open" ELSE "password"

\* Mutant: an omitted period is the default again.
MergedWithDefault(old, b) ==
  [mode |-> ModeOf(old, b),
   secret |-> IF ModeOf(old, b) # "password" THEN NoOne
              ELSE IF b.password \in Passwords THEN b.password ELSE old.secret,
   period |-> Given(b.period, DefaultPeriod), trusted |-> Given(b.trusted, old.trusted)]

Merged(old, b) ==
  [mode |-> ModeOf(old, b),
   secret |-> IF ModeOf(old, b) # "password" THEN NoOne
              ELSE IF b.password \in Passwords THEN b.password ELSE old.secret,
   period |-> Given(b.period, old.period), trusted |-> Given(b.trusted, old.trusted)]

ValidateAccessConfig(config) ==
  /\ config.mode = "password" => config.secret # NoOne
  /\ config.mode = "code" => config.period >= MinPeriod

Accepted(old, b) ==
  /\ ~(b.mode \in {"open", "code"} /\ b.password \in Passwords)
  /\ ~(b.mode = "password" /\ b.password = Empty)
  /\ ValidateAccessConfig(Merged(old, b))

\* What a room is created with where the request says nothing.
Fresh == [mode |-> "open", secret |-> NoOne, period |-> DefaultPeriod, trusted |-> FALSE]

-----------------------------------------------------------------------------
(* Rotating codes: a code is what the keyed hash of the room's birth, the  *)
(* period and the number of the period stands for.                         *)

ValidFrom(period, t) == (t \div period) * period
CodeAt(a, period, t) == <<actors[a].born, period, t \div period>>

\* Mutant: the grace ends one instant too late.
CheckPrevious(a, credential, t) ==
  LET config == actors[a].access IN
    CASE config.mode = "open" -> TRUE
      [] config.mode = "password" -> credential = config.secret
      [] config.mode = "code" ->
           \/ credential = CodeAt(a, config.period, t)
           \/ /\ t - ValidFrom(config.period, t) <= Grace
              /\ credential = CodeAt(a, config.period, ValidFrom(config.period, t) - 1)

Check(a, credential, t) ==
  LET config == actors[a].access IN
    CASE config.mode = "open" -> TRUE
      [] config.mode = "password" -> credential = config.secret
      [] config.mode = "code" ->
           \/ credential = CodeAt(a, config.period, t)
           \/ /\ t - ValidFrom(config.period, t) < Grace
              /\ credential = CodeAt(a, config.period, ValidFrom(config.period, t) - 1)

-----------------------------------------------------------------------------
(* Entering the room.                                                      *)

\* Reference for the history: who is entitled to enter, by the configuration
\* and the lifetimes the codes were handed out with.
Entitled(c, a, credential, controllers, t) ==
  LET config == actors'[a].access IN
    \/ config.mode = "open"
    \/ c \in controllers
    \/ config.trusted /\ c \in Trusted
    \/ config.mode = "password" /\ credential = config.secret
    \/ config.mode = "code" /\ \E k \in codes' :
         /\ k.code = credential /\ k.period = config.period /\ k.born = actors'[a].born
         /\ t < k.expires + Grace

NowVouched == vouched \cup
  {c \in Clients : joining[c] # Home
                     /\ Entitled(c, joining[c].actor, joining[c].credential, grants', now')}

\* An administrator, or the room's integration, reads the current code.
CurrentAccessCode ==
  /\ "read" \in scenario /\ Running(registered)
  /\ LET period == actors[registered].access.period IN
     /\ actors[registered].access.mode = "code"
     /\ codes' = codes \cup
          {[code |-> CodeAt(registered, period, now), period |-> period,
            born |-> actors[registered].born,
            from |-> ValidFrom(period, now), expires |-> ValidFrom(period, now) + period]}
  /\ UNCHANGED <<scenario, now, store, manager, th, bounds, joining, bucket,
                 probes, undeleted, overlapped>>
  /\ vouched' = NowVouched

Credentials == Passwords \cup {Wrong} \cup {k.code : k \in codes}

\* AdmitRoom finds the actor and reads its configuration once.
Join(c, credential) ==
  /\ "join" \in scenario /\ joining[c] = Home
  /\ requests < MaxJoins /\ requests' = requests + 1
  /\ registered # 0
  /\ joining' = [joining EXCEPT ![c] =
       [at |-> IF actors[registered].access.mode = "open" THEN "enter" ELSE "bypass",
        actor |-> registered, credential |-> credential,
        trusted |-> actors[registered].access.trusted]]
  /\ UNCHANGED <<scenario, now, store, manager, th, faults, crashes, bucket,
                 codes, probes, undeleted, overlapped>>
  /\ vouched' = IF Entitled(c, registered, credential, grants, now)
                THEN vouched \cup {c} ELSE vouched \ {c}

\* Mutant: anybody's grant will do.
BypassesAnyGrant(c, trusted) == (trusted /\ c \in Trusted) \/ grants # {}

BypassesRoomCredential(c, trusted) == c \in grants \/ (trusted /\ c \in Trusted)

Bypass(c) ==
  /\ joining[c] # Home /\ joining[c].at = "bypass"
  /\ joining' = [joining EXCEPT ![c].at =
       IF BypassesRoomCredential(c, joining[c].trusted) THEN "enter" ELSE "check"]
  /\ UNCHANGED <<scenario, now, store, manager, th, bounds, bucket, codes,
                 probes, vouched, undeleted, overlapped>>

\* The grant cannot be read: the join is refused, no credential was tried.
BypassFails(c) ==
  /\ joining[c] # Home /\ joining[c].at = "bypass" /\ Fault
  /\ joining' = [joining EXCEPT ![c] = Home] /\ vouched' = vouched \ {c}
  /\ UNCHANGED <<scenario, now, store, manager, th, requests, crashes, bucket, codes,
                 probes, undeleted, overlapped>>

\* The configuration is read again.  An expired bucket counts for nothing, a
\* right credential empties it; a full one hides that the credential is wrong.
OpenBucket == IF now >= bucket.start + Window THEN NoBucket ELSE bucket
Full == OpenBucket.count >= Limit

Allow(matched) ==
  IF matched THEN bucket' = NoBucket
  ELSE bucket' = IF Full THEN OpenBucket
                 ELSE IF OpenBucket.count = 0 THEN [count |-> 1, start |-> now]
                 ELSE [OpenBucket EXCEPT !.count = @ + 1]

CheckCredential(c) ==
  /\ joining[c] # Home /\ joining[c].at = "check"
  /\ LET matched == Check(joining[c].actor, joining[c].credential, now) IN
     /\ Allow(matched)
     /\ joining' = [joining EXCEPT ![c] =
                      IF matched THEN [@ EXCEPT !.at = "enter"] ELSE Home]
     /\ probes' = IF matched THEN <<>> ELSE IF Full THEN probes ELSE Append(probes, now)
     /\ vouched' = IF matched THEN vouched ELSE vouched \ {c}
  /\ UNCHANGED <<scenario, now, store, manager, th, bounds, codes, undeleted, overlapped>>

\* The client is made a member of the actor it was admitted to, running or not.
Enter(c) ==
  /\ joining[c] # Home /\ joining[c].at = "enter"
  /\ joining' = [joining EXCEPT ![c] = Home]
  /\ vouched' = vouched \ {c}
  /\ UNCHANGED <<scenario, now, store, manager, th, bounds, bucket, codes, probes,
                 undeleted, overlapped>>

Grant(c) ==
  /\ "grant" \in scenario /\ row # NoRow
  /\ grants' = grants \cup {c}
  /\ UNCHANGED <<scenario, now, row, contents, rooms, manager, th, bounds, joining, bucket,
                 codes, probes, undeleted, overlapped>>
  /\ vouched' = NowVouched

RevokeGrant(c) ==
  /\ c \in grants /\ grants' = grants \ {c}
  /\ UNCHANGED <<scenario, now, row, contents, rooms, manager, th, bounds, admission,
                 undeleted, overlapped>>

-----------------------------------------------------------------------------
(* The REST requests.                                                      *)

Busy(kind) == \E r \in Requests : th[r] # Home /\ th[r].kind = kind

\* No lock is held between two steps of a request, so any two may overlap.  An
\* update and a deletion do each other no harm.
Overlaps(kind) == \E other \in Kinds : Busy(other) /\ {kind, other} # {"update", "delete"}

Start(kind) ==
  /\ kind \in scenario /\ requests < MaxRequests /\ requests' = requests + 1
  /\ overlapped' = IF Overlaps(kind) THEN "yes" ELSE overlapped

Finish(r) == th' = [th EXCEPT ![r] = Home]
Go(r, place) == th' = [th EXCEPT ![r].at = place]

\* The row is inserted, unless the id has one.
CreateRow(r, b) ==
  /\ th[r] = Home /\ Start("create")
  /\ Accepted(Fresh, b) /\ row = NoRow /\ rooms < MaxRooms
  /\ rooms' = rooms + 1
  /\ row' = [born |-> rooms', access |-> Merged(Fresh, b),
             policy |-> Given(b.policy, NoOne)]
  /\ th' = [th EXCEPT ![r] = [kind |-> "create", at |-> "spawn", row |-> row']]
  /\ UNCHANGED <<scenario, now, contents, grants, manager, faults, crashes, admission,
                 undeleted>>

\* The new actor takes the id's entry; an actor that had it is forgotten.
SpawnActor(made) ==
  /\ Len(actors) < MaxActors
  /\ actors' = Append(actors, [running |-> TRUE, born |-> made.born,
                               access |-> made.access, policy |-> made.policy])
  /\ registered' = Len(actors')

Spawn(r) ==
  /\ At(r, "spawn") /\ SpawnActor(th[r].row) /\ Finish(r)
  /\ UNCHANGED <<scenario, now, store, bounds, admission, undeleted, overlapped>>

\* The row is read and the fields of the request are merged into it.
UpdateRead(r, b) ==
  /\ th[r] = Home /\ Start("update")
  /\ row # NoRow /\ Accepted(row.access, b)
  /\ th' = [th EXCEPT ![r] =
       [kind |-> "update", at |-> "lookup", access |-> Merged(row.access, b), body |-> b]]
  /\ UNCHANGED <<scenario, now, store, manager, faults, crashes, admission, undeleted>>

UpdateLookup(r) ==
  /\ At(r, "lookup")
  /\ th' = IF registered = 0 THEN [th EXCEPT ![r] = Home]
           ELSE [th EXCEPT ![r] = [kind |-> "update", at |-> "write", access |-> @.access,
                                   body |-> @.body, actor |-> registered]]
  /\ UNCHANGED <<scenario, now, store, manager, bounds, admission, undeleted, overlapped>>

\* The whole row but its policy is written; a row that has gone is no error.
UpdateWrite(r) ==
  /\ At(r, "write")
  /\ row' = IF row = NoRow THEN NoRow ELSE [row EXCEPT !.access = th[r].access]
  /\ Go(r, "apply")
  /\ UNCHANGED <<scenario, now, contents, grants, rooms, manager, bounds, admission,
                 undeleted, overlapped>>

UpdateWriteFails(r) ==
  /\ At(r, "write") /\ Fault /\ Finish(r)
  /\ UNCHANGED <<scenario, now, store, manager, requests, crashes, admission, undeleted,
                 overlapped>>

Applied(old, new) == new

UpdateApply(r) ==
  /\ At(r, "apply")
  /\ actors' = [actors EXCEPT ![th[r].actor].access = Applied(@, th[r].access)]
  /\ IF th[r].body.policy = Omit THEN Finish(r) ELSE Go(r, "policy")
  /\ UNCHANGED <<scenario, now, store, registered, bounds, joining, bucket, codes,
                 probes, undeleted, overlapped>>
  /\ vouched' = NowVouched

\* The policy is set by the actor: it writes the row and takes it over.  An
\* actor that has stopped answers that the room is closed.
UpdatePolicy(r) ==
  /\ At(r, "policy") /\ Finish(r)
  /\ IF Running(th[r].actor)
     THEN /\ actors' = [actors EXCEPT ![th[r].actor].policy = th[r].body.policy]
          /\ row' = IF row = NoRow THEN NoRow
                    ELSE [row EXCEPT !.policy = th[r].body.policy]
     ELSE UNCHANGED <<actors, row>>
  /\ UNCHANGED <<scenario, now, contents, grants, rooms, registered, bounds, admission,
                 undeleted, overlapped>>

UpdatePolicyFails(r) ==
  /\ At(r, "policy") /\ Fault /\ Finish(r)
  /\ UNCHANGED <<scenario, now, store, manager, requests, crashes, admission, undeleted,
                 overlapped>>

DeleteRead(r) ==
  /\ th[r] = Home /\ Start("delete") /\ row # NoRow
  /\ th' = [th EXCEPT ![r] = [kind |-> "delete", at |-> "stop"]]
  /\ UNCHANGED <<scenario, now, store, manager, faults, crashes, admission, undeleted>>

\* Mutant: the actor is forgotten but not stopped.
StoppedForgets(a) == actors

\* The actor's context is cancelled: none of its writes succeeds from here on.
Stopped(a) == [actors EXCEPT ![a].running = FALSE]

Delete(r) ==
  /\ At(r, "stop")
  /\ actors' = IF registered = 0 THEN actors ELSE Stopped(registered)
  /\ registered' = 0 /\ Go(r, "row")
  /\ UNCHANGED <<scenario, now, store, bounds, admission, undeleted, overlapped>>

\* Queue, history and row in one transaction; grants go with the row.
DeleteRow(r) ==
  /\ At(r, "row") /\ Finish(r)
  /\ row' = NoRow /\ contents' = 0 /\ grants' = {} /\ undeleted' = FALSE
  /\ UNCHANGED <<scenario, now, rooms, manager, bounds, admission, overlapped>>

DeleteRowFails(r) ==
  /\ At(r, "row") /\ Fault /\ Finish(r)
  /\ undeleted' = (row # NoRow)
  /\ UNCHANGED <<scenario, now, store, manager, requests, crashes, admission,
                 overlapped>>

-----------------------------------------------------------------------------
(* The actor's writes, time, and the server's end and start.               *)

ActorWrites(a) ==
  /\ "delete" \in scenario /\ Running(a)
  /\ contents' = actors[a].born
  /\ UNCHANGED <<scenario, now, row, grants, rooms, manager, th, bounds, admission,
                 undeleted, overlapped>>

Tick ==
  /\ "time" \in scenario /\ now < MaxTime /\ now' = now + 1
  /\ UNCHANGED <<scenario, store, manager, th, bounds, admission, undeleted, overlapped>>

\* Every request and connection ends.  Load runs before the server listens.
Crash ==
  /\ crashes < MaxCrashes /\ crashes' = crashes + 1
  /\ LET stopped == [a \in DOMAIN actors |-> [actors[a] EXCEPT !.running = FALSE]] IN
       IF row = NoRow THEN actors' = stopped /\ registered' = 0
       ELSE /\ Len(actors) < MaxActors
            /\ actors' = Append(stopped, [running |-> TRUE, born |-> row.born,
                                          access |-> row.access, policy |-> row.policy])
            /\ registered' = Len(actors')
  /\ th' = [r \in Requests |-> Home]
  /\ joining' = [c \in Clients |-> Home]
  /\ bucket' = NoBucket /\ probes' = <<>>
  /\ vouched' = {} /\ undeleted' = FALSE
  /\ overlapped' = IF overlapped = "no" THEN "no" ELSE "before"
  /\ UNCHANGED <<scenario, now, store, requests, faults, codes>>

\* A server that has one room, with any configuration the scenario is about.
Init ==
  /\ scenario \in Scenarios
  /\ now = 0
  /\ \E b \in Bodies :
       /\ Accepted(Fresh, b)
       /\ row = [born |-> 1, access |-> Merged(Fresh, b), policy |-> Given(b.policy, NoOne)]
  /\ rooms = 1 /\ contents = 0 /\ grants = {}
  /\ actors = <<[running |-> TRUE, born |-> 1, access |-> row.access, policy |-> row.policy]>>
  /\ registered = 1
  /\ th = [r \in Requests |-> Home]
  /\ requests = 0 /\ faults = 0 /\ crashes = 0
  /\ joining = [c \in Clients |-> Home]
  /\ bucket = NoBucket /\ codes = {}
  /\ probes = <<>> /\ vouched = {} /\ undeleted = FALSE /\ overlapped = "no"

Request(r) ==
  \/ \E b \in Bodies : CreateRow(r, b) \/ UpdateRead(r, b)
  \/ Spawn(r)
  \/ UpdateLookup(r) \/ UpdateWrite(r) \/ UpdateWriteFails(r)
  \/ UpdateApply(r) \/ UpdatePolicy(r) \/ UpdatePolicyFails(r)
  \/ DeleteRead(r) \/ Delete(r) \/ DeleteRow(r) \/ DeleteRowFails(r)

Client(c) ==
  \/ \E credential \in Credentials : Join(c, credential)
  \/ Bypass(c) \/ BypassFails(c) \/ CheckCredential(c) \/ Enter(c)
  \/ Grant(c) \/ RevokeGrant(c)

Next ==
  \/ \E r \in Requests : Request(r)
  \/ \E c \in Clients : Client(c)
  \/ \E a \in DOMAIN actors : ActorWrites(a)
  \/ CurrentAccessCode
  \/ Tick
  \/ Crash

Spec == Init /\ [][Next]_vars

-----------------------------------------------------------------------------
(* Properties.                                                             *)

Idle(kinds) == \A k \in kinds : ~Busy(k)

\* What the tables hold for the id belongs to the room that has it now: a new
\* room never starts with the queue, the history or the controllers of a
\* deleted one.
ContentsAreOwn ==
  /\ contents # 0 => row # NoRow /\ row.born = contents
  /\ grants # {} => row # NoRow

\* When no update is under way the actor admits and decides by the
\* configuration that the next start of the server would load.
ConfigIsStored ==
  Idle({"create", "update", "delete"}) /\ registered # 0 /\ row # NoRow =>
    /\ actors[registered].access = row.access
    /\ actors[registered].policy = row.policy

\* At most one actor runs, it is the one the manager knows, and it serves the
\* row of its own birth.  When no request is about to change that, and no
\* DELETE has stopped half way, a room has an actor exactly if it has a row, and
\* the tables and the configuration are that room's.  Requests that overlap may
\* break this, but no longer than until the server starts again; what an actor
\* without a row wrote to the tables may stay there.
RoomHasItsActor ==
  /\ overlapped # "yes" =>
       /\ \A a \in DOMAIN actors : Running(a) => a = registered
       /\ registered # 0 /\ row # NoRow => actors[registered].born = row.born
       /\ Idle({"create", "delete"}) /\ ~undeleted => (row # NoRow <=> registered # 0)
       /\ ConfigIsStored
  /\ overlapped = "no" => ContentsAreOwn

\* A PATCH changes only what it gives.  The period and the trusted roles it omits,
\* and the password and mode if it gives neither, stay what the row held when it
\* was written.
Keeps(old, b, new) ==
  /\ b.period = Omit => new.period = old.period
  /\ b.trusted = Omit => new.trusted = old.trusted
  /\ b.mode = Omit /\ b.password = Omit =>
       new.mode = old.mode /\ new.secret = old.secret

OmittedStays(r) ==
  At(r, "write") /\ th'[r].at = "apply" /\ row # NoRow =>
    Keeps(row.access, th[r].body, row'.access)

\* So it is unless another request overlaps it.
OmittedKept == [][overlapped # "yes" => \A r \in Requests : OmittedStays(r)]_vars

\* So it is whatever overlaps, as the specification of the project has it.
OmittedAlwaysKept == [][\A r \in Requests : OmittedStays(r)]_vars

\* The specification of the project gives every room one actor.
OneActor == \A a \in DOMAIN actors : Running(a) => a = registered

\* A code that was handed out is good until its period has ended and for the
\* grace after it, and no longer, as long as the room keeps its period.
CodesLiveTheirPeriod ==
  \A k \in codes : \A a \in DOMAIN actors :
    actors[a].born = k.born /\ actors[a].access.mode = "code"
      /\ actors[a].access.period = k.period /\ k.from <= now =>
        (Check(a, k.code, now) <=> now < k.expires + Grace)

\* Between two right credentials, twice the limit of wrong ones take no less than
\* a window: no interval of its length has as many answered.
ProbesBounded ==
  \A i, j \in DOMAIN probes : j = i + 2 * Limit - 1 => probes[j] - probes[i] >= Window

\* Nobody is let in who was not entitled at some moment of the join, by a
\* configuration that the room had meanwhile; and nobody can try many credentials.
AdmittedWereEntitled ==
  /\ \A c \in Clients : joining[c] # Home /\ joining[c].at = "enter" => c \in vouched
  /\ ProbesBounded
=============================================================================

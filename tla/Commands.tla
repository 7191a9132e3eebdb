------------------------------ MODULE Commands ------------------------------
(***************************************************************************)
(* REST writes to a room: an external subject is resolved to an identity,  *)
(* the write reserves its Idempotency-Key, the control service decides     *)
(* whether the identity may give the command, the room executes it, and    *)
(* the answer is recorded under the key for repetitions of the request.    *)
(*                                                                         *)
(* One room and one key per identity and command; Bodies are the payloads  *)
(* a key is used with.  Every step is one access to the store or one call  *)
(* of the room actor; module Room is what the call does to the queue.      *)
(***************************************************************************)
EXTENDS Bindings

CONSTANTS Requests, Bodies,
          Owners,           \* identities whose entries are removed
          Scenarios,        \* an execution is about one of them: what may happen
          PendingTTL, CompleteTTL,
          MaxWrites, MaxFaults, MaxCrashes   \* bounds

Ops == {"add", "remove", "control", "radio"}

ASSUME CommandsAssumption ==
  /\ Owners \subseteq Subjects \cup Principals
  /\ Scenarios \subseteq SUBSET (Ops \cup {"codes", "rebind", "grant"})
  /\ PendingTTL \in Nat \ {0} /\ CompleteTTL \in Nat \ {0}
  /\ {MaxWrites, MaxFaults, MaxCrashes} \subseteq Nat

VARIABLES
  scenario,     \* what may happen in this execution
  grants,       \* room_principal_grants: principals that control the room
  requesters,   \* the room's policy: requesters control the radio
  entries,      \* pending entries of the room, by the identity that added them
  records,      \* idempotency_records
  th,           \* what each request does next
  writes, faults, crashes,
  executed,     \* history: executions under a key since its record expired
  answers,      \* history: the answer given under a key and its guarantee
  broken,       \* history: keys whose record could not be completed
  entitled      \* history: requests whose identity held the right meanwhile

control == <<scenario, grants, requesters, entries>>
history == <<executed, answers, broken, entitled>>
vars == <<now, bindings, control, records, th, writes, faults, crashes, history>>

\* The identity of a subject without a link is a guest of its own.  A removal
\* names the entry, here its owner, in its path and so in its key.
Identities == Principals \cup Subjects
Commands ==
  {<<op, NoOne>> : op \in Ops \ {"remove"}} \cup ({"remove"} \X Owners)
Keys == Identities \X Commands
BodiesOf(command) == IF command[1] = "remove" THEN {NoOne} ELSE Bodies
NoRecord == [body |-> NoOne, status |-> "none", expires |-> 0]
NoAnswer == [body |-> NoOne, status |-> "none", until |-> 0]
Home == [at |-> "home"]

At(r, place) == th[r].at = place
Go(r, place) == th' = [th EXCEPT ![r].at = place]
KeyOf(r) == <<th[r].who, th[r].command>>
Op(r) == th[r].command[1]
Target(r) == th[r].command[2]
Fault == faults < MaxFaults /\ faults' = faults + 1

Init ==
  /\ now = 0
  /\ BindingsInit
  /\ scenario \in Scenarios
  /\ issued = 0 /\ writes = 0
  /\ grants \in SUBSET Principals
  /\ requesters = FALSE
  /\ entries = IF "remove" \in scenario THEN Owners ELSE {}
  /\ records = [k \in Keys |-> NoRecord]
  /\ th = [r \in Requests |-> Home]
  /\ faults = 0 /\ crashes = 0
  /\ executed = [k \in Keys |-> 0]
  /\ answers = [k \in Keys |-> NoAnswer]
  /\ broken = {}
  /\ entitled = {}

-----------------------------------------------------------------------------
(* Who may do what.                                                        *)

\* Mutant: anybody's grant will do.
ControlsAny(who) == grants # {}

Controls(who) == who \in grants

\* A request is entitled if its identity had the right at some moment since it
\* began: this is brought up to date wherever the rights change.
Rightful(command, who, controllers, open) ==
  \/ command[1] = "add"
  \/ command[2] = who
  \/ who \in controllers
  \/ command[1] = "radio" /\ open

NowEntitled == entitled \cup
  {r \in Requests : th[r] # Home /\ Rightful(th[r].command, th[r].who, grants', requesters')}

Grant(p) ==
  /\ "grant" \in scenario
  /\ grants' = grants \cup {p}
  /\ UNCHANGED requesters /\ entitled' = NowEntitled
  /\ UNCHANGED <<now, bindings, scenario, entries, records, th, writes, faults, crashes,
                 executed, answers, broken>>

RevokeGrant(p) ==
  /\ "grant" \in scenario /\ p \in grants /\ grants' = grants \ {p}
  /\ UNCHANGED <<now, bindings, scenario, requesters, entries, records, th, writes,
                 faults, crashes, history>>

SetPolicy(open) ==
  /\ "radio" \in scenario /\ requesters' = open /\ open # requesters
  /\ UNCHANGED grants /\ entitled' = NowEntitled
  /\ UNCHANGED <<now, bindings, scenario, entries, records, th, writes, faults, crashes,
                 executed, answers, broken>>

-----------------------------------------------------------------------------
(* The idempotent middleware.                                              *)

Identity(s) == IF links[s] = NoOne THEN s ELSE links[s]

Writes == IF "rebind" \in scenario THEN 1 ELSE MaxWrites

\* The actor session of a write may be older than its reservation.
Resolve(r, s, command, body) ==
  /\ At(r, "home") /\ command[1] \in scenario
  /\ writes < Writes /\ writes' = writes + 1
  /\ th' = [th EXCEPT ![r] =
       [at |-> "reserve", who |-> Identity(s), command |-> command, body |-> body,
        begun |-> now, status |-> "none"]]
  /\ entitled' = IF Rightful(command, Identity(s), grants, requesters)
                 THEN entitled \cup {r} ELSE entitled \ {r}
  /\ UNCHANGED <<now, bindings, control, records, faults, crashes, executed,
                 answers, broken>>

Forget(r) == th' = [th EXCEPT ![r] = Home] /\ entitled' = entitled \ {r}

\* BeginIdempotency deletes what has expired, then inserts or reads.
Expired(k) == records[k].expires <= now
PendingExpires == now + PendingTTL
Reserved(r) == [body |-> th[r].body, status |-> "pending", expires |-> PendingExpires]
Cleaned == [k \in Keys |-> IF Expired(k) THEN NoRecord ELSE records[k]]

\* What a key has executed no longer counts when its answer has expired.
Settled == [k \in Keys |->
  IF Cleaned[k] = NoRecord /\ records[k].status \in {"ok", "refused"}
  THEN 0 ELSE executed[k]]

\* Mutant: a reservation whose write is under way does not count.
TakenDone(k) == Cleaned[k].status \in {"ok", "refused"}

Taken(k) == Cleaned[k] # NoRecord

Reserve(r) ==
  /\ At(r, "reserve") /\ ~Taken(KeyOf(r))
  /\ records' = [Cleaned EXCEPT ![KeyOf(r)] = Reserved(r)]
  /\ executed' = Settled
  /\ th' = [th EXCEPT ![r].at = "decide", ![r].begun = now]
  /\ UNCHANGED <<now, bindings, control, writes, faults, crashes, answers,
                 broken, entitled>>

\* A repetition: refused with another body or while the first is under way,
\* otherwise answered from the record.
SameBody(record, body) == record.body = body

Repeat(r) ==
  /\ At(r, "reserve") /\ Taken(KeyOf(r))
  /\ records' = Cleaned /\ executed' = Settled
  /\ LET record == Cleaned[KeyOf(r)] IN
       IF SameBody(record, th[r].body) /\ record.status # "pending"
       THEN th' = [th EXCEPT ![r].at = "replayed", ![r].status = record.status]
            /\ UNCHANGED entitled
       ELSE Forget(r)
  /\ UNCHANGED <<now, bindings, control, writes, faults, crashes, answers, broken>>

\* The client has its cached answer.
ReadAnswer(r) ==
  /\ At(r, "replayed") /\ Forget(r)
  /\ UNCHANGED <<now, bindings, control, records, writes, faults, crashes,
                 executed, answers, broken>>

-----------------------------------------------------------------------------
(* The control service.                                                    *)

Refuse(r) == th' = [th EXCEPT ![r].at = "finish", ![r].status = "refused"]

\* A command of the room actor, which may find nothing to remove.
Ask(r) == Go(r, "act")

\* Every identity of an integration is a requester.
DecideAdd(r) ==
  /\ At(r, "decide") /\ Op(r) = "add"
  /\ Ask(r)
  /\ UNCHANGED <<now, bindings, control, records, writes, faults, crashes, history>>

\* The room removes the entry of its owner; for anybody else it answers that
\* the entry is not theirs, and controllers ask again.
DecideRemove(r) ==
  /\ At(r, "decide") /\ Op(r) = "remove"
  /\ IF Target(r) \notin entries THEN Refuse(r)
     ELSE IF Target(r) = th[r].who THEN Ask(r)
     ELSE Go(r, "require")
  /\ UNCHANGED <<now, bindings, control, records, writes, faults, crashes, history>>

DecideControl(r) ==
  /\ At(r, "decide") /\ Op(r) = "control"
  /\ Go(r, "require")
  /\ UNCHANGED <<now, bindings, control, records, writes, faults, crashes, history>>

DecideRadio(r) ==
  /\ At(r, "decide") /\ Op(r) = "radio"
  /\ IF Controls(th[r].who) THEN Ask(r) ELSE Go(r, "policy")
  /\ UNCHANGED <<now, bindings, control, records, writes, faults, crashes, history>>

\* The policy is read after the grant, and then the grant once more.
RadioPolicy(r) ==
  /\ At(r, "policy")
  /\ IF requesters THEN Ask(r) ELSE Go(r, "require")
  /\ UNCHANGED <<now, bindings, control, records, writes, faults, crashes, history>>

RequireController(r) ==
  /\ At(r, "require")
  /\ IF Controls(th[r].who) THEN Ask(r) ELSE Refuse(r)
  /\ UNCHANGED <<now, bindings, control, records, writes, faults, crashes, history>>

\* A grant that cannot be read, a provider or a queue that fails: an answer in
\* the 500s, which is not cached.
Fails(r) ==
  /\ th[r].at \in {"decide", "policy", "require", "act"} /\ Fault
  /\ Go(r, "drop")
  /\ UNCHANGED <<now, bindings, control, records, writes, crashes, history>>

Executed(r) ==
  /\ executed' = [executed EXCEPT ![KeyOf(r)] = @ + 1]
  /\ th' = [th EXCEPT ![r].at = "finish", ![r].status = "ok"]
  /\ UNCHANGED <<now, bindings, scenario, grants, requesters, records, writes,
                 faults, crashes, answers, broken, entitled>>

QueueAdd(r) ==
  /\ At(r, "act") /\ Op(r) = "add"
  /\ entries' = entries \cup {th[r].who}
  /\ Executed(r)

QueueRemove(r) ==
  /\ At(r, "act") /\ Op(r) = "remove" /\ Target(r) \in entries
  /\ entries' = entries \ {Target(r)}
  /\ Executed(r)

EntryNotFound(r) ==
  /\ At(r, "act") /\ Op(r) = "remove" /\ Target(r) \notin entries
  /\ Refuse(r)
  /\ UNCHANGED <<now, bindings, control, records, writes, faults, crashes, history>>

\* Clearing the queue stands for the commands of a controller.
QueueClear(r) ==
  /\ At(r, "act") /\ Op(r) = "control"
  /\ entries' = {}
  /\ Executed(r)

RadioCommand(r) ==
  /\ At(r, "act") /\ Op(r) = "radio"
  /\ UNCHANGED entries
  /\ Executed(r)

-----------------------------------------------------------------------------
(* The end of a write.                                                     *)

\* An answer below 500 is kept for CompleteTTL from the reservation.
KeptUntil(r) == th[r].begun + CompleteTTL

Complete(r) ==
  /\ At(r, "finish")
  /\ records' = [records EXCEPT ![KeyOf(r)] =
       IF @ = NoRecord THEN @ ELSE [@ EXCEPT !.status = th[r].status, !.expires = KeptUntil(r)]]
  /\ answers' = [answers EXCEPT ![KeyOf(r)] =
       [body |-> th[r].body, status |-> th[r].status, until |-> th[r].begun + CompleteTTL]]
  /\ Forget(r)
  /\ UNCHANGED <<now, bindings, control, writes, faults, crashes, executed, broken>>

\* The store refuses, or the client has gone and its context with it: the
\* record stays pending, whatever the command has done.
CompleteFails(r) ==
  /\ At(r, "finish") /\ Fault
  /\ broken' = broken \cup {KeyOf(r)}
  /\ Forget(r)
  /\ UNCHANGED <<now, bindings, control, records, writes, crashes, executed, answers>>

Drop(r) ==
  /\ At(r, "drop")
  /\ records' = [records EXCEPT ![KeyOf(r)] = NoRecord]
  /\ Forget(r)
  /\ UNCHANGED <<now, bindings, control, writes, faults, crashes, executed,
                 answers, broken>>

DropFails(r) ==
  /\ At(r, "drop") /\ Fault
  /\ Forget(r)
  /\ UNCHANGED <<now, bindings, control, records, writes, crashes, executed,
                 answers, broken>>

PruneIdempotency ==
  /\ records' = Cleaned /\ records' # records
  /\ executed' = Settled
  /\ UNCHANGED <<now, bindings, control, th, writes, faults, crashes, answers,
                 broken, entitled>>

Crash ==
  /\ crashes < MaxCrashes /\ crashes' = crashes + 1
  /\ broken' = broken \cup {KeyOf(r) : r \in {q \in Requests : At(q, "finish")}}
  /\ th' = [r \in Requests |-> Home] /\ entitled' = {}
  /\ unlinking' = NoUnlink
  /\ UNCHANGED <<now, codes, issued, links, latest, vouched, redeemed, control,
                 records, writes, faults, executed, answers>>

\* A command takes less than PendingTTL (5 minutes).
Tick ==
  /\ now < MaxTime /\ now' = now + 1
  /\ \A r \in Requests : th[r].at \in {"home", "reserve"}
  /\ UNCHANGED <<bindings, control, records, th, writes, faults, crashes, history>>

Rebind ==
  /\ \/ "codes" \in scenario /\ Coding
     \/ "rebind" \in scenario /\ Rebinding
  /\ UNCHANGED <<now, control, records, th, writes, faults, crashes, history>>

Next ==
  \/ \E r \in Requests :
       \/ \E s \in Subjects, c \in Commands : \E b \in BodiesOf(c) :
            Resolve(r, s, c, b)
       \/ Reserve(r) \/ Repeat(r) \/ ReadAnswer(r)
       \/ DecideAdd(r) \/ DecideRemove(r) \/ DecideControl(r) \/ DecideRadio(r)
       \/ RadioPolicy(r) \/ RequireController(r) \/ Fails(r)
       \/ QueueAdd(r) \/ QueueRemove(r) \/ EntryNotFound(r) \/ QueueClear(r)
       \/ RadioCommand(r)
       \/ Complete(r) \/ CompleteFails(r) \/ Drop(r) \/ DropFails(r)
  \/ \E p \in Principals : Grant(p) \/ RevokeGrant(p)
  \/ \E open \in BOOLEAN : SetPolicy(open)
  \/ PruneIdempotency \/ Crash \/ Tick \/ Rebind

Spec == Init /\ [][Next]_vars

-----------------------------------------------------------------------------
(* Properties.                                                             *)

\* An answer that a client has under a key is replayed for CompleteTTL, to the
\* same body only and never as anything else.
AnswersKept ==
  /\ \A k \in Keys : now < answers[k].until =>
       records[k].body = answers[k].body /\ records[k].status = answers[k].status
  /\ \A r \in Requests : At(r, "replayed") =>
       answers[KeyOf(r)].body = th[r].body /\ answers[KeyOf(r)].status = th[r].status

\* A repeated or concurrent write under one key is executed once until its
\* answer expires, unless the answer could not be recorded; and the answer that a
\* client has is the one every repetition gets.
RunsOnce ==
  /\ \A k \in Keys \ broken : executed[k] <= 1
  /\ AnswersKept

\* The same without that exception, as the specification of the project
\* words it.
AtMostOnce == \A k \in Keys : executed[k] <= 1

\* The room is asked to do only what the identity of the request had the right
\* to at some moment since its session was resolved, whatever is granted,
\* revoked, linked and unlinked meanwhile.
OnlyEntitled == \A r \in Requests : At(r, "act") => r \in entitled
=============================================================================

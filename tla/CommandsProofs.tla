---------------------------- MODULE CommandsProofs ----------------------------
(***************************************************************************)
(* The three invariants of Commands and Bindings for any number of         *)
(* requests, keys, codes, faults and crashes.  A write that was reserved   *)
(* has its record to itself until it is answered, because no command takes *)
(* as long as PendingTTL; a code has one redeemer because its identifier   *)
(* is never used again; and a right is looked up after it was entered      *)
(* among those the request had.                                            *)
(***************************************************************************)
EXTENDS Commands, TLAPS

Places == {"reserve", "decide", "policy", "require", "act", "finish", "drop", "replayed"}
Request == [at : Places, who : Identities, command : Commands, body : Bodies \cup {NoOne},
            begun : Nat, status : {"none", "ok", "refused"}]
Record == [body : Bodies \cup {NoOne}, status : {"none", "pending", "ok", "refused"},
           expires : Nat]
Answers == [body : Bodies \cup {NoOne}, status : {"none", "ok", "refused"}, until : Nat]

BindingsType ==
  /\ codes \in [CodeIds -> [owner : {NoOne} \cup Principals, expires : Nat,
                            consumed : {NoOne} \cup Subjects]]
  /\ issued \in Nat
  /\ links \in [Subjects -> {NoOne} \cup Principals]
  /\ unlinking \in [subject : {NoOne} \cup Subjects, principal : {NoOne} \cup Principals]
  /\ latest \in [Principals -> [code : Nat, expires : Nat]]
  /\ vouched \in [Subjects -> {NoOne} \cup Principals]
  /\ redeemed \subseteq CodeIds \X Subjects

TypeOK ==
  /\ now \in Nat /\ BindingsType
  /\ records \in [Keys -> Record] /\ answers \in [Keys -> Answers]
  /\ executed \in [Keys -> Nat]
  /\ th \in [Requests -> {Home} \cup Request]

\* A code that exists is the latest of its principal, and what was redeemed is
\* remembered by the code as long as it exists.
CodeInv ==
  /\ \A i \in CodeIds : codes[i] # NoCode =>
       /\ i <= issued /\ codes[i].owner \in Principals
       /\ latest[codes[i].owner].code = i
       /\ latest[codes[i].owner].expires = codes[i].expires
  /\ \A a \in redeemed : a[1] <= issued /\ (codes[a[1]] = NoCode \/ codes[a[1]].consumed = a[2])
  /\ CodeServesOne

\* A right that a request has now is among those it had.
RightInv ==
  /\ \A r \in Requests :
       th[r].at # "home" /\ Rightful(th[r].command, th[r].who, grants, requesters) => r \in entitled
  /\ \A r \in Requests : th[r].at = "policy" => Op(r) = "radio"
  /\ OnlyEntitled

\* A request that has reserved its key and is not yet answered.
Working == {"decide", "policy", "require", "act", "finish", "drop"}
Works(r) == th[r].at \in Working

\* It has the record of its key to itself.
OwnInv ==
  /\ \A r \in Requests : Works(r) =>
       /\ records[KeyOf(r)].body = th[r].body /\ records[KeyOf(r)].status = "pending"
       /\ records[KeyOf(r)].expires > now
  /\ \A r, q \in Requests : r # q /\ Works(r) /\ Works(q) => KeyOf(r) # KeyOf(q)
  /\ \A r \in Requests : th[r].at = "finish" => th[r].status \in {"ok", "refused"}

\* A record that was completed is the answer that was given.
AnswerKept(k) ==
  /\ records[k].status = "none" => records[k] = NoRecord
  /\ records[k].status \in {"ok", "refused"} =>
       /\ answers[k].body = records[k].body /\ answers[k].status = records[k].status
       /\ answers[k].until = records[k].expires
  /\ now < answers[k].until =>
       /\ records[k].body = answers[k].body /\ records[k].status = answers[k].status
       /\ records[k].status \in {"ok", "refused"}

Replays(r) ==
  th[r].at = "replayed" =>
    /\ records[KeyOf(r)].body = th[r].body /\ records[KeyOf(r)].status = th[r].status
    /\ th[r].status \in {"ok", "refused"} /\ records[KeyOf(r)].expires > now

RecordInv ==
  /\ \A k \in Keys : AnswerKept(k)
  /\ \A r \in Requests : Replays(r)

\* What a key has executed is recorded under it or about to be.
Counted(k) ==
  /\ executed[k] <= 1
  /\ \/ executed[k] = 0
     \/ records[k].status \in {"ok", "refused"}
     \/ \E r \in Requests : th[r].at = "finish" /\ KeyOf(r) = k
CountInv == \A k \in Keys \ broken : Counted(k)
-----------------------------------------------------------------------------
(* Binding codes.                                                          *)
LEMMA InitCodes == Init => BindingsType /\ CodeInv
<1> SUFFICES ASSUME Init PROVE BindingsType /\ CodeInv
  OBVIOUS
<1>1. BindingsType
  BY DEF Init, BindingsInit, BindingsType, NoCode, NoUnlink
<1>2. CodeInv
  BY DEF Init, BindingsInit, CodeInv, CodeServesOne, LinksVouched
<1>3. QED
  BY <1>1, <1>2

LEMMA IssueCode ==
  ASSUME BindingsType, CodeInv, now \in Nat, NEW p \in Principals, Issue(p)
  PROVE  BindingsType' /\ CodeInv'
<1>1. /\ issued' = issued + 1 /\ issued' \in CodeIds /\ issued \in Nat
  <2>1. MaxCodes \in Nat
    BY BindingsAssumption
  <2>2. QED
    BY <2>1 DEF Issue, BindingsType, CodeIds
<1> DEFINE n == issued'
<1>2. /\ now + CodeTTL \in Nat /\ CodeTTL \in Nat
  BY BindingsAssumption
<1>3. codes' = [Without(p) EXCEPT ![n] = NewCode(p)]
  BY DEF Issue
<1>4. /\ codes'[n] = NewCode(p)
      /\ \A i \in CodeIds : i # n => codes'[i] = IF codes[i].owner = p THEN NoCode ELSE codes[i]
  BY <1>1, <1>3 DEF Without
<1>5. codes' \in [CodeIds -> [owner : {NoOne} \cup Principals, expires : Nat,
                            consumed : {NoOne} \cup Subjects]]
  BY <1>1, <1>2, <1>3 DEF BindingsType, Without, NewCode, NoCode
<1>6. latest' = [latest EXCEPT ![p] = [code |-> n, expires |-> now + CodeTTL]]
  BY DEF Issue
<1>7. UNCHANGED <<links, unlinking, vouched, redeemed>>
  BY DEF Issue
<1> HIDE DEF n
<1>8. BindingsType'
  <2>1. latest' \in [Principals -> [code : Nat, expires : Nat]] /\ issued' \in Nat
    BY <1>1, <1>2, <1>6 DEF BindingsType, n
  <2>2. QED
    BY <1>5, <1>7, <2>1 DEF BindingsType
<1>9. ASSUME NEW i \in CodeIds, codes'[i] # NoCode
      PROVE  /\ i <= issued' /\ codes'[i].owner \in Principals
             /\ latest'[codes'[i].owner].code = i
             /\ latest'[codes'[i].owner].expires = codes'[i].expires
  <2>1. CASE i = n
    BY <1>1, <1>4, <1>6, <2>1 DEF NewCode, n, BindingsType, CodeIds
  <2>2. CASE i # n
    <3>1. codes'[i] = codes[i] /\ codes[i].owner # p /\ codes[i] # NoCode
      BY <1>4, <1>9, <2>2
    <3> PICK o \in Principals : o = codes[i].owner
      BY <3>1 DEF CodeInv
    <3>2. i <= issued /\ latest[o].code = i /\ latest[o].expires = codes[i].expires
      BY <3>1 DEF CodeInv
    <3>3. latest'[o] = latest[o]
      BY <1>6, <3>1 DEF BindingsType
    <3>4. i <= issued'
      BY <1>1, <3>2 DEF CodeIds
    <3>5. QED
      BY <3>1, <3>2, <3>3, <3>4
  <2>3. QED
    BY <2>1, <2>2
<1>10. ASSUME NEW a \in redeemed'
       PROVE  a[1] <= issued' /\ (codes'[a[1]] = NoCode \/ codes'[a[1]].consumed = a[2])
  <2>1. a \in redeemed /\ a[1] \in CodeIds /\ a[1] <= issued
    BY <1>7, <1>10 DEF BindingsType, CodeInv
  <2>2. a[1] # n /\ a[1] <= issued'
    BY <1>1, <2>1 DEF n, CodeIds
  <2>3. QED
    BY <1>4, <2>1, <2>2 DEF CodeInv
<1>11. CodeServesOne'
  BY <1>7 DEF CodeInv, CodeServesOne, LinksVouched
<1>12. QED
  BY <1>8, <1>9, <1>10, <1>11 DEF CodeInv

LEMMA ConsumeCode ==
  ASSUME BindingsType, CodeInv, NEW i \in CodeIds, NEW s \in Subjects, Consume(i, s)
  PROVE  BindingsType' /\ CodeInv'
<1>1. /\ codes[i] # NoCode /\ now < codes[i].expires /\ codes[i].consumed = NoOne
      /\ codes' = [codes EXCEPT ![i].consumed = s]
      /\ UNCHANGED <<issued, unlinking, latest>>
  BY DEF Consume, Live
<1> PICK o \in Principals : o = codes[i].owner
  BY <1>1 DEF CodeInv
<1>2. latest[o].code = i /\ now < latest[o].expires
  BY <1>1 DEF CodeInv
<1>3. /\ links' = [links EXCEPT ![s] = IF @ = NoOne THEN o ELSE @]
      /\ vouched' = [vouched EXCEPT ![s] = IF @ = NoOne THEN o ELSE @]
  BY <1>2 DEF Consume
<1>4. redeemed' = redeemed \/ redeemed' = redeemed \cup {<<i, s>>}
  BY DEF Consume, Answered
<1>5. s # NoOne
  BY BindingsAssumption
<1>6. \A a \in redeemed : a[1] \in CodeIds /\ a[2] \in Subjects /\ a[1] # i
  BY <1>1, <1>5, BindingsAssumption DEF BindingsType, CodeInv
<1>7. /\ codes'[i].consumed = s /\ codes'[i].owner = o /\ codes'[i].expires = codes[i].expires
      /\ \A j \in CodeIds : j # i => codes'[j] = codes[j]
  BY <1>1 DEF BindingsType
<1>8. BindingsType'
  <2>1. codes' \in [CodeIds -> [owner : {NoOne} \cup Principals, expires : Nat,
                              consumed : {NoOne} \cup Subjects]]
    BY <1>1 DEF BindingsType
  <2>2. QED
    BY <1>1, <1>3, <1>4, <2>1 DEF BindingsType
<1>9. ASSUME NEW j \in CodeIds, codes'[j] # NoCode
      PROVE  /\ j <= issued' /\ codes'[j].owner \in Principals
             /\ latest'[codes'[j].owner].code = j
             /\ latest'[codes'[j].owner].expires = codes'[j].expires
  <2>1. CASE j = i
    BY <1>1, <1>7, <2>1 DEF CodeInv
  <2>2. CASE j # i
    BY <1>1, <1>7, <1>9, <2>2 DEF CodeInv
  <2>3. QED
    BY <2>1, <2>2
<1>10. ASSUME NEW a \in redeemed'
       PROVE  a[1] <= issued' /\ (codes'[a[1]] = NoCode \/ codes'[a[1]].consumed = a[2])
  <2>1. CASE a \in redeemed
    BY <1>1, <1>6, <1>7, <2>1 DEF CodeInv
  <2>2. CASE a = <<i, s>>
    BY <1>1, <1>7, <2>2 DEF CodeInv
  <2>3. QED
    BY <1>4, <1>10, <2>1, <2>2
<1>11. CodeServesOne'
  <2>1. \A a, b \in redeemed' : a[1] = b[1] => a[2] = b[2]
    BY <1>4, <1>6 DEF CodeInv, CodeServesOne
  <2>2. QED
    BY <1>3, <2>1 DEF CodeInv, CodeServesOne, LinksVouched
<1>12. QED
  BY <1>8, <1>9, <1>10, <1>11 DEF CodeInv

LEMMA ReplayCode ==
  ASSUME BindingsType, CodeInv, NEW i \in CodeIds, NEW s \in Subjects, Replay(i, s)
  PROVE  BindingsType' /\ CodeInv'
<1>1. /\ codes[i] # NoCode /\ codes[i].consumed = s /\ redeemed' = redeemed \cup {<<i, s>>}
      /\ UNCHANGED <<codes, issued, links, unlinking, latest, vouched>>
  BY DEF Replay, Live, Replayed, Answered
<1>2. BindingsType'
  BY <1>1 DEF BindingsType
<1>3. \A a \in redeemed' :
        a[1] <= issued /\ (codes[a[1]] = NoCode \/ codes[a[1]].consumed = a[2])
  BY <1>1 DEF CodeInv
<1>4. \A a \in redeemed : a[1] = i => a[2] = s
  BY <1>1 DEF CodeInv
<1>5. \A a, b \in redeemed' : a[1] = b[1] => a[2] = b[2]
  BY <1>1, <1>4 DEF CodeInv, CodeServesOne
<1>6. QED
  BY <1>1, <1>2, <1>3, <1>5 DEF CodeInv, CodeServesOne, LinksVouched

LEMMA PruneCodesStep ==
  ASSUME BindingsType, CodeInv, PruneCodes
  PROVE  BindingsType' /\ CodeInv'
<1>1. /\ \A i \in CodeIds : codes'[i] = NoCode \/ codes'[i] = codes[i]
      /\ UNCHANGED <<issued, links, unlinking, latest, vouched, redeemed>>
  BY DEF PruneCodes
<1>2. BindingsType'
  BY <1>1 DEF BindingsType, PruneCodes, NoCode
<1>3. QED
  BY <1>1, <1>2 DEF CodeInv, CodeServesOne, LinksVouched, BindingsType

LEMMA RebindingStep ==
  ASSUME BindingsType, CodeInv, Rebinding
  PROVE  BindingsType' /\ CodeInv'
<1>1. UNCHANGED <<codes, issued, latest, redeemed>>
  BY DEF Rebinding, Link, ReadLink, Unlink
<1>2. /\ links' \in [Subjects -> {NoOne} \cup Principals]
      /\ vouched' \in [Subjects -> {NoOne} \cup Principals]
      /\ unlinking' \in [subject : {NoOne} \cup Subjects, principal : {NoOne} \cup Principals]
  BY DEF Rebinding, Link, ReadLink, Unlink, BindingsType, NoUnlink
<1>3. LinksVouched'
  BY DEF Rebinding, Link, ReadLink, Unlink, BindingsType, CodeInv, CodeServesOne, LinksVouched
<1>4. QED
  BY <1>1, <1>2, <1>3 DEF BindingsType, CodeInv, CodeServesOne

LEMMA RebindStep ==
  ASSUME BindingsType, CodeInv, now \in Nat, Rebind
  PROVE  BindingsType' /\ CodeInv'
  BY IssueCode, ConsumeCode, ReplayCode, PruneCodesStep, RebindingStep DEF Rebind, Coding

\* Requests leave the bindings alone, a crash only forgets a removal of a link
\* that is under way; and what could not be recorded stays so.
LEMMA WhatStays ==
  ASSUME Next
  PROVE  /\ \/ Rebind
            \/ /\ UNCHANGED <<codes, issued, links, latest, vouched, redeemed>>
               /\ unlinking' = unlinking \/ unlinking' = NoUnlink
         /\ broken \subseteq broken'
<1> DEFINE Stays == /\ \/ Rebind
                       \/ /\ UNCHANGED <<codes, issued, links, latest, vouched, redeemed>>
                          /\ unlinking' = unlinking \/ unlinking' = NoUnlink
                    /\ broken \subseteq broken'
<1>1. ASSUME UNCHANGED bindings, broken \subseteq broken' PROVE Stays
  BY <1>1 DEF bindings
<1>2. Rebind => Stays
  BY DEF Rebind, history
<1>3. Crash => Stays
  BY DEF Crash
<1> HIDE DEF Stays
<1>4. ASSUME NEW r \in Requests, NEW s \in Subjects, NEW c \in Commands, NEW b \in BodiesOf(c),
             Resolve(r, s, c, b)
      PROVE  Stays
  BY <1>1, <1>4 DEF Resolve
<1>5. ASSUME NEW r \in Requests,
             \/ DecideAdd(r) \/ DecideRemove(r) \/ DecideControl(r) \/ DecideRadio(r)
             \/ RadioPolicy(r) \/ RequireController(r) \/ Fails(r) \/ EntryNotFound(r)
      PROVE  Stays
  <2>1. UNCHANGED <<bindings, history>>
    BY <1>5 DEF DecideAdd, DecideRemove, DecideControl, DecideRadio, RadioPolicy,
       RequireController, Fails, EntryNotFound
  <2> QED BY <1>1, <2>1 DEF history
<1>6. ASSUME NEW r \in Requests, QueueAdd(r) \/ QueueRemove(r) \/ QueueClear(r) \/ RadioCommand(r)
      PROVE  Stays
  <2>1. Executed(r)
    BY <1>6 DEF QueueAdd, QueueRemove, QueueClear, RadioCommand
  <2> QED BY <1>1, <2>1 DEF Executed
<1>7. ASSUME NEW r \in Requests, Reserve(r) \/ Repeat(r) \/ ReadAnswer(r)
      PROVE  Stays
  <2>1. UNCHANGED <<bindings, broken>>
    BY <1>7 DEF Reserve, Repeat, ReadAnswer
  <2> QED BY <1>1, <2>1
<1>8. ASSUME NEW r \in Requests, Complete(r) \/ CompleteFails(r) \/ Drop(r) \/ DropFails(r)
      PROVE  Stays
  <2>1. UNCHANGED bindings /\ broken \subseteq broken'
    BY <1>8 DEF Complete, CompleteFails, Drop, DropFails
  <2> QED BY <1>1, <2>1
<1>9. ASSUME \/ \E p \in Principals : Grant(p) \/ RevokeGrant(p)
             \/ \E open \in BOOLEAN : SetPolicy(open)
             \/ PruneIdempotency \/ Tick
      PROVE  Stays
  <2>1. UNCHANGED <<bindings, broken>>
    BY <1>9 DEF Grant, RevokeGrant, SetPolicy, PruneIdempotency, Tick, history
  <2> QED BY <1>1, <2>1
<1>10. Stays
  BY <1>2, <1>3, <1>4, <1>5, <1>6, <1>7, <1>8, <1>9 DEF Next
<1> QED BY <1>10 DEF Stays

\* What writes a record, an answer or the clock.
LEMMA RecordsStay ==
  ASSUME Next
  PROVE  \/ \E r \in Requests : Reserve(r) \/ Repeat(r) \/ Complete(r) \/ Drop(r)
         \/ PruneIdempotency \/ Tick \/ UNCHANGED <<records, answers, now>>
<1> DEFINE Marks == \/ \E r \in Requests : Reserve(r) \/ Repeat(r) \/ Complete(r) \/ Drop(r)
                    \/ PruneIdempotency \/ Tick
           Stays == UNCHANGED <<records, answers, now>>
<1>1. ASSUME UNCHANGED records, UNCHANGED answers, UNCHANGED now PROVE Stays
  BY <1>1
<1>2. Rebind \/ Crash => Stays
  BY DEF Rebind, Crash, history
<1>3. ASSUME NEW r \in Requests, Reserve(r) \/ Repeat(r) \/ Complete(r) \/ Drop(r) PROVE Marks
  BY <1>3
<1>4. PruneIdempotency \/ Tick => Marks
  OBVIOUS
<1> HIDE DEF Marks, Stays
<1>5. ASSUME NEW r \in Requests, NEW s \in Subjects, NEW c \in Commands, NEW b \in BodiesOf(c),
             Resolve(r, s, c, b)
      PROVE  Stays
  BY <1>1, <1>5 DEF Resolve, history
<1>6. ASSUME NEW r \in Requests,
             \/ DecideAdd(r) \/ DecideRemove(r) \/ DecideControl(r) \/ DecideRadio(r)
             \/ RadioPolicy(r) \/ RequireController(r) \/ Fails(r) \/ EntryNotFound(r)
      PROVE  Stays
  <2>1. UNCHANGED <<history, records, now>>
    BY <1>6 DEF DecideAdd, DecideRemove, DecideControl, DecideRadio, RadioPolicy,
       RequireController, Fails, EntryNotFound
  <2> QED BY <1>1, <2>1 DEF history
<1>7. ASSUME NEW r \in Requests, QueueAdd(r) \/ QueueRemove(r) \/ QueueClear(r) \/ RadioCommand(r)
      PROVE  Stays
  <2>1. Executed(r)
    BY <1>7 DEF QueueAdd, QueueRemove, QueueClear, RadioCommand
  <2> QED BY <1>1, <2>1 DEF Executed
<1>8. ASSUME NEW r \in Requests, ReadAnswer(r) \/ CompleteFails(r) \/ DropFails(r)
      PROVE  Stays
  BY <1>1, <1>8 DEF ReadAnswer, CompleteFails, DropFails, history
<1>9. ASSUME \/ \E p \in Principals : Grant(p) \/ RevokeGrant(p)
             \/ \E open \in BOOLEAN : SetPolicy(open)
      PROVE  Stays
  BY <1>1, <1>9 DEF Grant, RevokeGrant, SetPolicy, history
<1>10. Marks \/ Stays
  BY <1>2, <1>3, <1>4, <1>5, <1>6, <1>7, <1>8, <1>9 DEF Next
<1> QED BY <1>10 DEF Marks, Stays

LEMMA BindingsFrame ==
  ASSUME Next, ~Rebind, BindingsType, CodeInv
  PROVE  BindingsType' /\ CodeInv'
<1>1. UNCHANGED <<codes, issued, links, latest, vouched, redeemed>>
      /\ (unlinking' = unlinking \/ unlinking' = NoUnlink)
  BY WhatStays
<1>2. QED
  BY <1>1 DEF BindingsType, CodeInv, CodeServesOne, LinksVouched, NoUnlink
-----------------------------------------------------------------------------
(* The steps of one request.                                               *)
Alone(r) == \A q \in Requests : q # r => th'[q] = th[q]

LEMMA Moved ==
  ASSUME TypeOK, NEW r \in Requests, NEW s \in {Home} \cup Request, th' = [th EXCEPT ![r] = s]
  PROVE  th' \in [Requests -> {Home} \cup Request] /\ Alone(r) /\ th'[r] = s
  BY DEF TypeOK, Alone

\* A request that is somewhere has all its fields.
LEMMA Busy ==
  ASSUME TypeOK, NEW r \in Requests, th[r].at # "home"
  PROVE  /\ th[r] \in Request /\ KeyOf(r) \in Keys
         /\ th[r].body \in Bodies \cup {NoOne} /\ th[r].begun \in Nat
         /\ th[r].status \in {"none", "ok", "refused"}
<1>1. th[r] \in Request
  BY DEF TypeOK, Home
<1>2. QED
  BY <1>1 DEF Request, KeyOf, Keys

LEMMA WorksBusy ==
  ASSUME TypeOK, NEW r \in Requests, Works(r)
  PROVE  th[r].at # "home" /\ KeyOf(r) \in Keys
  BY Busy DEF Works, Working

LEMMA IdentityType ==
  ASSUME TypeOK, NEW s \in Subjects
  PROVE  Identity(s) \in Identities
  BY DEF TypeOK, BindingsType, Identity, Identities

LEMMA ResolveMoves ==
  ASSUME TypeOK, NEW r \in Requests, NEW s \in Subjects, NEW c \in Commands,
         NEW b \in BodiesOf(c), Resolve(r, s, c, b)
  PROVE  /\ th' \in [Requests -> {Home} \cup Request] /\ Alone(r)
         /\ th[r].at = "home" /\ th'[r].at = "reserve"
         /\ th'[r].command = c /\ th'[r].who = Identity(s)
<1> DEFINE new == [at |-> "reserve", who |-> Identity(s), command |-> c, body |-> b,
                   begun |-> now, status |-> "none"]
<1>1. new \in Request
  <2>1. b \in Bodies \cup {NoOne} /\ now \in Nat
    BY DEF BodiesOf, TypeOK
  <2>2. QED
    BY <2>1, IdentityType DEF Request, Places
<1>2. th' = [th EXCEPT ![r] = new] /\ th[r].at = "home"
  BY DEF Resolve, At
<1>3. new.at = "reserve" /\ new.command = c /\ new.who = Identity(s)
  OBVIOUS
<1> HIDE DEF new
<1>4. QED
  BY <1>1, <1>2, <1>3, Moved

\* What a request keeps on its way.
Keeps(r) == /\ th'[r].who = th[r].who /\ th'[r].command = th[r].command
            /\ th'[r].body = th[r].body

LEMMA GoMoves ==
  ASSUME TypeOK, NEW r \in Requests, th[r].at # "home", NEW place \in Places,
         NEW status \in {"none", "ok", "refused"}, NEW begun \in Nat,
         th' = [th EXCEPT ![r] = [th[r] EXCEPT !.at = place, !.status = status, !.begun = begun]]
  PROVE  /\ th' \in [Requests -> {Home} \cup Request] /\ Alone(r) /\ Keeps(r)
         /\ th'[r].at = place /\ th'[r].status = status
<1> DEFINE new == [th[r] EXCEPT !.at = place, !.status = status, !.begun = begun]
<1>1. th[r] \in Request
  BY Busy
<1>2. /\ new \in Request /\ new.at = place /\ new.status = status /\ new.who = th[r].who
      /\ new.command = th[r].command /\ new.body = th[r].body
  BY <1>1 DEF Request
<1>3. th' = [th EXCEPT ![r] = new]
  OBVIOUS
<1> HIDE DEF new
<1>4. QED
  BY <1>2, <1>3, Moved DEF Keeps

LEMMA GoStep ==
  ASSUME TypeOK, NEW r \in Requests, th[r].at # "home", NEW place \in Places, Go(r, place)
  PROVE  /\ th' \in [Requests -> {Home} \cup Request] /\ Alone(r) /\ Keeps(r)
         /\ th'[r].at = place /\ th'[r].status = th[r].status
<1>1. th[r] \in Request
  BY Busy
<1>2. [th[r] EXCEPT !.at = place] =
        [th[r] EXCEPT !.at = place, !.status = th[r].status, !.begun = th[r].begun]
  BY <1>1 DEF Request
<1>3. th' = [th EXCEPT ![r] = [th[r] EXCEPT !.at = place]]
  BY DEF Go, TypeOK
<1>4. th[r].status \in {"none", "ok", "refused"} /\ th[r].begun \in Nat
  BY Busy
<1>5. th' = [th EXCEPT ![r] =
              [th[r] EXCEPT !.at = place, !.status = th[r].status, !.begun = th[r].begun]]
  BY <1>2, <1>3
<1>6. QED
  BY <1>4, <1>5, GoMoves

Finishes(r, place, status) == th' = [th EXCEPT ![r].at = place, ![r].status = status]

LEMMA FinishStep ==
  ASSUME TypeOK, NEW r \in Requests, th[r].at # "home", NEW place \in Places,
         NEW status \in {"none", "ok", "refused"}, Finishes(r, place, status)
  PROVE  /\ th' \in [Requests -> {Home} \cup Request] /\ Alone(r) /\ Keeps(r)
         /\ th'[r].at = place /\ th'[r].status = status
<1>1. th[r] \in Request
  BY Busy
<1>2. [th[r] EXCEPT !.at = place, !.status = status] =
        [th[r] EXCEPT !.at = place, !.status = status, !.begun = th[r].begun]
  BY <1>1 DEF Request
<1>3. th' = [th EXCEPT ![r] = [th[r] EXCEPT !.at = place, !.status = status]]
  BY DEF TypeOK, Finishes
<1>4. PICK begun \in Nat : begun = th[r].begun
  BY Busy
<1>5. th' = [th EXCEPT ![r] =
              [th[r] EXCEPT !.at = place, !.status = status, !.begun = begun]]
  BY <1>2, <1>3, <1>4
<1>6. QED
  BY <1>5, GoMoves

LEMMA ReserveMoves ==
  ASSUME TypeOK, NEW r \in Requests, Reserve(r)
  PROVE  /\ th' \in [Requests -> {Home} \cup Request] /\ Alone(r) /\ Keeps(r)
         /\ th[r].at = "reserve" /\ th'[r].at = "decide"
<1>1. th[r].at = "reserve" /\ now \in Nat
  BY DEF Reserve, At, TypeOK
<1>2. th[r] \in Request
  BY <1>1, Busy
<1>3. [th[r] EXCEPT !.at = "decide", !.begun = now] =
        [th[r] EXCEPT !.at = "decide", !.status = th[r].status, !.begun = now]
  BY <1>2 DEF Request
<1>4. th' = [th EXCEPT ![r] = [th[r] EXCEPT !.at = "decide", !.begun = now]]
  BY DEF Reserve, TypeOK
<1>5. QED
  BY <1>1, <1>3, <1>4, Busy, GoMoves DEF Places

LEMMA ForgetMoves ==
  ASSUME TypeOK, NEW r \in Requests, Forget(r)
  PROVE  /\ th' \in [Requests -> {Home} \cup Request] /\ Alone(r) /\ th'[r].at = "home"
<1>1. th' = [th EXCEPT ![r] = Home]
  BY DEF Forget
<1>2. QED
  BY <1>1, Moved DEF Home

\* Between its reservation and its end a request changes no record.
Proceeds(r) ==
  /\ Alone(r) /\ Keeps(r)
  /\ th[r].at \in {"decide", "policy", "require", "act"}
  /\ th'[r].at \in {"policy", "require", "act", "finish", "drop"}
  /\ th'[r].at = "finish" => th'[r].status \in {"ok", "refused"}
  /\ th'[r].at = "policy" => th[r].command[1] = "radio"
  /\ th'[r].at = "act" => \/ th[r].command[1] = "add" \/ th[r].command[2] = th[r].who
                          \/ th[r].who \in grants
                          \/ th[r].at = "policy" /\ requesters
  /\ \/ executed' = executed
     \/ th'[r].at = "finish" /\ executed' = [executed EXCEPT ![KeyOf(r)] = @ + 1]
  /\ UNCHANGED <<now, grants, requesters, records, answers, broken, entitled>>

Deciding(r) ==
  \/ DecideAdd(r) \/ DecideRemove(r) \/ DecideControl(r) \/ DecideRadio(r)
  \/ RadioPolicy(r) \/ RequireController(r) \/ Fails(r)
Acting(r) ==
  \/ QueueAdd(r) \/ QueueRemove(r) \/ EntryNotFound(r) \/ QueueClear(r) \/ RadioCommand(r)

LEMMA DecidingProceeds ==
  ASSUME TypeOK, NEW r \in Requests, Deciding(r)
  PROVE  Proceeds(r) /\ th' \in [Requests -> {Home} \cup Request]
<1>1. /\ th[r].at \in {"decide", "policy", "require", "act"} /\ th[r].at # "home"
      /\ UNCHANGED <<now, grants, requesters, records, answers, broken, entitled, executed>>
  BY DEF Deciding, DecideAdd, DecideRemove, DecideControl, DecideRadio, RadioPolicy,
         RequireController, Fails, At, control, history
<1>2. \/ Refuse(r)
      \/ \E place \in {"policy", "require", "act", "drop"} :
           /\ Go(r, place)
           /\ place = "policy" => th[r].command[1] = "radio"
           /\ place = "act" => \/ th[r].command[1] = "add" \/ th[r].command[2] = th[r].who
                               \/ th[r].who \in grants
                               \/ th[r].at = "policy" /\ requesters
  BY DEF Deciding, DecideAdd, DecideRemove, DecideControl, DecideRadio, RadioPolicy,
         RequireController, Fails, At, Ask, Op, Target, Controls
<1>3. CASE Refuse(r)
  <2>1. th' \in [Requests -> {Home} \cup Request] /\ Alone(r) /\ Keeps(r)
        /\ th'[r].at = "finish" /\ th'[r].status = "refused"
    BY <1>1, <1>3, FinishStep DEF Refuse, Finishes, Places
  <2>2. QED
    BY <1>1, <2>1 DEF Proceeds
<1>4. ASSUME NEW place \in {"policy", "require", "act", "drop"}, Go(r, place),
             place = "policy" => th[r].command[1] = "radio",
             place = "act" => \/ th[r].command[1] = "add" \/ th[r].command[2] = th[r].who
                              \/ th[r].who \in grants
                              \/ th[r].at = "policy" /\ requesters
      PROVE  Proceeds(r) /\ th' \in [Requests -> {Home} \cup Request]
  <2>1. th' \in [Requests -> {Home} \cup Request] /\ Alone(r) /\ Keeps(r) /\ th'[r].at = place
    BY <1>1, <1>4, GoStep DEF Places
  <2>2. QED
    BY <1>1, <1>4, <2>1 DEF Proceeds
<1>5. QED
  BY <1>2, <1>3, <1>4

LEMMA ActingProceeds ==
  ASSUME TypeOK, NEW r \in Requests, Acting(r)
  PROVE  Proceeds(r) /\ th' \in [Requests -> {Home} \cup Request]
<1>1. /\ th[r].at = "act"
      /\ UNCHANGED <<now, grants, requesters, records, answers, broken, entitled>>
  BY DEF Acting, QueueAdd, QueueRemove, EntryNotFound, QueueClear, RadioCommand, Executed,
         At, control, history
<1>2. \E status \in {"ok", "refused"} :
        /\ th' = [th EXCEPT ![r].at = "finish", ![r].status = status]
        /\ executed' = executed \/ executed' = [executed EXCEPT ![KeyOf(r)] = @ + 1]
  BY DEF Acting, QueueAdd, QueueRemove, EntryNotFound, QueueClear, RadioCommand, Executed,
         Refuse, history
<1>3. PICK status \in {"ok", "refused"} :
        /\ th' = [th EXCEPT ![r].at = "finish", ![r].status = status]
        /\ executed' = executed \/ executed' = [executed EXCEPT ![KeyOf(r)] = @ + 1]
  BY <1>2
<1>4. /\ th' \in [Requests -> {Home} \cup Request] /\ Alone(r) /\ Keeps(r)
      /\ th'[r].at = "finish" /\ th'[r].status = status
  BY <1>1, <1>3, FinishStep DEF Finishes, Places
<1>5. QED
  BY <1>1, <1>3, <1>4 DEF Proceeds
-----------------------------------------------------------------------------
(* Types.                                                                  *)
LEMMA CleanedType ==
  ASSUME TypeOK
  PROVE  /\ Cleaned \in [Keys -> Record] /\ NoRecord \in Record
         /\ Settled \in [Keys -> Nat]
         /\ \A k \in Keys : Cleaned[k] = NoRecord \/ (Cleaned[k] = records[k] /\ ~Expired(k))
         /\ \A k \in Keys : ~Expired(k) => Cleaned[k] = records[k]
<1>1. NoRecord \in Record
  BY DEF NoRecord, Record
<1>2. Cleaned \in [Keys -> Record]
  BY <1>1 DEF Cleaned, TypeOK
<1>3. Settled \in [Keys -> Nat]
  BY DEF Settled, TypeOK
<1>4. QED
  BY <1>1, <1>2, <1>3 DEF Cleaned

LEMMA InitType == Init => TypeOK
<1> SUFFICES ASSUME Init PROVE TypeOK
  OBVIOUS
<1>1. NoRecord \in Record /\ NoAnswer \in Answers
  BY DEF NoRecord, Record, NoAnswer, Answers
<1>2. QED
  BY <1>1, InitCodes DEF Init, TypeOK

\* What a repetition of a request finds.
LEMMA RepeatMoves ==
  ASSUME TypeOK, NEW r \in Requests, Repeat(r)
  PROVE  /\ th' \in [Requests -> {Home} \cup Request] /\ Alone(r)
         /\ th[r].at = "reserve" /\ records' = Cleaned /\ executed' = Settled
         /\ \/ th'[r].at = "home" /\ entitled' = entitled \ {r}
            \/ /\ th'[r].at = "replayed" /\ Keeps(r) /\ entitled' = entitled
               /\ Cleaned[KeyOf(r)] # NoRecord /\ Cleaned[KeyOf(r)].status # "pending"
               /\ Cleaned[KeyOf(r)].body = th[r].body
               /\ th'[r].status = Cleaned[KeyOf(r)].status
<1>1. th[r].at = "reserve" /\ records' = Cleaned /\ executed' = Settled
  BY DEF Repeat, At
<1>2. KeyOf(r) \in Keys /\ Cleaned[KeyOf(r)] \in Record
  BY <1>1, Busy, CleanedType
<1> DEFINE record == Cleaned[KeyOf(r)]
<1>3. CASE SameBody(record, th[r].body) /\ record.status # "pending"
  <2> PICK status \in {"none", "ok", "refused"} : status = record.status
    BY <1>2, <1>3 DEF Record
  <2>1. Finishes(r, "replayed", status) /\ entitled' = entitled
    BY <1>3 DEF Repeat, Finishes
  <2>2. th' \in [Requests -> {Home} \cup Request] /\ Alone(r) /\ Keeps(r)
        /\ th'[r].at = "replayed" /\ th'[r].status = status
    BY <1>1, <2>1, FinishStep DEF Places
  <2>3. QED
    BY <1>1, <1>3, <2>1, <2>2 DEF Repeat, Taken, SameBody
<1>4. CASE ~(SameBody(record, th[r].body) /\ record.status # "pending")
  <2>1. Forget(r)
    BY <1>4 DEF Repeat
  <2>2. QED
    BY <1>1, <2>1, ForgetMoves DEF Forget
<1>5. QED
  BY <1>3, <1>4

\* The end of a write: answered, or given up.
Ends(r) == Complete(r) \/ CompleteFails(r) \/ Drop(r) \/ DropFails(r) \/ ReadAnswer(r)

LEMMA EndsMoves ==
  ASSUME TypeOK, NEW r \in Requests, Ends(r)
  PROVE  /\ th' \in [Requests -> {Home} \cup Request] /\ Alone(r) /\ th'[r].at = "home"
         /\ th[r].at \in {"finish", "drop", "replayed"} /\ KeyOf(r) \in Keys
         /\ UNCHANGED <<now, grants, requesters, executed>> /\ entitled' = entitled \ {r}
<1>1. Forget(r) /\ th[r].at \in {"finish", "drop", "replayed"}
      /\ UNCHANGED <<now, grants, requesters, executed>>
  BY DEF Ends, Complete, CompleteFails, Drop, DropFails, ReadAnswer, At, control
<1>2. QED
  BY <1>1, Busy, ForgetMoves DEF Forget

LEMMA CompleteType ==
  ASSUME TypeOK, NEW r \in Requests, Complete(r), th[r].status \in {"ok", "refused"}
  PROVE  records' \in [Keys -> Record] /\ answers' \in [Keys -> Answers]
<1>1. th[r].at = "finish"
  BY DEF Complete, At
<1>2. th[r].body \in Bodies \cup {NoOne} /\ th[r].begun + CompleteTTL \in Nat
  BY <1>1, Busy, CommandsAssumption
<1> PICK k \in Keys : k = KeyOf(r)
  BY <1>1, Busy
<1>3. answers' \in [Keys -> Answers]
  BY <1>2 DEF Complete, TypeOK, Answers
<1>4. records[k] \in Record
  BY DEF TypeOK
<1>5. [records[k] EXCEPT !.status = th[r].status, !.expires = KeptUntil(r)] \in Record
  BY <1>2, <1>4 DEF Record, KeptUntil
<1>6. records' \in [Keys -> Record]
  BY <1>4, <1>5 DEF Complete, TypeOK
<1>7. QED
  BY <1>3, <1>6

LEMMA StepType == TypeOK /\ CodeInv /\ OwnInv /\ Next => TypeOK' /\ CodeInv'
<1> SUFFICES ASSUME TypeOK, CodeInv, OwnInv, Next PROVE TypeOK' /\ CodeInv'
  OBVIOUS
<1>1. BindingsType' /\ CodeInv'
  BY RebindStep, BindingsFrame DEF TypeOK
<1>2. ASSUME NEW r \in Requests, Reserve(r)
      PROVE  TypeOK'
  <2>1. th[r].at = "reserve"
    BY <1>2, ReserveMoves
  <2>2. Reserved(r) \in Record
    <3>1. th[r].body \in Bodies \cup {NoOne} /\ now + PendingTTL \in Nat
      BY <2>1, Busy, CommandsAssumption DEF TypeOK
    <3>2. QED
      BY <3>1 DEF Reserved, PendingExpires, Record
  <2>3. records' \in [Keys -> Record]
    BY <1>2, <2>2, CleanedType DEF Reserve
  <2>4. QED
    BY <1>1, <1>2, <2>3, ReserveMoves, CleanedType DEF TypeOK, Reserve
<1>3. ASSUME NEW r \in Requests, Repeat(r)
      PROVE  TypeOK'
  BY <1>1, <1>3, RepeatMoves, CleanedType DEF TypeOK, Repeat
<1>4. ASSUME NEW r \in Requests, Deciding(r) \/ Acting(r)
      PROVE  TypeOK'
  <2>1. Proceeds(r) /\ th' \in [Requests -> {Home} \cup Request]
    BY <1>4, DecidingProceeds, ActingProceeds
  <2>2. executed' \in [Keys -> Nat]
    BY <2>1 DEF Proceeds, TypeOK
  <2>3. QED
    BY <1>1, <2>1, <2>2 DEF TypeOK, Proceeds
<1>5. ASSUME NEW r \in Requests, Ends(r)
      PROVE  TypeOK'
  <2>1. records' \in [Keys -> Record] /\ answers' \in [Keys -> Answers]
    <3>1. CASE Complete(r)
      BY <3>1, CompleteType DEF OwnInv, Complete, At
    <3>2. CASE Drop(r)
      BY <3>2, CleanedType DEF Drop, TypeOK
    <3>3. CASE CompleteFails(r) \/ DropFails(r) \/ ReadAnswer(r)
      BY <3>3 DEF CompleteFails, DropFails, ReadAnswer, TypeOK
    <3>4. QED
      BY <1>5, <3>1, <3>2, <3>3 DEF Ends
  <2>2. QED
    BY <1>1, <1>5, <2>1, EndsMoves DEF TypeOK
<1>6. ASSUME NEW r \in Requests, NEW s \in Subjects, NEW c \in Commands,
             NEW b \in BodiesOf(c), Resolve(r, s, c, b)
      PROVE  TypeOK'
  BY <1>1, <1>6, ResolveMoves DEF TypeOK, Resolve
<1>7. CASE PruneIdempotency
  BY <1>1, <1>7, CleanedType DEF TypeOK, PruneIdempotency
<1>8. CASE Crash
  BY <1>1, <1>8 DEF TypeOK, Crash
<1>9. CASE Tick
  BY <1>1, <1>9 DEF TypeOK, Tick, control, history
<1>10. CASE Rebind \/ (\E p \in Principals : Grant(p) \/ RevokeGrant(p))
              \/ (\E open \in BOOLEAN : SetPolicy(open))
  BY <1>1, <1>10 DEF TypeOK, Rebind, Grant, RevokeGrant, SetPolicy, control, history
<1>11. QED
  BY <1>1, <1>2, <1>3, <1>4, <1>5, <1>6, <1>7, <1>8, <1>9, <1>10
     DEF Next, Deciding, Acting, Ends
-----------------------------------------------------------------------------
(* Rights.                                                                 *)
LEMMA InitRight == Init => RightInv
  BY DEF Init, RightInv, OnlyEntitled, At, Home

\* A request that keeps who it is for and what it asks keeps its rights.
LEMMA RightFrame ==
  ASSUME RightInv, NEW r \in Requests, Alone(r), UNCHANGED <<grants, requesters>>,
         \A q \in Requests : q # r /\ q \in entitled => q \in entitled',
         th'[r].at # "home" => /\ Rightful(th'[r].command, th'[r].who, grants, requesters)
                                    => r \in entitled'
                               /\ th'[r].at = "policy" => th'[r].command[1] = "radio"
                               /\ th'[r].at = "act" => r \in entitled'
  PROVE  RightInv'
<1>1. ASSUME NEW q \in Requests
      PROVE  /\ th'[q].at # "home" /\ Rightful(th'[q].command, th'[q].who, grants, requesters)
                  => q \in entitled'
             /\ th'[q].at = "policy" => th'[q].command[1] = "radio"
             /\ th'[q].at = "act" => q \in entitled'
  <2>1. CASE q = r
    BY <2>1
  <2>2. CASE q # r
    BY <2>2 DEF Alone, RightInv, OnlyEntitled, At, Op
  <2>3. QED
    BY <2>1, <2>2
<1>2. QED
  BY <1>1 DEF RightInv, OnlyEntitled, At, Op, Rightful

LEMMA RightsChange ==
  ASSUME TypeOK, RightInv, UNCHANGED th, entitled' = NowEntitled
  PROVE  RightInv'
<1>1. ASSUME NEW q \in Requests, th[q].at # "home",
             Rightful(th[q].command, th[q].who, grants', requesters')
      PROVE  q \in entitled'
  BY <1>1 DEF NowEntitled, Home
<1>2. \A q \in Requests : th[q].at = "act" => q \in entitled'
  BY DEF RightInv, OnlyEntitled, At, NowEntitled
<1>3. QED
  BY <1>1, <1>2 DEF RightInv, OnlyEntitled, At, Op, Rightful

LEMMA StepRight ==
  ASSUME TypeOK, RightInv, Next
  PROVE  RightInv'
<1>1. ASSUME NEW r \in Requests, NEW s \in Subjects, NEW c \in Commands,
             NEW b \in BodiesOf(c), Resolve(r, s, c, b)
      PROVE  RightInv'
  <2>1. Alone(r) /\ th'[r].at = "reserve" /\ th'[r].command = c /\ th'[r].who = Identity(s)
    BY <1>1, ResolveMoves
  <2>2. /\ UNCHANGED <<grants, requesters>>
        /\ entitled' = IF Rightful(c, Identity(s), grants, requesters)
                       THEN entitled \cup {r} ELSE entitled \ {r}
    BY <1>1 DEF Resolve, control
  <2>3. \A q \in Requests : q # r /\ q \in entitled => q \in entitled'
    BY <2>2
  <2>4. Rightful(th'[r].command, th'[r].who, grants, requesters) => r \in entitled'
    BY <2>1, <2>2
  <2>5. QED
    BY <2>1, <2>2, <2>3, <2>4, RightFrame
<1>2. ASSUME NEW r \in Requests, Reserve(r)
      PROVE  RightInv'
  <2>1. UNCHANGED <<grants, requesters, entitled>>
    BY <1>2 DEF Reserve, control
  <2>2. QED
    BY <2>1, <1>2, ReserveMoves, RightFrame DEF Keeps, RightInv
<1>3. ASSUME NEW r \in Requests, Repeat(r)
      PROVE  RightInv'
  <2>1. UNCHANGED <<grants, requesters>>
    BY <1>3 DEF Repeat, control
  <2>2. QED
    BY <2>1, <1>3, RepeatMoves, RightFrame DEF Keeps, RightInv
<1>4. ASSUME NEW r \in Requests, Deciding(r) \/ Acting(r)
      PROVE  RightInv'
  <2>1. Proceeds(r)
    BY <1>4, DecidingProceeds, ActingProceeds
  <2>2. th[r].at # "home"
    BY <2>1 DEF Proceeds
  <2>3. Rightful(th[r].command, th[r].who, grants, requesters) => r \in entitled
    BY <2>2 DEF RightInv
  <2>4. th[r].at = "policy" => th[r].command[1] = "radio"
    BY DEF RightInv, Op
  <2>5. th'[r].at = "act" => Rightful(th[r].command, th[r].who, grants, requesters)
    BY <2>1, <2>4 DEF Proceeds, Rightful
  <2>6. QED
    BY <2>1, <2>3, <2>5, RightFrame DEF Proceeds, Keeps
<1>5. ASSUME NEW r \in Requests, Ends(r)
      PROVE  RightInv'
  BY <1>5, EndsMoves, RightFrame
<1>6. CASE (\E p \in Principals : Grant(p)) \/ (\E open \in BOOLEAN : SetPolicy(open))
  BY <1>6, RightsChange DEF Grant, SetPolicy
<1>7. CASE \E p \in Principals : RevokeGrant(p)
  BY <1>7 DEF RevokeGrant, RightInv, OnlyEntitled, At, Op, Rightful, history
<1>8. CASE PruneIdempotency \/ Tick \/ Rebind
  BY <1>8 DEF PruneIdempotency, Tick, Rebind, control, history, RightInv, OnlyEntitled, At, Op,
     Rightful
<1>9. CASE Crash
  BY <1>9 DEF Crash, Home, RightInv, OnlyEntitled, At
<1>10. QED
  BY <1>1, <1>2, <1>3, <1>4, <1>5, <1>6, <1>7, <1>8, <1>9 DEF Next, Deciding, Acting, Ends
-----------------------------------------------------------------------------
(* The record of a key under way.                                          *)
LEMMA InitOwn == Init => OwnInv
  BY DEF Init, OwnInv, Works, Working, Home

\* One request moves on; nobody starts.
LEMMA OwnFrame ==
  ASSUME TypeOK, OwnInv, NEW r \in Requests, Alone(r), now' = now,
         Works(r)' => Works(r) /\ Keeps(r),
         th'[r].at = "finish" => th'[r].status \in {"ok", "refused"},
         \A k \in Keys : (\E q \in Requests : Works(q)' /\ KeyOf(q) = k) =>
                           records'[k] = records[k]
  PROVE  OwnInv'
<1>1. \A q \in Requests : Works(q)' => Works(q) /\ Keeps(q)
  BY DEF Alone, Works, Keeps
<1>2. \A q \in Requests : Works(q)' => KeyOf(q)' = KeyOf(q) /\ th'[q].body = th[q].body
  BY <1>1 DEF KeyOf, Keeps
<1>3. ASSUME NEW q \in Requests, Works(q)'
      PROVE  /\ records'[KeyOf(q)'].body = th'[q].body /\ records'[KeyOf(q)'].status = "pending"
             /\ records'[KeyOf(q)'].expires > now'
  <2>1. KeyOf(q) \in Keys /\ Works(q)
    BY <1>1, <1>3, WorksBusy
  <2>2. records'[KeyOf(q)] = records[KeyOf(q)]
    BY <1>3, <2>1
  <2>3. QED
    BY <1>2, <1>3, <2>1, <2>2 DEF OwnInv
<1>4. \A q, p \in Requests : q # p /\ Works(q)' /\ Works(p)' => KeyOf(q)' # KeyOf(p)'
  BY <1>1, <1>2 DEF OwnInv
<1>5. \A q \in Requests : th'[q].at = "finish" => th'[q].status \in {"ok", "refused"}
  BY DEF Alone, OwnInv
<1>6. QED
  BY <1>3, <1>4, <1>5 DEF OwnInv

\* What is under way has not expired.
LEMMA OwnAlive ==
  ASSUME TypeOK, OwnInv, NEW r \in Requests, Works(r)
  PROVE  KeyOf(r) \in Keys /\ ~Expired(KeyOf(r)) /\ Cleaned[KeyOf(r)] = records[KeyOf(r)]
<1>1. KeyOf(r) \in Keys /\ records[KeyOf(r)].expires > now
  BY WorksBusy DEF OwnInv
<1>2. records[KeyOf(r)].expires \in Nat /\ now \in Nat
  BY <1>1 DEF TypeOK, Record
<1>3. ~Expired(KeyOf(r))
  BY <1>1, <1>2 DEF Expired
<1>4. QED
  BY <1>1, <1>3, CleanedType

LEMMA ReserveOwn ==
  ASSUME TypeOK, OwnInv, NEW r \in Requests, Reserve(r)
  PROVE  OwnInv'
<1>1. /\ Alone(r) /\ Keeps(r) /\ th[r].at = "reserve" /\ th'[r].at = "decide" /\ ~Works(r)
      /\ KeyOf(r) \in Keys
  BY ReserveMoves, Busy DEF Works, Working
<1> PICK k \in Keys : k = KeyOf(r)
  BY <1>1
<1>2. /\ Cleaned[k] = NoRecord /\ now' = now
      /\ records' = [Cleaned EXCEPT ![k] = Reserved(r)]
  BY DEF Reserve, Taken
<1>3. \A q \in Requests : Works(q) => KeyOf(q) # k /\ records'[KeyOf(q)] = records[KeyOf(q)]
  <2> SUFFICES ASSUME NEW q \in Requests, Works(q)
               PROVE  KeyOf(q) # k /\ records'[KeyOf(q)] = records[KeyOf(q)]
    OBVIOUS
  <2>1. KeyOf(q) \in Keys /\ Cleaned[KeyOf(q)] = records[KeyOf(q)]
        /\ records[KeyOf(q)].status = "pending"
    BY OwnAlive DEF OwnInv
  <2>2. KeyOf(q) # k
    BY <1>2, <2>1 DEF NoRecord
  <2>3. QED
    BY <1>2, <2>1, <2>2, CleanedType
<1>4. records'[k] = Reserved(r)
  BY <1>2, CleanedType
<1>5. \A q \in Requests : q # r =>
        (Works(q)' <=> Works(q)) /\ KeyOf(q)' = KeyOf(q) /\ th'[q] = th[q]
  BY <1>1 DEF Alone, Works, KeyOf
<1>6. KeyOf(r)' = k /\ th'[r].body = th[r].body
  BY <1>1 DEF KeyOf, Keeps
<1>7. ASSUME NEW q \in Requests, Works(q)'
      PROVE  /\ records'[KeyOf(q)'].body = th'[q].body /\ records'[KeyOf(q)'].status = "pending"
             /\ records'[KeyOf(q)'].expires > now'
  <2>1. CASE q = r
    <3>1. now + PendingTTL > now
      BY CommandsAssumption DEF TypeOK
    <3>2. QED
      BY <1>2, <1>4, <1>6, <2>1, <3>1 DEF Reserved, PendingExpires
  <2>2. CASE q # r
    BY <1>2, <1>3, <1>5, <1>7, <2>2 DEF OwnInv
  <2>3. QED
    BY <2>1, <2>2
<1>8. \A q, p \in Requests : q # p /\ Works(q)' /\ Works(p)' => KeyOf(q)' # KeyOf(p)'
  BY <1>3, <1>5, <1>6 DEF OwnInv
<1>9. \A q \in Requests : th'[q].at = "finish" => th'[q].status \in {"ok", "refused"}
  BY <1>1, <1>5 DEF OwnInv
<1>10. QED
  BY <1>7, <1>8, <1>9 DEF OwnInv

LEMMA StepOwn ==
  ASSUME TypeOK, OwnInv, Next
  PROVE  OwnInv'
<1>1. ASSUME NEW r \in Requests, NEW s \in Subjects, NEW c \in Commands,
             NEW b \in BodiesOf(c), Resolve(r, s, c, b)
      PROVE  OwnInv'
  <2>1. Alone(r) /\ ~Works(r)' /\ th'[r].at # "finish" /\ now' = now /\ records' = records
    BY <1>1, ResolveMoves DEF Resolve, Works, Working
  <2>2. QED
    BY <2>1, OwnFrame
<1>2. ASSUME NEW r \in Requests, Reserve(r)
      PROVE  OwnInv'
  BY <1>2, ReserveOwn
<1>3. ASSUME NEW r \in Requests, Repeat(r)
      PROVE  OwnInv'
  <2>1. Alone(r) /\ ~Works(r)' /\ th'[r].at # "finish" /\ now' = now /\ records' = Cleaned
    BY <1>3, RepeatMoves DEF Repeat, Works, Working
  <2>2. \A q \in Requests : Works(q)' => Works(q)
    BY <2>1 DEF Alone, Works
  <2>3. QED
    BY <2>1, <2>2, OwnAlive, OwnFrame
<1>4. ASSUME NEW r \in Requests, Deciding(r) \/ Acting(r)
      PROVE  OwnInv'
  <2>1. Proceeds(r)
    BY <1>4, DecidingProceeds, ActingProceeds
  <2>2. Works(r)
    BY <2>1 DEF Proceeds, Works, Working
  <2>3. QED
    BY <2>1, <2>2, OwnFrame DEF Proceeds
<1>5. ASSUME NEW r \in Requests, Ends(r)
      PROVE  OwnInv'
  <2>1. /\ Alone(r) /\ ~Works(r)' /\ th'[r].at # "finish" /\ now' = now /\ KeyOf(r) \in Keys
    BY <1>5, EndsMoves DEF Works, Working
  <2>2. CASE Complete(r) \/ Drop(r)
    <3>1. Works(r)
      BY <2>2 DEF Complete, Drop, At, Works, Working
    <3>2. \A q \in Requests : Works(q)' => Works(q) /\ q # r
      BY <2>1 DEF Alone, Works
    <3>3. \A k \in Keys : k # KeyOf(r) => records'[k] = records[k]
      BY <2>2 DEF Complete, Drop, TypeOK
    <3>4. QED
      BY <2>1, <3>1, <3>2, <3>3, OwnFrame DEF OwnInv
  <2>3. CASE ~(Complete(r) \/ Drop(r))
    <3>1. records' = records
      BY <1>5, <2>3 DEF Ends, CompleteFails, DropFails, ReadAnswer
    <3>2. QED
      BY <2>1, <3>1, OwnFrame
  <2>4. QED
    BY <2>2, <2>3
<1>6. CASE PruneIdempotency
  <2>1. records' = Cleaned /\ UNCHANGED <<now, th>>
    BY <1>6 DEF PruneIdempotency
  <2>2. QED
    BY <2>1, OwnAlive DEF OwnInv, Works, KeyOf
<1>7. CASE Crash
  BY <1>7 DEF Crash, OwnInv, Works, Working, Home
<1>8. CASE Tick
  <2>1. \A r \in Requests : th'[r].at \in {"home", "reserve"}
    BY <1>8 DEF Tick, At
  <2>2. QED
    BY <2>1 DEF OwnInv, Works, Working
<1>9. CASE Rebind \/ (\E p \in Principals : Grant(p) \/ RevokeGrant(p))
             \/ (\E open \in BOOLEAN : SetPolicy(open))
  <2>1. UNCHANGED <<now, th, records>>
    BY <1>9 DEF Rebind, Grant, RevokeGrant, SetPolicy
  <2>2. QED
    BY <2>1 DEF OwnInv, Works, KeyOf
<1>10. QED
  BY <1>1, <1>2, <1>3, <1>4, <1>5, <1>6, <1>7, <1>8, <1>9 DEF Next, Deciding, Acting, Ends
-----------------------------------------------------------------------------
(* Records and answers.                                                    *)
LEMMA InitRecord == Init => RecordInv
  BY DEF Init, RecordInv, AnswerKept, Replays, NoRecord, NoAnswer, Home

LEMMA KeySame ==
  ASSUME NEW k \in Keys, AnswerKept(k), records'[k] = records[k], answers'[k] = answers[k],
         now' = now
  PROVE  AnswerKept(k)'
  BY DEF AnswerKept

\* Deleting what has expired loses no answer that is still kept.
LEMMA KeyCleaned ==
  ASSUME TypeOK, NEW k \in Keys, AnswerKept(k), records'[k] = Cleaned[k],
         answers'[k] = answers[k], now' = now
  PROVE  AnswerKept(k)'
<1>1. CASE Cleaned[k] = records[k]
  BY <1>1, KeySame
<1>2. CASE Cleaned[k] # records[k]
  <2>1. Cleaned[k] = NoRecord /\ Expired(k)
    BY <1>2, CleanedType
  <2>2. records[k].expires <= now /\ records[k].expires \in Nat /\ now \in Nat
        /\ answers[k].until \in Nat
    BY <2>1 DEF Expired, TypeOK, Record, Answers
  <2>3. ~(now < answers[k].until)
    BY <2>2 DEF AnswerKept
  <2>4. QED
    BY <2>1, <2>3 DEF AnswerKept, NoRecord
<1>3. QED
  BY <1>1, <1>2

\* A key that is free has no answer that is still kept.
LEMMA FreeKey ==
  ASSUME TypeOK, NEW k \in Keys, AnswerKept(k), Cleaned[k] = NoRecord \/ records[k].status = "pending"
  PROVE  ~(now < answers[k].until)
<1>1. CASE records[k].status = "pending"
  BY <1>1 DEF AnswerKept
<1>2. CASE Cleaned[k] = NoRecord /\ ~Expired(k)
  <2>1. records[k] = NoRecord
    BY <1>2, CleanedType
  <2>2. QED
    BY <2>1 DEF AnswerKept, NoRecord
<1>3. CASE Expired(k)
  <2>1. records[k].expires <= now /\ records[k].expires \in Nat /\ now \in Nat
        /\ answers[k].until \in Nat
    BY <1>3 DEF Expired, TypeOK, Record, Answers
  <2>2. QED
    BY <2>1 DEF AnswerKept
<1>4. QED
  BY <1>1, <1>2, <1>3

LEMMA StepAnswer ==
  ASSUME TypeOK, OwnInv, RecordInv, Next, NEW k \in Keys
  PROVE  AnswerKept(k)'
<1>1. AnswerKept(k)
  BY DEF RecordInv
<1>2. ASSUME NEW r \in Requests, Reserve(r)
      PROVE  AnswerKept(k)'
  <2>1. /\ Cleaned[KeyOf(r)] = NoRecord /\ now' = now /\ answers' = answers
        /\ records' = [Cleaned EXCEPT ![KeyOf(r)] = Reserved(r)]
    BY <1>2 DEF Reserve, Taken
  <2>2. CASE k # KeyOf(r)
    <3>1. records'[k] = Cleaned[k]
      BY <2>1, <2>2, CleanedType
    <3>2. QED
      BY <1>1, <2>1, <3>1, KeyCleaned
  <2>3. CASE k = KeyOf(r)
    <3>1. records'[k].status = "pending"
      BY <2>1, <2>3, CleanedType DEF Reserved
    <3>2. QED
      BY <1>1, <2>1, <2>3, <3>1, FreeKey DEF AnswerKept
  <2>4. QED
    BY <2>2, <2>3
<1>3. CASE (\E r \in Requests : Repeat(r)) \/ PruneIdempotency
  <2>1. records' = Cleaned /\ now' = now /\ answers' = answers
    BY <1>3 DEF Repeat, PruneIdempotency
  <2>2. QED
    BY <1>1, <2>1, KeyCleaned
<1>4. ASSUME NEW r \in Requests, Complete(r)
      PROVE  AnswerKept(k)'
  <2>1. th[r].at = "finish" /\ Works(r) /\ now' = now
    BY <1>4 DEF Complete, At, Works, Working
  <2> PICK j \in Keys : j = KeyOf(r)
    BY <2>1, WorksBusy
  <2>2. /\ records[j].body = th[r].body /\ records[j].status = "pending"
        /\ th[r].status \in {"ok", "refused"}
    BY <2>1 DEF OwnInv
  <2>3. CASE k # j
    <3>1. records'[k] = records[k] /\ answers'[k] = answers[k]
      BY <1>4, <2>3 DEF Complete, TypeOK
    <3>2. QED
      BY <1>1, <2>1, <3>1, KeySame
  <2>4. CASE k = j
    <3>1. records[j] \in Record /\ records[j] # NoRecord
      BY <2>2 DEF TypeOK, NoRecord
    <3>2. records'[j] = [records[j] EXCEPT !.status = th[r].status, !.expires = KeptUntil(r)]
      BY <1>4, <3>1 DEF Complete, TypeOK
    <3>3. records'[j].status = th[r].status /\ records'[j].body = th[r].body
          /\ records'[j].expires = th[r].begun + CompleteTTL
      BY <2>2, <3>1, <3>2 DEF Record, KeptUntil
    <3>4. answers'[j] = [body |-> th[r].body, status |-> th[r].status,
                         until |-> th[r].begun + CompleteTTL]
      BY <1>4 DEF Complete, TypeOK
    <3>5. QED
      BY <2>2, <2>4, <3>3, <3>4 DEF AnswerKept
  <2>5. QED
    BY <2>3, <2>4
<1>5. ASSUME NEW r \in Requests, Drop(r)
      PROVE  AnswerKept(k)'
  <2>1. Works(r) /\ now' = now /\ answers' = answers
        /\ records' = [records EXCEPT ![KeyOf(r)] = NoRecord]
    BY <1>5 DEF Drop, At, Works, Working
  <2>2. CASE k # KeyOf(r)
    BY <1>1, <2>1, <2>2, KeySame DEF TypeOK
  <2>3. CASE k = KeyOf(r)
    <3>1. records[k].status = "pending" /\ records'[k] = NoRecord
      BY <2>1, <2>3 DEF OwnInv, TypeOK
    <3>2. QED
      BY <1>1, <2>1, <3>1, FreeKey DEF AnswerKept, NoRecord
  <2>4. QED
    BY <2>2, <2>3
<1>6. CASE Tick
  <2>1. now' = now + 1 /\ now \in Nat /\ answers[k].until \in Nat
        /\ UNCHANGED <<records, answers>>
    BY <1>6 DEF Tick, TypeOK, Answers, history
  <2>2. now' < answers[k].until => now < answers[k].until
    BY <2>1
  <2>3. QED
    BY <1>1, <2>1, <2>2 DEF AnswerKept
<1>7. ASSUME ~\E r \in Requests : Reserve(r), ~((\E r \in Requests : Repeat(r)) \/ PruneIdempotency),
             ~\E r \in Requests : Complete(r), ~\E r \in Requests : Drop(r), ~Tick
      PROVE  UNCHANGED <<records, answers, now>>
  BY <1>7, RecordsStay
<1>8. QED
  BY <1>1, <1>2, <1>3, <1>4, <1>5, <1>6, <1>7, KeySame

\* A request that reads a cached answer has its record unchanged, since nothing
\* that is kept expires and nothing that is done is done again.
LEMMA StepReplays ==
  ASSUME TypeOK, OwnInv, RecordInv, Next, NEW q \in Requests
  PROVE  Replays(q)'
<1> SUFFICES ASSUME th'[q].at = "replayed" PROVE Replays(q)'
  BY DEF Replays
<1>1. ASSUME Repeat(q) PROVE Replays(q)'
  <2>1. /\ th'[q].at = "replayed" /\ Keeps(q) /\ records' = Cleaned /\ th[q].at = "reserve"
        /\ Cleaned[KeyOf(q)] # NoRecord /\ Cleaned[KeyOf(q)].status # "pending"
        /\ Cleaned[KeyOf(q)].body = th[q].body /\ th'[q].status = Cleaned[KeyOf(q)].status
    BY <1>1, RepeatMoves
  <2> PICK k \in Keys : k = KeyOf(q)
    BY <2>1, Busy
  <2>2. Cleaned[k] = records[k] /\ ~Expired(k) /\ KeyOf(q)' = k /\ now' = now
    BY <1>1, <2>1, CleanedType DEF KeyOf, Keeps, Repeat
  <2>3. records[k] \in Record /\ now \in Nat
    BY DEF TypeOK
  <2>4. records[k].expires > now
    BY <2>2, <2>3 DEF Expired, Record
  <2>5. records[k].status \in {"ok", "refused"}
    BY <2>1, <2>2, <2>3 DEF RecordInv, AnswerKept, Record
  <2>6. QED
    BY <2>1, <2>2, <2>4, <2>5 DEF Replays, Keeps
<1>2. ASSUME th'[q] = th[q] PROVE Replays(q)'
  <2>1. th[q].at = "replayed" /\ KeyOf(q)' = KeyOf(q)
    BY <1>2 DEF KeyOf
  <2> PICK k \in Keys : k = KeyOf(q)
    BY <2>1, Busy
  <2>2. /\ records[k].body = th[q].body /\ records[k].status = th[q].status
        /\ th[q].status \in {"ok", "refused"} /\ records[k].expires > now
    BY <2>1 DEF RecordInv, Replays
  <2>3. records[k].expires \in Nat /\ now \in Nat
    BY DEF TypeOK, Record
  <2>4. ~Expired(k) /\ Cleaned[k] = records[k] /\ records[k] # NoRecord
    BY <2>2, <2>3, CleanedType DEF Expired, NoRecord
  <2>5. \A r \in Requests : Works(r) => KeyOf(r) # k
    BY <2>2 DEF OwnInv
  <2>6. records'[k] = records[k] /\ now' = now
    <3>1. CASE \E r \in Requests : Reserve(r)
      <4>1. PICK r \in Requests : Reserve(r)
        BY <3>1
      <4>2. KeyOf(r) # k /\ records' = [Cleaned EXCEPT ![KeyOf(r)] = Reserved(r)] /\ now' = now
        BY <2>4, <4>1 DEF Reserve, Taken
      <4>3. QED
        BY <2>4, <4>2, CleanedType
    <3>2. CASE (\E r \in Requests : Repeat(r)) \/ PruneIdempotency
      BY <2>4, <3>2 DEF Repeat, PruneIdempotency
    <3>3. CASE \E r \in Requests : Complete(r) \/ Drop(r)
      <4>1. PICK r \in Requests : Complete(r) \/ Drop(r)
        BY <3>3
      <4>2. KeyOf(r) # k
        BY <2>5, <4>1 DEF Complete, Drop, At, Works, Working
      <4>3. QED
        BY <4>1, <4>2 DEF Complete, Drop, TypeOK
    <3>4. CASE Tick
      BY <2>1, <3>4 DEF Tick, At
    <3>5. ASSUME ~\E r \in Requests : Reserve(r), ~((\E r \in Requests : Repeat(r)) \/ PruneIdempotency),
                 ~\E r \in Requests : Complete(r) \/ Drop(r), ~Tick
          PROVE  UNCHANGED <<records, now>>
      BY <3>5, RecordsStay
    <3>6. QED
      BY <3>1, <3>2, <3>3, <3>4, <3>5
  <2>7. QED
    BY <1>2, <2>1, <2>2, <2>6 DEF Replays
<1>3. th'[q] = th[q] \/ Repeat(q)
  <2>1. ASSUME NEW r \in Requests, Alone(r), th'[r].at # "replayed" PROVE th'[q] = th[q]
    BY <2>1 DEF Alone
  <2>2. ASSUME NEW r \in Requests, NEW s \in Subjects, NEW c \in Commands,
               NEW b \in BodiesOf(c), Resolve(r, s, c, b)
        PROVE  th'[q] = th[q]
    BY <2>1, <2>2, ResolveMoves
  <2>3. ASSUME NEW r \in Requests, Reserve(r) PROVE th'[q] = th[q]
    BY <2>1, <2>3, ReserveMoves
  <2>4. ASSUME NEW r \in Requests, Repeat(r) PROVE th'[q] = th[q] \/ Repeat(q)
    BY <2>4, RepeatMoves DEF Alone
  <2>5. ASSUME NEW r \in Requests, Deciding(r) \/ Acting(r) PROVE th'[q] = th[q]
    BY <2>1, <2>5, DecidingProceeds, ActingProceeds DEF Proceeds
  <2>6. ASSUME NEW r \in Requests, Ends(r) PROVE th'[q] = th[q]
    BY <2>1, <2>6, EndsMoves
  <2>7. ~Crash
    BY DEF Crash, Home
  <2>8. CASE \/ PruneIdempotency \/ Tick \/ Rebind
             \/ \E p \in Principals : Grant(p) \/ RevokeGrant(p)
             \/ \E open \in BOOLEAN : SetPolicy(open)
    BY <2>8 DEF PruneIdempotency, Tick, Rebind, Grant, RevokeGrant, SetPolicy
  <2>9. QED
    BY <2>2, <2>3, <2>4, <2>5, <2>6, <2>7, <2>8 DEF Next, Deciding, Acting, Ends
<1>4. QED
  BY <1>1, <1>2, <1>3

LEMMA StepRecord ==
  ASSUME TypeOK, OwnInv, RecordInv, Next
  PROVE  RecordInv'
<1>1. \A k \in Keys : AnswerKept(k)'
  BY StepAnswer
<1>2. \A r \in Requests : Replays(r)'
  BY StepReplays
<1>3. QED
  BY <1>1, <1>2 DEF RecordInv
-----------------------------------------------------------------------------
(* Executions.                                                             *)
LEMMA InitCount == Init => CountInv
  BY DEF Init, CountInv, Counted

\* The requests about to record what they did under k stay as they are.
FinishersStay(k) ==
  \A q \in Requests : th[q].at = "finish" /\ KeyOf(q) = k => th'[q] = th[q]

LEMMA CountSame ==
  ASSUME NEW k \in Keys, Counted(k), executed'[k] = executed[k], records'[k] = records[k],
         FinishersStay(k)
  PROVE  Counted(k)'
<1>1. \A q \in Requests : th'[q] = th[q] => KeyOf(q)' = KeyOf(q)
  BY DEF KeyOf
<1>2. QED
  BY <1>1 DEF Counted, FinishersStay

\* Nothing counts under a key whose request has not executed yet, or that is free.
LEMMA NothingYet ==
  ASSUME TypeOK, OwnInv, NEW r \in Requests, Works(r), th[r].at # "finish", Counted(KeyOf(r))
  PROVE  executed[KeyOf(r)] = 0
<1>1. records[KeyOf(r)].status = "pending"
  BY DEF OwnInv
<1>2. \A q \in Requests : th[q].at = "finish" => KeyOf(q) # KeyOf(r)
  BY DEF OwnInv, Works, Working
<1>3. QED
  BY <1>1, <1>2 DEF Counted

LEMMA NothingFree ==
  ASSUME TypeOK, OwnInv, NEW k \in Keys, Counted(k), Cleaned[k] = NoRecord
  PROVE  Settled[k] = 0
<1>1. CASE records[k].status \in {"ok", "refused"}
  BY <1>1 DEF Settled
<1>2. CASE records[k].status \notin {"ok", "refused"}
  <2>1. ASSUME NEW q \in Requests, th[q].at = "finish", KeyOf(q) = k PROVE FALSE
    <3>1. Works(q)
      BY <2>1 DEF Works, Working
    <3>2. Cleaned[k] = records[k] /\ records[k].status = "pending"
      BY <2>1, <3>1, OwnAlive DEF OwnInv
    <3>3. QED
      BY <3>2 DEF NoRecord
  <2>2. executed[k] = 0
    BY <1>2, <2>1 DEF Counted
  <2>3. QED
    BY <1>2, <2>2 DEF Settled
<1>3. QED
  BY <1>1, <1>2

LEMMA CountCleaned ==
  ASSUME TypeOK, OwnInv, NEW k \in Keys, Counted(k), executed'[k] = Settled[k],
         records'[k] = Cleaned[k], FinishersStay(k)
  PROVE  Counted(k)'
<1>1. CASE Cleaned[k] = NoRecord
  BY <1>1, NothingFree DEF Counted
<1>2. CASE Cleaned[k] # NoRecord
  <2>1. Cleaned[k] = records[k] /\ Settled[k] = executed[k]
    BY <1>2, CleanedType DEF Settled
  <2>2. QED
    BY <2>1, CountSame
<1>3. QED
  BY <1>1, <1>2

LEMMA StepCount ==
  ASSUME TypeOK, OwnInv, CountInv, Next
  PROVE  CountInv'
<1> SUFFICES ASSUME NEW k \in Keys, k \notin broken' PROVE Counted(k)'
  BY DEF CountInv
<1>1. broken \subseteq broken'
  BY WhatStays
<1>2. Counted(k)
  BY <1>1 DEF CountInv
<1>3. ASSUME NEW r \in Requests, Alone(r), th[r].at # "finish"
      PROVE  FinishersStay(k)
  BY <1>3 DEF Alone, FinishersStay
<1>4. ASSUME NEW r \in Requests, NEW s \in Subjects, NEW c \in Commands,
             NEW b \in BodiesOf(c), Resolve(r, s, c, b)
      PROVE  Counted(k)'
  <2>1. Alone(r) /\ th[r].at # "finish" /\ executed' = executed /\ records' = records
    BY <1>4, ResolveMoves DEF Resolve, At
  <2>2. QED
    BY <1>2, <1>3, <2>1, CountSame
<1>5. ASSUME NEW r \in Requests, Reserve(r)
      PROVE  Counted(k)'
  <2>1. Alone(r) /\ th[r].at # "finish"
    BY <1>5, ReserveMoves
  <2>2. /\ executed' = Settled /\ Cleaned[KeyOf(r)] = NoRecord
        /\ records' = [Cleaned EXCEPT ![KeyOf(r)] = Reserved(r)]
    BY <1>5 DEF Reserve, Taken
  <2>3. CASE k = KeyOf(r)
    BY <1>2, <2>2, <2>3, NothingFree DEF Counted
  <2>4. CASE k # KeyOf(r)
    <3>1. records'[k] = Cleaned[k] /\ executed'[k] = Settled[k]
      BY <2>2, <2>4, CleanedType
    <3>2. QED
      BY <1>2, <1>3, <2>1, <3>1, CountCleaned
  <2>5. QED
    BY <2>3, <2>4
<1>6. ASSUME NEW r \in Requests, Repeat(r)
      PROVE  Counted(k)'
  <2>1. Alone(r) /\ th[r].at # "finish" /\ executed' = Settled /\ records' = Cleaned
    BY <1>6, RepeatMoves
  <2>2. QED
    BY <1>2, <1>3, <2>1, CountCleaned
<1>7. ASSUME NEW r \in Requests, Deciding(r) \/ Acting(r)
      PROVE  Counted(k)'
  <2>1. Proceeds(r)
    BY <1>7, DecidingProceeds, ActingProceeds
  <2>2. /\ Alone(r) /\ Keeps(r) /\ records' = records /\ th[r].at # "finish" /\ Works(r)
        /\ \/ executed' = executed
           \/ th'[r].at = "finish" /\ executed' = [executed EXCEPT ![KeyOf(r)] = @ + 1]
    BY <2>1 DEF Proceeds, Works, Working
  <2>3. CASE executed'[k] = executed[k]
    BY <1>2, <1>3, <2>2, <2>3, CountSame
  <2>4. CASE executed'[k] # executed[k]
    <3>1. th'[r].at = "finish" /\ executed' = [executed EXCEPT ![KeyOf(r)] = @ + 1]
      BY <2>2, <2>4
    <3>2. k = KeyOf(r)
      BY <2>4, <3>1 DEF TypeOK
    <3>3. executed[k] = 0
      BY <1>2, <2>2, <3>2, NothingYet
    <3>4. executed'[k] = 1
      BY <3>1, <3>2, <3>3 DEF TypeOK
    <3>5. KeyOf(r)' = k
      BY <2>2, <3>2 DEF Keeps, KeyOf
    <3>6. QED
      BY <3>1, <3>4, <3>5 DEF Counted
  <2>5. QED
    BY <2>3, <2>4
<1>8. ASSUME NEW r \in Requests, Ends(r)
      PROVE  Counted(k)'
  <2>1. Alone(r) /\ executed' = executed /\ KeyOf(r) \in Keys
    BY <1>8, EndsMoves
  <2>2. CASE k # KeyOf(r)
    <3>1. records'[k] = records[k]
      BY <1>8, <2>2 DEF Ends, Complete, CompleteFails, Drop, DropFails, ReadAnswer, TypeOK
    <3>2. FinishersStay(k)
      BY <2>1, <2>2 DEF Alone, FinishersStay
    <3>3. QED
      BY <1>2, <2>1, <3>1, <3>2, CountSame
  <2>3. CASE k = KeyOf(r)
    <3>1. ~CompleteFails(r)
      BY <2>3 DEF CompleteFails
    <3>2. CASE Complete(r)
      <4>1. th[r].at = "finish" /\ Works(r)
        BY <3>2 DEF Complete, At, Works, Working
      <4>2. records[k].status = "pending" /\ th[r].status \in {"ok", "refused"}
        BY <2>3, <4>1 DEF OwnInv
      <4>3. records[k] \in Record /\ records[k] # NoRecord
        BY <4>2 DEF TypeOK, NoRecord
      <4>4. records'[k] = [records[k] EXCEPT !.status = th[r].status, !.expires = KeptUntil(r)]
        BY <2>3, <3>2, <4>3 DEF Complete, TypeOK
      <4>5. records'[k].status \in {"ok", "refused"}
        BY <4>2, <4>3, <4>4 DEF Record
      <4>6. QED
        BY <1>2, <2>1, <4>5 DEF Counted
    <3>3. CASE Drop(r)
      <4>1. th[r].at # "finish" /\ Works(r)
        BY <3>3 DEF Drop, At, Works, Working
      <4>2. QED
        BY <1>2, <2>1, <2>3, <4>1, NothingYet DEF Counted
    <3>4. CASE DropFails(r) \/ ReadAnswer(r)
      <4>1. th[r].at # "finish" /\ records' = records
        BY <3>4 DEF DropFails, ReadAnswer, At
      <4>2. QED
        BY <1>2, <1>3, <2>1, <4>1, CountSame
    <3>5. QED
      BY <1>8, <3>1, <3>2, <3>3, <3>4 DEF Ends
  <2>4. QED
    BY <2>2, <2>3
<1>9. CASE PruneIdempotency
  <2>1. records' = Cleaned /\ executed' = Settled /\ FinishersStay(k)
    BY <1>9 DEF PruneIdempotency, FinishersStay
  <2>2. QED
    BY <1>2, <2>1, CountCleaned
<1>10. CASE Crash
  <2>1. \A q \in Requests : th[q].at = "finish" => KeyOf(q) # k
    BY <1>10 DEF Crash, At
  <2>2. executed' = executed /\ records' = records
    BY <1>10 DEF Crash
  <2>3. QED
    BY <1>2, <2>1, <2>2, CountSame DEF FinishersStay
<1>11. CASE \/ Tick \/ Rebind
            \/ \E p \in Principals : Grant(p) \/ RevokeGrant(p)
            \/ \E open \in BOOLEAN : SetPolicy(open)
  <2>1. UNCHANGED <<executed, records, th>>
    BY <1>11 DEF Tick, Rebind, Grant, RevokeGrant, SetPolicy, history
  <2>2. QED
    BY <1>2, <2>1, CountSame DEF FinishersStay
<1>12. QED
  BY <1>4, <1>5, <1>6, <1>7, <1>8, <1>9, <1>10, <1>11 DEF Next, Deciding, Acting, Ends
-----------------------------------------------------------------------------
(* The invariant and what it implies.                                      *)
IInv ==
  /\ TypeOK /\ CodeInv /\ RightInv
  /\ OwnInv /\ RecordInv /\ CountInv

LEMMA StepInv == IInv /\ [Next]_vars => IInv'
<1> SUFFICES ASSUME IInv, [Next]_vars PROVE IInv'
  OBVIOUS
<1>1. CASE Next
  <2>1. TypeOK' /\ CodeInv'
    BY <1>1, StepType DEF IInv
  <2>2. RightInv'
    BY <1>1, StepRight DEF IInv
  <2>3. OwnInv' /\ RecordInv' /\ CountInv'
    BY <1>1, StepOwn, StepRecord, StepCount DEF IInv
  <2>4. QED
    BY <2>1, <2>2, <2>3 DEF IInv
<1>2. CASE UNCHANGED vars
  <2>1. TypeOK' /\ CodeInv'
    BY <1>2 DEF IInv, TypeOK, BindingsType, CodeInv, CodeServesOne, LinksVouched, vars, bindings,
           history
  <2>2. RightInv'
    BY <1>2 DEF IInv, RightInv, OnlyEntitled, At, Op, vars, control, history
  <2>3. OwnInv'
    BY <1>2 DEF IInv, OwnInv, Works, KeyOf, vars
  <2>4. RecordInv' /\ CountInv'
    BY <1>2 DEF IInv, RecordInv, AnswerKept, Replays, CountInv, Counted, KeyOf, vars, history
  <2>5. QED
    BY <2>1, <2>2, <2>3, <2>4 DEF IInv
<1>3. QED
  BY <1>1, <1>2

LEMMA CommandsInvHolds == Spec => []IInv
<1>1. Init => IInv
  BY InitType, InitCodes, InitRight, InitOwn, InitRecord, InitCount DEF IInv
<1>2. QED
  BY <1>1, StepInv, PTL DEF Spec

\* However binding codes are issued, redeemed, retried and pruned, each is
\* answered to one subject only, and nobody is linked without an administrator
\* or a code that was the latest of its principal.
THEOREM CodesServeOne == Spec => []CodeServesOne
<1>1. IInv => CodeServesOne
  BY DEF IInv, CodeInv
<1>2. QED
  BY <1>1, CommandsInvHolds, PTL

\* A write is executed once under its key until its answer expires, and the
\* answer a client has is the one every repetition gets.
THEOREM WritesRunOnce == Spec => []RunsOnce
<1>1. IInv => RunsOnce
  <2> SUFFICES ASSUME IInv PROVE RunsOnce
    OBVIOUS
  <2>1. \A k \in Keys \ broken : executed[k] <= 1
    BY DEF IInv, CountInv, Counted
  <2>2. \A k \in Keys : now < answers[k].until =>
          records[k].body = answers[k].body /\ records[k].status = answers[k].status
    BY DEF IInv, RecordInv, AnswerKept
  <2>3. ASSUME NEW r \in Requests, th[r].at = "replayed"
        PROVE  answers[KeyOf(r)].body = th[r].body /\ answers[KeyOf(r)].status = th[r].status
    <3> PICK k \in Keys : k = KeyOf(r)
      BY <2>3, Busy DEF IInv
    <3>1. /\ records[k].body = th[r].body /\ records[k].status = th[r].status
          /\ th[r].status \in {"ok", "refused"}
      BY <2>3 DEF IInv, RecordInv, Replays
    <3>2. QED
      BY <3>1 DEF IInv, RecordInv, AnswerKept
  <2>4. QED
    BY <2>1, <2>2, <2>3 DEF RunsOnce, AnswersKept, At
<1>2. QED
  BY <1>1, CommandsInvHolds, PTL

\* The room is asked to do only what the identity of the request had the right
\* to at some moment since its session was resolved.
THEOREM OnlyEntitledAct == Spec => []OnlyEntitled
<1>1. IInv => OnlyEntitled
  BY DEF IInv, RightInv
<1>2. QED
  BY <1>1, CommandsInvHolds, PTL
=============================================================================

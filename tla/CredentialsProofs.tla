-------------------------- MODULE CredentialsProofs --------------------------
(***************************************************************************)
(* The credential of a provider, for every number of administrators,        *)
(* accounts, refreshes, restarts, unanswered probes and failed statements:   *)
(* what a set leaves, whatever overlaps it or comes after it.                *)
(***************************************************************************)
EXTENDS Credentials, TLAPS

-----------------------------------------------------------------------------
(* The invariant *)

SetState == [pc : {"idle", "check", "store", "refuse", "name", "publish", "own"},
             payload : Credential \cup {None}]
MonitorState == [pc : {"idle", "probe", "persist", "publish", "write"},
                 payload : Credential \cup {None}, status : Statuses \cup {None}]

\* Types.
CredentialsType ==
  /\ kind \in {"ncm", "bili", "qq"} /\ accepted \subseteq Credential
  /\ row \in Row \cup {None} /\ live \in Credential \cup {None}
  /\ sets \in [Admins -> SetState] /\ monitor \in MonitorState
  /\ undisturbed \subseteq Admins
  /\ standing \in Delegation \cup {None}

\* A set has its credential, and a row once it has stored it.
SetsInv ==
  \A a \in Admins : sets[a].pc # "idle" =>
    /\ sets[a].payload \in Credential
    /\ sets[a].pc \in {"name", "publish", "own"} => row # None
    /\ sets[a].pc = "refuse" => kind # "qq"

MonitorInv ==
  /\ monitor.pc # "idle" => row # None
  /\ monitor.pc = "write" => monitor.status \in Statuses
  /\ monitor.pc \in {"probe", "persist", "publish"} => monitor.payload \in Credential
  /\ monitor.pc \in {"persist", "publish"} => kind = "qq"

\* What the set of a, which runs alone, has written so far.
Progress(a) ==
  /\ kind = "qq" => monitor.pc = "idle"
  /\ \A b \in Admins : b # a => sets[b].pc = "idle"
  /\ sets[a].pc \in {"name", "publish", "own"} => row.payload = sets[a].payload
  /\ sets[a].pc \in {"publish", "own"} /\ kind # "bili" => row.account = sets[a].payload.account
  /\ sets[a].pc = "own" => live = sets[a].payload

AloneInv == \A a \in undisturbed : sets[a].pc # "idle" => Progress(a)

\* While a delegation stands no other credential has passed its check; a refresh can
\* open an account again for qq only, and there nothing of another account is left.
StandInv ==
  standing # None =>
    /\ \A a \in Admins : sets[a].pc \notin {"name", "publish", "own"}
    /\ kind = "qq" =>
         /\ row # None /\ row.payload.account = standing.account
         /\ live # None => live.account = standing.account
         /\ monitor.pc \in {"probe", "persist", "publish"} =>
              monitor.payload.account = standing.account

\* The inductive invariant.
IInv ==
  /\ CredentialsType /\ SetsInv /\ MonitorInv /\ AloneInv /\ StandInv /\ DelegationStands

LEMMA NoneIsNothing ==
  /\ None \notin Admins /\ None \notin Accounts /\ None \notin Credential /\ None \notin Row
  /\ None \notin Delegation /\ MaxGen \in Nat
BY CredentialsAssumption

LEMMA RefreshedIsCredential ==
  ASSUME NEW c \in Credential, c.gen < MaxGen
  PROVE  Refreshed(c) \in Credential /\ Refreshed(c).account = c.account
BY NoneIsNothing DEF Credential, Refreshed

LEMMA UpsertKeeps ==
  ASSUME row \in Row \cup {None}, NEW c \in Credential, NEW s \in Statuses, Upsert(c, s)
  PROVE  /\ row' \in Row /\ row' # None /\ row'.payload = c
         /\ row # None => row'.owner = row.owner /\ row'.account = row.account
<1>1. CASE row = None
  <2>1. row' = [payload |-> c, status |-> s, owner |-> None, account |-> None]
    BY <1>1 DEF Upsert
  <2>2. row' \in Row
    BY <2>1 DEF Row
  <2> QED BY <1>1, <2>1, <2>2, NoneIsNothing
<1>2. CASE row # None
  <2>1. row' = [row EXCEPT !.payload = c, !.status = s] /\ row \in Row
    BY <1>2 DEF Upsert
  <2>2. row' \in Row /\ row'.payload = c /\ row'.owner = row.owner /\ row'.account = row.account
    BY <2>1 DEF Row
  <2> QED BY <1>2, <2>2, NoneIsNothing
<1> QED BY <1>1, <1>2

LEMMA IdleAndResting ==
  /\ Idle \in SetState /\ Idle.pc = "idle"
  /\ Resting \in MonitorState /\ Resting.pc = "idle"
BY DEF Idle, Resting, SetState, MonitorState

\* Everybody but a is where they were.
LEMMA SetMoves ==
  ASSUME IInv, NEW a \in Admins, NEW r \in SetState, sets' = [sets EXCEPT ![a] = r]
  PROVE  /\ sets' \in [Admins -> SetState] /\ sets'[a] = r
         /\ \A b \in Admins : b # a => sets'[b] = sets[b]
BY DEF IInv, CredentialsType

LEMMA Proceeding ==
  ASSUME IInv, NEW a \in Admins, NEW c \in Credential,
         NEW pc \in {"check", "store", "refuse", "name", "publish", "own"}, Proceeds(a, pc, c)
  PROVE  /\ sets' \in [Admins -> SetState] /\ sets'[a].pc = pc /\ sets'[a].payload = c
         /\ \A b \in Admins : b # a => sets'[b] = sets[b]
<1>1. [pc |-> pc, payload |-> c] \in SetState
  BY DEF SetState
<1> QED BY <1>1, SetMoves DEF Proceeds

LEMMA Ending ==
  ASSUME IInv, NEW a \in Admins, Ends(a)
  PROVE  /\ sets' \in [Admins -> SetState] /\ sets'[a].pc = "idle"
         /\ \A b \in Admins : b # a => sets'[b] = sets[b]
BY IdleAndResting, SetMoves DEF Ends

LEMMA PayloadIsCredential ==
  ASSUME IInv, NEW a \in Admins, sets[a].pc # "idle"
  PROVE  sets[a].payload \in Credential /\ sets[a].payload.account \in Accounts
BY DEF IInv, SetsInv, Credential

\* A set that ends with nothing written.
LEMMA EndsIdly ==
  ASSUME IInv, NEW a \in Admins, Ends(a),
         UNCHANGED <<kind, accepted, row, live, monitor, undisturbed, standing>>
  PROVE  IInv'
<1>1. /\ sets' \in [Admins -> SetState] /\ sets'[a].pc = "idle"
      /\ \A b \in Admins : b # a => sets'[b] = sets[b]
  BY Ending
<1>2. CredentialsType'
  BY <1>1 DEF IInv, CredentialsType
<1>3. SetsInv' /\ MonitorInv'
  BY <1>1 DEF IInv, SetsInv, MonitorInv
<1>4. AloneInv'
  BY <1>1 DEF IInv, AloneInv, Progress, CredentialsType
<1>5. StandInv' /\ DelegationStands'
  BY <1>1 DEF IInv, StandInv, DelegationStands
<1> QED BY <1>2, <1>3, <1>4, <1>5 DEF IInv

-----------------------------------------------------------------------------
(* Steps of the platform, the monitor and the writers *)

LEMMA ExpireKeeps ==
  ASSUME IInv, Expire
  PROVE  IInv'
<1>1. /\ accepted' \subseteq accepted
      /\ UNCHANGED <<kind, row, live, sets, monitor, undisturbed, standing>>
  BY DEF Expire
<1>2. CredentialsType'
  BY <1>1 DEF IInv, CredentialsType
<1>3. SetsInv' /\ MonitorInv' /\ AloneInv'
  BY <1>1 DEF IInv, SetsInv, MonitorInv, AloneInv, Progress
<1>4. StandInv' /\ DelegationStands'
  BY <1>1 DEF IInv, StandInv, DelegationStands
<1> QED BY <1>2, <1>3, <1>4 DEF IInv

LEMMA CheckBeginKeeps ==
  ASSUME IInv, CheckBegin
  PROVE  IInv'
<1>1. /\ UNCHANGED <<kind, accepted, row, live, sets, standing>>
      /\ undisturbed' = IF kind = "qq" THEN {} ELSE undisturbed
      /\ monitor.pc = "idle" /\ row # None
  BY DEF CheckBegin, Probed
<1>2. \/ monitor' = [pc |-> "write", payload |-> None, status |-> "unset"]
      \/ \E c \in Credential :
           /\ kind = "qq" => c = live
           /\ monitor' = [pc |-> "probe", payload |-> c, status |-> None]
  <2>1. row.payload \in Credential
    BY <1>1 DEF IInv, CredentialsType, Row
  <2>2. CASE kind = "qq" /\ live # None
    BY <2>2 DEF CheckBegin, IInv, CredentialsType
  <2>3. CASE kind # "qq" \/ live = None
    BY <2>1, <2>3 DEF CheckBegin
  <2> QED BY <2>2, <2>3
<1>3. /\ monitor' \in MonitorState /\ monitor'.pc \in {"write", "probe"}
      /\ monitor'.pc = "write" => monitor'.status \in Statuses
      /\ monitor'.pc = "probe" => monitor'.payload \in Credential /\ (kind = "qq" => monitor'.payload = live)
  BY <1>2 DEF MonitorState, Statuses
<1>4. CredentialsType'
  BY <1>1, <1>3 DEF IInv, CredentialsType
<1>5. SetsInv' /\ MonitorInv'
  BY <1>1, <1>3 DEF IInv, SetsInv, MonitorInv
<1>6. AloneInv'
  BY <1>1 DEF IInv, AloneInv, Progress
<1>7. StandInv' /\ DelegationStands'
  BY <1>1, <1>3, NoneIsNothing DEF IInv, StandInv, DelegationStands
<1> QED BY <1>4, <1>5, <1>6, <1>7 DEF IInv

\* The monitor goes on, with a credential of the same account.
LEMMA MonitorMoves ==
  ASSUME IInv, UNCHANGED <<kind, row, live, sets, undisturbed, standing>>,
         accepted' = accepted \/ (kind = "qq" /\ accepted' \subseteq Credential),
         monitor' \in MonitorState, MonitorInv', monitor.pc # "idle",
         kind = "qq" /\ monitor'.pc \in {"probe", "persist", "publish"} =>
           /\ monitor.pc \in {"probe", "persist", "publish"}
           /\ monitor'.payload.account = monitor.payload.account
  PROVE  IInv'
<1>1. CredentialsType'
  BY DEF IInv, CredentialsType
<1>2. SetsInv'
  BY DEF IInv, SetsInv
<1>3. AloneInv'
  BY DEF IInv, AloneInv, Progress
<1>4. StandInv'
  BY DEF IInv, StandInv
<1>5. DelegationStands'
  <2>1. CASE kind = "qq"
    BY <2>1, NoneIsNothing DEF IInv, StandInv, DelegationStands, CredentialsType
  <2>2. CASE kind # "qq"
    BY <2>2 DEF IInv, DelegationStands
  <2> QED BY <2>1, <2>2
<1> QED BY <1>1, <1>2, <1>3, <1>4, <1>5 DEF IInv

LEMMA CheckProbeKeeps ==
  ASSUME IInv, CheckProbe
  PROVE  IInv'
<1>1. /\ UNCHANGED <<kind, row, live, sets, undisturbed, standing>>
      /\ monitor.pc = "probe" /\ row # None /\ monitor \in MonitorState
  BY DEF CheckProbe, IInv, MonitorInv, CredentialsType
<1> PICK c \in Credential : c = monitor.payload
  BY <1>1 DEF IInv, MonitorInv
<1>2. CASE Probe(c)
  <2>1. PICK s \in Statuses : monitor' = [monitor EXCEPT !.pc = "write", !.status = s]
    BY <1>2 DEF Probe, Finds, Statuses
  <2>2. monitor' \in MonitorState /\ monitor'.pc = "write" /\ monitor'.status = s
    BY <1>1, <2>1 DEF MonitorState
  <2>3. MonitorInv' /\ accepted' = accepted
    BY <1>1, <1>2, <2>2 DEF MonitorInv, Probe
  <2>4. monitor.pc # "idle" /\ monitor'.pc \notin {"probe", "persist", "publish"}
    BY <1>1, <2>2
  <2> QED BY <1>1, <2>2, <2>3, <2>4, MonitorMoves
<1>3. CASE RefreshCredential(c)
  <2>1. /\ kind = "qq" /\ c.gen < MaxGen /\ accepted' = accepted \cup {Refreshed(c)}
        /\ monitor' = [pc |-> "persist", payload |-> Refreshed(c), status |-> None]
    BY <1>3 DEF RefreshCredential, Refreshable
  <2>2. Refreshed(c) \in Credential /\ Refreshed(c).account = c.account
    BY <2>1, RefreshedIsCredential
  <2>3. /\ monitor' \in MonitorState /\ monitor'.pc = "persist"
        /\ monitor'.payload = Refreshed(c)
    BY <2>1, <2>2 DEF MonitorState
  <2>4. MonitorInv' /\ accepted' \subseteq Credential
    BY <1>1, <2>1, <2>2, <2>3 DEF MonitorInv, IInv, CredentialsType
  <2>5. monitor'.payload.account = monitor.payload.account
    BY <2>2, <2>3
  <2> QED BY <1>1, <2>1, <2>3, <2>4, <2>5, MonitorMoves
<1> QED BY <1>2, <1>3 DEF CheckProbe

\* A refreshed credential is stored: its row keeps the owner and the account.
LEMMA PersistKeeps ==
  ASSUME IInv, PersistCredential
  PROVE  IInv'
<1>1. /\ UNCHANGED <<kind, accepted, live, sets, undisturbed, standing>>
      /\ monitor.pc = "persist" /\ row # None /\ kind = "qq" /\ monitor \in MonitorState
      /\ row \in Row \cup {None}
  BY DEF PersistCredential, IInv, MonitorInv, CredentialsType
<1> PICK c \in Credential : c = monitor.payload
  BY <1>1 DEF IInv, MonitorInv
<1>2. CASE Upsert(c, "ok") /\ monitor' = [monitor EXCEPT !.pc = "publish"]
  <2>1. "ok" \in Statuses
    BY DEF Statuses
  <2>2. /\ row' \in Row /\ row' # None /\ row'.payload = c
        /\ row'.owner = row.owner /\ row'.account = row.account
    BY <1>1, <1>2, <2>1, UpsertKeeps
  <2>3. monitor' \in MonitorState /\ monitor'.pc = "publish" /\ monitor'.payload = c
    BY <1>1, <1>2 DEF MonitorState
  <2>4. CredentialsType'
    BY <1>1, <2>2, <2>3 DEF IInv, CredentialsType
  <2>5. SetsInv' /\ MonitorInv'
    BY <1>1, <2>2, <2>3 DEF IInv, SetsInv, MonitorInv
  <2>6. AloneInv'
    BY <1>1 DEF IInv, AloneInv, Progress
  <2>7. StandInv'
    BY <1>1, <2>2, <2>3 DEF IInv, StandInv
  <2>8. DelegationStands'
    BY <1>1, <2>2, <2>7, NoneIsNothing DEF IInv, StandInv, DelegationStands, CredentialsType
  <2> QED BY <2>4, <2>5, <2>6, <2>7, <2>8 DEF IInv
<1>3. CASE Finds("invalid") /\ row' = row
  <2>1. monitor' \in MonitorState /\ monitor'.pc = "write" /\ monitor'.status = "invalid"
    BY <1>1, <1>3 DEF MonitorState, Finds, Statuses
  <2>2. MonitorInv'
    BY <1>1, <1>3, <2>1 DEF MonitorInv, Statuses
  <2>3. monitor.pc # "idle" /\ monitor'.pc \notin {"probe", "persist", "publish"}
    BY <1>1, <2>1
  <2> QED BY <1>1, <1>3, <2>1, <2>2, <2>3, MonitorMoves
<1> QED BY <1>2, <1>3 DEF PersistCredential

LEMMA PublishRefreshedKeeps ==
  ASSUME IInv, PublishRefreshed
  PROVE  IInv'
<1>1. /\ UNCHANGED <<kind, accepted, row, sets, undisturbed, standing>>
      /\ monitor.pc = "publish" /\ row # None /\ kind = "qq" /\ monitor \in MonitorState
      /\ live' = monitor.payload /\ monitor.payload \in Credential
  BY DEF PublishRefreshed, IInv, MonitorInv, CredentialsType
<1>2. monitor' \in MonitorState /\ monitor'.pc = "write" /\ monitor'.status = "ok"
  BY <1>1 DEF PublishRefreshed, MonitorState, Finds, Statuses
<1>3. CredentialsType'
  BY <1>1, <1>2 DEF IInv, CredentialsType
<1>4. SetsInv' /\ MonitorInv'
  BY <1>1, <1>2 DEF IInv, SetsInv, MonitorInv, Statuses
<1>5. AloneInv'
  BY <1>1 DEF IInv, AloneInv, Progress
<1>6. StandInv'
  BY <1>1, <1>2 DEF IInv, StandInv
<1>7. DelegationStands'
  BY <1>1, <1>6 DEF IInv, StandInv, DelegationStands
<1> QED BY <1>3, <1>4, <1>5, <1>6, <1>7 DEF IInv

LEMMA CheckWriteKeeps ==
  ASSUME IInv, CheckWrite
  PROVE  IInv'
<1>1. /\ UNCHANGED <<kind, accepted, live, sets, undisturbed, standing>>
      /\ monitor' = Resting /\ row # None /\ row \in Row /\ monitor.status \in Statuses
      /\ row' = [row EXCEPT !.status = monitor.status] \/ row' = row
  BY DEF CheckWrite, IInv, MonitorInv, CredentialsType
<1>2. /\ row' \in Row /\ row' # None /\ row'.payload = row.payload
      /\ row'.owner = row.owner /\ row'.account = row.account
  <2>1. /\ row' \in Row /\ row'.payload = row.payload
        /\ row'.owner = row.owner /\ row'.account = row.account
    BY <1>1 DEF Row
  <2> QED BY <2>1, NoneIsNothing
<1>3. monitor' \in MonitorState /\ monitor'.pc = "idle"
  BY <1>1, IdleAndResting
<1>4. CredentialsType'
  BY <1>1, <1>2, <1>3 DEF IInv, CredentialsType
<1>5. SetsInv' /\ MonitorInv'
  BY <1>1, <1>2, <1>3 DEF IInv, SetsInv, MonitorInv
<1>6. AloneInv'
  BY <1>1, <1>2, <1>3 DEF IInv, AloneInv, Progress
<1>7. StandInv' /\ DelegationStands'
  BY <1>1, <1>2, <1>3 DEF IInv, StandInv, DelegationStands
<1> QED BY <1>4, <1>5, <1>6, <1>7 DEF IInv

LEMMA WritersKeep ==
  ASSUME IInv, WriteBegin \/ Write
  PROVE  IInv'
<1>1. UNCHANGED <<kind, accepted, row, live, sets, monitor, undisturbed, standing>>
  BY DEF WriteBegin, Write
<1>2. CredentialsType' /\ SetsInv' /\ MonitorInv'
  BY <1>1 DEF IInv, CredentialsType, SetsInv, MonitorInv
<1>3. AloneInv' /\ StandInv' /\ DelegationStands'
  BY <1>1 DEF IInv, AloneInv, Progress, StandInv, DelegationStands
<1> QED BY <1>2, <1>3 DEF IInv

\* A start loads the newest row, or nothing.
LEMMA RestartKeeps ==
  ASSUME IInv, Restart
  PROVE  IInv'
<1>1. /\ UNCHANGED <<kind, accepted, row, standing>> /\ undisturbed' = {}
      /\ live' = Restored \/ live' = None
      /\ monitor' = Resting /\ sets' = [a \in Admins |-> Idle]
  BY DEF Restart
<1>2. sets' \in [Admins -> SetState] /\ \A a \in Admins : sets'[a].pc = "idle"
  BY <1>1, IdleAndResting
<1>3. monitor' \in MonitorState /\ monitor'.pc = "idle"
  BY <1>1, IdleAndResting
<1>4. /\ live' \in Credential \cup {None}
      /\ live' # None => row # None /\ live' = row.payload
  BY <1>1 DEF Restored, IInv, CredentialsType, Row
<1>5. CredentialsType'
  BY <1>1, <1>2, <1>3, <1>4 DEF IInv, CredentialsType
<1>6. SetsInv' /\ MonitorInv' /\ AloneInv'
  BY <1>1, <1>2, <1>3 DEF SetsInv, MonitorInv, AloneInv
<1>7. StandInv'
  BY <1>1, <1>2, <1>3, <1>4 DEF IInv, StandInv
<1>8. DelegationStands'
  BY <1>1, <1>4, NoneIsNothing DEF IInv, DelegationStands, CredentialsType
<1> QED BY <1>5, <1>6, <1>7, <1>8 DEF IInv

-----------------------------------------------------------------------------
(* Steps of a set *)

LEMMA SetBeginKeeps ==
  ASSUME IInv, SetBegin
  PROVE  IInv'
<1>1. PICK a \in Admins, c \in Credential :
        /\ sets[a].pc = "idle"
        /\ sets' = [sets EXCEPT ![a] = [pc |-> "check", payload |-> c]]
        /\ undisturbed' = IF Setting = {} /\ (kind = "qq" => monitor.pc = "idle") THEN {a} ELSE {}
        /\ UNCHANGED <<kind, accepted, row, live, monitor, standing>>
  BY DEF SetBegin, Pasted, Scanned
<1>2. [pc |-> "check", payload |-> c] \in SetState
  BY DEF SetState
<1>3. /\ sets' \in [Admins -> SetState] /\ sets'[a].pc = "check" /\ sets'[a].payload = c
      /\ \A b \in Admins : b # a => sets'[b] = sets[b]
  BY <1>1, <1>2, SetMoves
<1>4. CredentialsType'
  BY <1>1, <1>3 DEF IInv, CredentialsType
<1>5. SetsInv' /\ MonitorInv'
  BY <1>1, <1>3 DEF IInv, SetsInv, MonitorInv
<1>6. AloneInv'
  BY <1>1, <1>3 DEF AloneInv, Progress, Setting
<1>7. StandInv' /\ DelegationStands'
  BY <1>1, <1>3 DEF IInv, StandInv, DelegationStands
<1> QED BY <1>4, <1>5, <1>6, <1>7 DEF IInv

\* The check changes what the platform accepts, for qq, and the place of the set.
LEMMA ChecksOn ==
  ASSUME IInv, NEW a \in Admins, NEW c \in Credential, NEW pc \in {"store", "refuse"},
         Proceeds(a, pc, c), sets[a].pc = "check",
         UNCHANGED <<kind, row, live, monitor, undisturbed, standing>>,
         accepted' = accepted \/ (kind = "qq" /\ accepted' \subseteq Credential),
         pc = "refuse" => kind # "qq"
  PROVE  IInv'
<1>1. /\ sets' \in [Admins -> SetState] /\ sets'[a].pc = pc /\ sets'[a].payload = c
      /\ \A b \in Admins : b # a => sets'[b] = sets[b]
  BY Proceeding
<1>2. CredentialsType'
  BY <1>1 DEF IInv, CredentialsType
<1>3. SetsInv' /\ MonitorInv'
  BY <1>1 DEF IInv, SetsInv, MonitorInv
<1>4. AloneInv'
  BY <1>1 DEF IInv, AloneInv, Progress, CredentialsType
<1>5. StandInv'
  BY <1>1 DEF IInv, StandInv
<1>6. DelegationStands'
  <2>1. CASE kind = "qq"
    BY <2>1, NoneIsNothing DEF IInv, StandInv, DelegationStands, CredentialsType
  <2>2. CASE kind # "qq"
    BY <2>2 DEF IInv, DelegationStands
  <2> QED BY <2>1, <2>2
<1> QED BY <1>2, <1>3, <1>4, <1>5, <1>6 DEF IInv

LEMMA ValidateKeeps ==
  ASSUME IInv, NEW a \in Admins, Validate(a)
  PROVE  IInv'
<1>1. /\ sets[a].pc = "check"
      /\ UNCHANGED <<kind, row, live, monitor, undisturbed, standing>>
  BY DEF Validate
<1> PICK c \in Credential : c = sets[a].payload
  BY <1>1, PayloadIsCredential
<1>2. CheckLogin(a, c) \/ TakeUnchecked(a, c) \/ RefreshProbe(a, c)
  BY DEF Validate
<1>3. CASE CheckLogin(a, c)
  <2>1. /\ accepted' = accepted /\ kind # "qq"
        /\ \E pc \in {"store", "refuse"} : Proceeds(a, pc, c)
    BY <1>3 DEF CheckLogin
  <2> PICK pc \in {"store", "refuse"} : Proceeds(a, pc, c)
    BY <2>1
  <2> QED BY <1>1, <2>1, ChecksOn
<1>4. CASE TakeUnchecked(a, c)
  <2>1. accepted' = accepted /\ Proceeds(a, "store", c)
    BY <1>4 DEF TakeUnchecked
  <2>2. "store" \in {"store", "refuse"} /\ "store" # "refuse"
    OBVIOUS
  <2> QED BY <1>1, <2>1, <2>2, ChecksOn
<1>5. CASE Refreshable(c) /\ c.gen < MaxGen /\ Proceeds(a, "store", Refreshed(c))
           /\ accepted' = accepted \cup {Refreshed(c)}
  <2>1. Refreshed(c) \in Credential /\ kind = "qq"
    BY <1>5, RefreshedIsCredential DEF Refreshable
  <2>2. accepted' \subseteq Credential
    BY <1>5, <2>1 DEF IInv, CredentialsType
  <2> QED BY <1>1, <1>5, <2>1, <2>2, ChecksOn
<1>6. CASE Ends(a) /\ accepted' = accepted
  BY <1>1, <1>6, EndsIdly
<1> QED BY <1>2, <1>3, <1>4, <1>5, <1>6 DEF RefreshProbe

\* A credential that passed is stored: nothing stands until its set is through.
LEMMA StoreRowKeeps ==
  ASSUME IInv, NEW a \in Admins, StoreRow(a)
  PROVE  IInv'
<1>1. /\ sets[a].pc = "store" /\ row \in Row \cup {None}
      /\ UNCHANGED <<kind, accepted, live, monitor, undisturbed>>
  BY DEF StoreRow, IInv, CredentialsType
<1> PICK c \in Credential : c = sets[a].payload
  BY <1>1, PayloadIsCredential
<1> PICK pc \in {"name", "publish"} : pc = IF kind = "bili" THEN "publish" ELSE "name"
  OBVIOUS
<1>2. CASE Upsert(c, "ok") /\ standing' = None /\ Proceeds(a, pc, c)
  <2>1. "ok" \in Statuses
    BY DEF Statuses
  <2>2. row' \in Row /\ row' # None /\ row'.payload = c
    BY <1>1, <1>2, <2>1, UpsertKeeps
  <2>3. /\ sets' \in [Admins -> SetState] /\ sets'[a].pc = pc /\ sets'[a].payload = c
        /\ \A b \in Admins : b # a => sets'[b] = sets[b]
    BY <1>2, Proceeding
  <2>4. CredentialsType'
    BY <1>1, <1>2, <2>2, <2>3 DEF IInv, CredentialsType
  <2>5. SetsInv' /\ MonitorInv'
    BY <1>1, <2>2, <2>3 DEF IInv, SetsInv, MonitorInv
  <2>6. AloneInv'
    <3> SUFFICES ASSUME NEW b \in undisturbed, sets'[b].pc # "idle" PROVE Progress(b)'
      BY <1>1 DEF AloneInv
    <3>1. b \in Admins /\ sets[b].pc # "idle" /\ Progress(b)
      BY <1>1, <2>3 DEF IInv, AloneInv, CredentialsType
    <3>2. b = a
      BY <1>1, <3>1 DEF Progress
    <3> QED BY <1>1, <2>2, <2>3, <3>1, <3>2 DEF Progress
  <2>7. StandInv' /\ DelegationStands'
    BY <1>2 DEF StandInv, DelegationStands
  <2> QED BY <2>4, <2>5, <2>6, <2>7 DEF IInv
<1>3. CASE Ends(a) /\ UNCHANGED <<row, standing>>
  BY <1>1, <1>3, EndsIdly
<1> QED BY <1>2, <1>3 DEF StoreRow

\* The row of a refused credential keeps owner and account, and opens no account while a
\* delegation stands.
LEMMA RefuseKeeps ==
  ASSUME IInv, NEW a \in Admins, Refuse(a)
  PROVE  IInv'
<1>1. /\ sets[a].pc = "refuse" /\ Ends(a) /\ row \in Row \cup {None} /\ kind # "qq"
      /\ UNCHANGED <<kind, accepted, live, monitor, undisturbed>>
  BY DEF Refuse, IInv, CredentialsType, SetsInv
<1> PICK c \in Credential : c = sets[a].payload
  BY <1>1, PayloadIsCredential
<1>2. CASE Upsert(c, "invalid") /\ standing' = IF c \in accepted THEN None ELSE standing
  <2>1. "invalid" \in Statuses
    BY DEF Statuses
  <2>2. /\ row' \in Row /\ row' # None /\ row'.payload = c
        /\ row # None => row'.owner = row.owner /\ row'.account = row.account
    BY <1>1, <1>2, <2>1, UpsertKeeps
  <2>3. /\ sets' \in [Admins -> SetState] /\ sets'[a].pc = "idle"
        /\ \A b \in Admins : b # a => sets'[b] = sets[b]
    BY <1>1, Ending
  <2>4. CredentialsType'
    BY <1>1, <1>2, <2>2, <2>3 DEF IInv, CredentialsType
  <2>5. SetsInv' /\ MonitorInv'
    BY <1>1, <2>2, <2>3 DEF IInv, SetsInv, MonitorInv
  <2>6. AloneInv'
    <3> SUFFICES ASSUME NEW b \in undisturbed, sets'[b].pc # "idle" PROVE FALSE
      BY <1>1 DEF AloneInv
    <3>1. b \in Admins /\ b # a /\ sets[b].pc # "idle" /\ Progress(b)
      BY <1>1, <2>3 DEF IInv, AloneInv, CredentialsType
    <3> QED BY <1>1, <3>1 DEF Progress
  <2>7. StandInv'
    BY <1>1, <1>2, <2>3 DEF IInv, StandInv
  <2>8. DelegationStands'
    BY <1>1, <1>2, <2>2, NoneIsNothing DEF IInv, DelegationStands
  <2> QED BY <2>4, <2>5, <2>6, <2>7, <2>8 DEF IInv
<1>3. CASE UNCHANGED <<row, standing>>
  BY <1>1, <1>3, EndsIdly
<1> QED BY <1>2, <1>3 DEF Refuse

\* The account is named, or the row keeps the one it had, and the set is not alone.
LEMMA NameKeeps ==
  ASSUME IInv, NEW a \in Admins, Name(a)
  PROVE  IInv'
<1>1. /\ sets[a].pc = "name" /\ row # None /\ row \in Row
      /\ UNCHANGED <<kind, accepted, live, monitor, standing>>
  BY DEF Name, IInv, SetsInv, CredentialsType
<1> PICK c \in Credential : c = sets[a].payload
  BY <1>1, PayloadIsCredential
<1>2. /\ sets' \in [Admins -> SetState] /\ sets'[a].pc = "publish" /\ sets'[a].payload = c
      /\ \A b \in Admins : b # a => sets'[b] = sets[b]
  BY Proceeding DEF Name
<1>3. standing = None
  BY <1>1 DEF IInv, StandInv
<1>4. /\ row' \in Row /\ row' # None /\ row'.payload = row.payload
      /\ \/ row'.account = c.account /\ undisturbed' = undisturbed
         \/ undisturbed' = undisturbed \ {a}
  <2>1. CASE row' = [row EXCEPT !.account = c.account] /\ undisturbed' = undisturbed
    <3>1. c.account \in Accounts
      BY DEF Credential
    <3>2. row' \in Row /\ row'.payload = row.payload /\ row'.account = c.account
      BY <1>1, <2>1, <3>1 DEF Row
    <3> QED BY <2>1, <3>2, NoneIsNothing
  <2>2. CASE undisturbed' = undisturbed \ {a} /\ row' = row
    BY <1>1, <2>2
  <2> QED BY <2>1, <2>2 DEF Name
<1>5. CredentialsType'
  BY <1>1, <1>2, <1>4 DEF IInv, CredentialsType
<1>6. SetsInv' /\ MonitorInv'
  BY <1>1, <1>2, <1>4 DEF IInv, SetsInv, MonitorInv
<1>7. AloneInv'
  <2> SUFFICES ASSUME NEW b \in undisturbed', sets'[b].pc # "idle" PROVE Progress(b)'
    BY DEF AloneInv
  <2>1. b \in Admins /\ b \in undisturbed /\ sets[b].pc # "idle" /\ Progress(b)
    BY <1>1, <1>2, <1>4 DEF IInv, AloneInv, CredentialsType
  <2>2. b = a /\ row'.account = c.account
    BY <1>1, <1>4, <2>1 DEF Progress
  <2> QED BY <1>1, <1>2, <1>4, <2>1, <2>2 DEF Progress
<1>8. StandInv' /\ DelegationStands'
  BY <1>1, <1>3 DEF StandInv, DelegationStands
<1> QED BY <1>5, <1>6, <1>7, <1>8 DEF IInv

LEMMA PublishKeeps ==
  ASSUME IInv, NEW a \in Admins, Publish(a)
  PROVE  IInv'
<1>1. /\ sets[a].pc = "publish" /\ row # None
      /\ UNCHANGED <<kind, accepted, row, monitor, undisturbed, standing>>
  BY DEF Publish, IInv, SetsInv
<1> PICK c \in Credential : c = sets[a].payload
  BY <1>1, PayloadIsCredential
<1>2. /\ sets' \in [Admins -> SetState] /\ sets'[a].pc = "own" /\ sets'[a].payload = c
      /\ \A b \in Admins : b # a => sets'[b] = sets[b]
  BY Proceeding DEF Publish
<1>3. standing = None /\ live' = c
  BY <1>1 DEF IInv, StandInv, Publish
<1>4. CredentialsType'
  BY <1>1, <1>2, <1>3 DEF IInv, CredentialsType
<1>5. SetsInv' /\ MonitorInv'
  BY <1>1, <1>2 DEF IInv, SetsInv, MonitorInv
<1>6. AloneInv'
  <2> SUFFICES ASSUME NEW b \in undisturbed, sets'[b].pc # "idle" PROVE Progress(b)'
    BY <1>1 DEF AloneInv
  <2>1. b \in Admins /\ sets[b].pc # "idle" /\ Progress(b)
    BY <1>1, <1>2 DEF IInv, AloneInv, CredentialsType
  <2>2. b = a
    BY <1>1, <2>1 DEF Progress
  <2> QED BY <1>1, <1>2, <1>3, <2>1, <2>2 DEF Progress
<1>7. StandInv' /\ DelegationStands'
  BY <1>1, <1>3 DEF StandInv, DelegationStands
<1> QED BY <1>4, <1>5, <1>6, <1>7 DEF IInv

\* The set ends: when it ran alone, row, memory and owner are those of its administrator.
LEMMA OwnKeeps ==
  ASSUME IInv, NEW a \in Admins, Own(a)
  PROVE  IInv'
<1>1. /\ sets[a].pc = "own" /\ Ends(a) /\ row # None /\ row \in Row
      /\ UNCHANGED <<kind, accepted, live, monitor, undisturbed>>
  BY DEF Own, IInv, SetsInv, CredentialsType
<1> PICK c \in Credential : c = sets[a].payload
  BY <1>1, PayloadIsCredential
<1>2. CASE /\ row' = [row EXCEPT !.owner = a]
           /\ standing' = IF a \in undisturbed THEN [by |-> a, account |-> c.account] ELSE standing
  <2>1. /\ sets' \in [Admins -> SetState] /\ sets'[a].pc = "idle"
        /\ \A b \in Admins : b # a => sets'[b] = sets[b]
    BY <1>1, Ending
  <2>2. /\ row' \in Row /\ row' # None /\ row'.owner = a
        /\ row'.payload = row.payload /\ row'.account = row.account
    <3>1. /\ row' \in Row /\ row'.owner = a
          /\ row'.payload = row.payload /\ row'.account = row.account
      BY <1>1, <1>2 DEF Row
    <3> QED BY <3>1, NoneIsNothing
  <2>3. standing = None /\ c.account \in Accounts
    BY <1>1 DEF IInv, StandInv, Credential
  <2>4. CredentialsType'
    BY <1>1, <1>2, <2>1, <2>2, <2>3 DEF IInv, CredentialsType, Delegation
  <2>5. SetsInv' /\ MonitorInv'
    BY <1>1, <2>1, <2>2 DEF IInv, SetsInv, MonitorInv
  <2>6. AloneInv'
    <3> SUFFICES ASSUME NEW b \in undisturbed, sets'[b].pc # "idle" PROVE FALSE
      BY <1>1 DEF AloneInv
    <3>1. b \in Admins /\ b # a /\ sets[b].pc # "idle" /\ Progress(b)
      BY <1>1, <2>1 DEF IInv, AloneInv, CredentialsType
    <3> QED BY <1>1, <3>1 DEF Progress
  <2>7. CASE a \in undisturbed
    <3>1. Progress(a)
      BY <1>1, <2>7 DEF IInv, AloneInv
    <3>2. /\ row.payload = c /\ live = c /\ (kind = "qq" => monitor.pc = "idle")
          /\ kind # "bili" => row.account = c.account
          /\ \A b \in Admins : sets'[b].pc = "idle"
      BY <1>1, <2>1, <3>1 DEF Progress
    <3>3. standing' # None /\ standing'.by = a /\ standing'.account = c.account
      <4>1. standing' = [by |-> a, account |-> c.account]
        BY <1>2, <2>7
      <4> QED BY <2>3, <4>1, NoneIsNothing DEF Delegation
    <3>4. StandInv'
      BY <1>1, <2>2, <3>2, <3>3 DEF StandInv
    <3>5. DelegationStands'
      BY <1>1, <2>2, <3>2, <3>3 DEF DelegationStands
    <3> QED BY <2>4, <2>5, <2>6, <3>4, <3>5 DEF IInv
  <2>8. CASE a \notin undisturbed
    <3>1. StandInv' /\ DelegationStands'
      BY <1>2, <2>3, <2>8 DEF StandInv, DelegationStands
    <3> QED BY <2>4, <2>5, <2>6, <3>1 DEF IInv
  <2> QED BY <2>7, <2>8
<1>3. CASE UNCHANGED <<row, standing>>
  BY <1>1, <1>3, EndsIdly
<1> QED BY <1>2, <1>3 DEF Own, Owned

-----------------------------------------------------------------------------
(* Theorems *)

LEMMA InitIInv ==
  ASSUME Init
  PROVE  IInv
<1>1. /\ kind \in {"ncm", "bili", "qq"} /\ accepted \subseteq Credential /\ row = None /\ live = None
      /\ sets = [a \in Admins |-> Idle] /\ monitor = Resting
      /\ undisturbed = {} /\ standing = None
  BY CredentialsAssumption DEF Init, Pasted, Scanned
<1>2. sets \in [Admins -> SetState] /\ \A a \in Admins : sets[a].pc = "idle"
  BY <1>1, IdleAndResting
<1>3. monitor \in MonitorState /\ monitor.pc = "idle"
  BY <1>1, IdleAndResting
<1>4. CredentialsType
  BY <1>1, <1>2, <1>3 DEF CredentialsType
<1>5. SetsInv /\ MonitorInv /\ AloneInv
  BY <1>1, <1>2, <1>3 DEF SetsInv, MonitorInv, AloneInv
<1>6. StandInv /\ DelegationStands
  BY <1>1 DEF StandInv, DelegationStands
<1> QED BY <1>4, <1>5, <1>6 DEF IInv

LEMMA StepIInv ==
  ASSUME IInv, [Next]_vars
  PROVE  IInv'
<1>1. CASE \E a \in Admins : SetStep(a)
  BY <1>1, ValidateKeeps, StoreRowKeeps, RefuseKeeps, NameKeeps, PublishKeeps, OwnKeeps DEF SetStep
<1>2. CASE CheckBegin \/ CheckProbe \/ PersistCredential \/ PublishRefreshed \/ CheckWrite
  BY <1>2, CheckBeginKeeps, CheckProbeKeeps, PersistKeeps, PublishRefreshedKeeps, CheckWriteKeeps
<1>3. CASE Expire \/ SetBegin \/ WriteBegin \/ Write \/ Restart
  BY <1>3, ExpireKeeps, SetBeginKeeps, WritersKeep, RestartKeeps
<1>4. CASE UNCHANGED vars
  <2>1. UNCHANGED <<kind, accepted, row, live, sets, monitor, undisturbed, standing>>
    BY <1>4 DEF vars
  <2>2. CredentialsType' /\ SetsInv' /\ MonitorInv'
    BY <2>1 DEF IInv, CredentialsType, SetsInv, MonitorInv
  <2>3. AloneInv' /\ StandInv' /\ DelegationStands'
    BY <2>1 DEF IInv, AloneInv, Progress, StandInv, DelegationStands
  <2> QED BY <2>2, <2>3 DEF IInv
<1> QED BY <1>1, <1>2, <1>3, <1>4 DEF Next

\* Rows and memory are well-typed, a set has stored its row before it goes on, and what a
\* set that runs alone has written is still there at each of its steps.
THEOREM CredentialsInvariant == Spec => []IInv
<1>1. Init => IInv
  BY InitIInv
<1>2. IInv /\ [Next]_vars => IInv'
  BY StepIInv
<1> QED BY <1>1, <1>2, PTL DEF Spec

\* What a set that ran alone installed (SetCredential, SetCredentialOwner) stands: the row
\* belongs to its administrator and names its account, and no credential of another account
\* is in the row or in memory, whatever refused sets, probes, refreshes, failed statements
\* and restarts come between or overlap, until a further credential passes its check.
THEOREM TheLastSetStands == Spec => []DelegationStands
<1>1. IInv => DelegationStands
  BY DEF IInv
<1> QED BY <1>1, CredentialsInvariant, PTL
=============================================================================

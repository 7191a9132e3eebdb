----------------------------- MODULE Credentials -----------------------------
(***************************************************************************)
(* The credential with which a provider acts on a platform: the newest row  *)
(* of the credentials table (internal/store), the credential in the memory  *)
(* of the provider (internal/provider/{ncm,bili,qq}), the administrators    *)
(* who set it, by hand or by scanning a code, the monitor that probes it    *)
(* (internal/credmon) and the requests that write on the account            *)
(* (internal/httpapi, the play reports of internal/room).                   *)
(*                                                                          *)
(* ncm and bili hold a cookie, which is checked when it is set and probed   *)
(* by the monitor.  qq holds a credential that may carry the material to    *)
(* refresh it; setting and probing refresh it.  Only the newest row is ever *)
(* read.                                                                    *)
(***************************************************************************)
EXTENDS Integers, FiniteSets

CONSTANTS
  Admins,        \* media administrators; the owner of a credential is one
  Accounts,      \* accounts on the platform
  Kinds,         \* subset of {"ncm", "bili", "qq"}
  MaxGen,        \* bound: refreshes of a credential
  MaxSets,       \* bound: credentials that are set
  MaxRestarts,   \* bound: restarts of the server
  MaxOutages,    \* bound: probes the platform does not answer
  MaxFaults,     \* bound: statements of the store that fail
  MaxWrites,     \* bound: writers at a time
  None

Statuses == {"ok", "invalid", "unset"}
Credential == [account : Accounts, gen : 0..MaxGen]
Row == [payload : Credential, status : Statuses, owner : Admins \cup {None},
        account : Accounts \cup {None}]
Delegation == [by : Admins, account : Accounts]

ASSUME CredentialsAssumption ==
  /\ Kinds \subseteq {"ncm", "bili", "qq"}
  /\ MaxGen \in Nat /\ MaxSets \in Nat /\ MaxRestarts \in Nat
  /\ MaxOutages \in Nat /\ MaxFaults \in Nat /\ MaxWrites \in Nat
  /\ None \notin Admins \cup Accounts \cup Credential \cup Row \cup Delegation

VARIABLES
  kind,          \* the provider
  accepted,      \* the credentials the platform accepts
  row,           \* newest row, or None: [payload, status, owner, account]
  live,          \* the credential in memory, or None
  sets,          \* SetCredential and its handler, by administrator: [pc, payload]
  attempts,      \* credentials set so far
  monitor,       \* a check: [pc, payload, status]
  writes,        \* requests that have passed requireOwnedAccountWriter
  restarts, outages, faults,
  undisturbed,   \* administrators whose set has run alone, without a failed statement
  standing       \* what such a set installed, until something replaces it:
                 \* [by, account], or None (observations)

counts == <<attempts, restarts, outages>>
vars == <<kind, accepted, row, live, sets, monitor, writes, counts, faults, undisturbed, standing>>

Idle == [pc |-> "idle", payload |-> None]
Resting == [pc |-> "idle", payload |-> None, status |-> None]
Setting == {a \in Admins : sets[a].pc # "idle"}

\* A statement of the store ends, or fails and changes nothing.
Saves == UNCHANGED faults
Fails == faults < MaxFaults /\ faults' = faults + 1

\* hasRefreshMaterial: a pasted credential, of generation 0, has none.
Refreshable(c) == kind = "qq" /\ c.gen > 0
Refreshed(c) == [c EXCEPT !.gen = @ + 1]

\* What is handed to the server: pasted, or got by scanning a code; what is scanned for
\* qq can be refreshed.
Pasted == {c \in Credential : c.gen = 0}
Scanned == {c \in Credential : c.gen = IF kind = "qq" THEN 1 ELSE 0}

-----------------------------------------------------------------------------
(* The platform *)

\* The credentials the server has in hand.
Held ==
  {sets[a].payload : a \in Admins} \cup {live, monitor.payload}
    \cup (IF row = None THEN {} ELSE {row.payload})

\* A login ends; one that nobody has handed over yet ends when it is handed over.
Expire ==
  \E c \in accepted \cap Held :
    /\ accepted' = accepted \ {c}
    /\ UNCHANGED <<kind, row, live, sets, monitor, writes, counts, faults, undisturbed, standing>>

-----------------------------------------------------------------------------
(* Setting a credential *)

\* setCredential, or qrLoginPoll of a code that has been scanned
SetBegin ==
  \E a \in Admins, c \in Pasted \cup Scanned :
    /\ sets[a].pc = "idle" /\ attempts < MaxSets
    /\ sets' = [sets EXCEPT ![a] = [pc |-> "check", payload |-> c]]
    /\ attempts' = attempts + 1
    /\ undisturbed' = IF Setting = {} /\ (kind = "qq" => monitor.pc = "idle") THEN {a} ELSE {}
    /\ UNCHANGED <<kind, accepted, row, live, monitor, writes, restarts, outages, faults, standing>>

Proceeds(a, pc, c) == sets' = [sets EXCEPT ![a] = [pc |-> pc, payload |-> c]]
Ends(a) == sets' = [sets EXCEPT ![a] = Idle]

\* checkLogin of ncm, accountStatus of bili: logged in, or not, or no answer
CheckLogin(a, c) ==
  /\ kind # "qq" /\ UNCHANGED accepted
  /\ \/ c \in accepted /\ Proceeds(a, "store", c) /\ UNCHANGED outages
     \/ c \notin accepted /\ Proceeds(a, "refuse", c) /\ UNCHANGED outages
     \/ outages < MaxOutages /\ outages' = outages + 1 /\ Proceeds(a, "refuse", c)

\* qq: a credential without the material is taken as it is.
TakeUnchecked(a, c) ==
  /\ kind = "qq" /\ ~Refreshable(c)
  /\ Proceeds(a, "store", c) /\ UNCHANGED <<accepted, outages>>

\* qq: the refresh is the check.
RefreshProbe(a, c) ==
  /\ Refreshable(c) /\ UNCHANGED outages
  /\ \/ c.gen < MaxGen /\ Proceeds(a, "store", Refreshed(c)) /\ accepted' = accepted \cup {Refreshed(c)}
     \/ Ends(a) /\ UNCHANGED accepted

Validate(a) ==
  /\ sets[a].pc = "check"
  /\ LET c == sets[a].payload
     IN CheckLogin(a, c) \/ TakeUnchecked(a, c) \/ RefreshProbe(a, c)
  /\ UNCHANGED <<kind, row, live, attempts, restarts, monitor, writes, faults, undisturbed, standing>>

\* Mutant: every row begins without an owner.
UpsertUnbound(c, status) ==
  row' = [payload |-> c, status |-> status, owner |-> None, account |-> None]

\* UpsertCredential: the new row inherits the owner and the account.
Upsert(c, status) ==
  row' = IF row = None
         THEN [payload |-> c, status |-> status, owner |-> None, account |-> None]
         ELSE [row EXCEPT !.payload = c, !.status = status]

\* The row of a credential that passed: from here on it replaces the one that stood.
StoreRow(a) ==
  /\ sets[a].pc = "store"
  /\ \/ /\ Saves /\ Upsert(sets[a].payload, "ok") /\ standing' = None
        /\ Proceeds(a, IF kind = "bili" THEN "publish" ELSE "name", sets[a].payload)
     \/ Fails /\ Ends(a) /\ UNCHANGED <<row, standing>>
  /\ UNCHANGED <<kind, accepted, counts, live, monitor, writes, undisturbed>>

\* A credential that is refused leaves a row, too; one that opens an account, and was
\* refused for want of an answer, may be loaded by a restart under the old owner.
Refuse(a) ==
  /\ sets[a].pc = "refuse" /\ Ends(a)
  /\ \/ /\ Saves /\ Upsert(sets[a].payload, "invalid")
        /\ standing' = IF sets[a].payload \in accepted THEN None ELSE standing
     \/ Fails /\ UNCHANGED <<row, standing>>
  /\ UNCHANGED <<kind, accepted, counts, live, monitor, writes, undisturbed>>

\* SetCredentialAccount, whose error is ignored: the row keeps the account it inherited.
Name(a) ==
  /\ sets[a].pc = "name" /\ Proceeds(a, "publish", sets[a].payload)
  /\ \/ Saves /\ row' = [row EXCEPT !.account = sets[a].payload.account] /\ UNCHANGED undisturbed
     \/ Fails /\ undisturbed' = undisturbed \ {a} /\ UNCHANGED row
  /\ UNCHANGED <<kind, accepted, counts, live, monitor, writes, standing>>

\* cookie.Store, cred.Store
Publish(a) ==
  /\ sets[a].pc = "publish" /\ Proceeds(a, "own", sets[a].payload)
  /\ live' = sets[a].payload
  /\ UNCHANGED <<kind, accepted, counts, row, monitor, writes, faults, undisturbed, standing>>

\* Mutant: the owner is bound once, and kept.
OwnedOnce(a) == [row EXCEPT !.owner = IF @ = None THEN a ELSE @]

\* SetCredentialOwner
Owned(a) == [row EXCEPT !.owner = a]

\* Its error is ignored: the administrator is told that the credential is set.
Own(a) ==
  /\ sets[a].pc = "own" /\ Ends(a)
  /\ \/ /\ Saves /\ row' = Owned(a)
        /\ standing' = IF a \in undisturbed THEN [by |-> a, account |-> sets[a].payload.account]
                       ELSE standing
     \/ Fails /\ UNCHANGED <<row, standing>>
  /\ UNCHANGED <<kind, accepted, counts, live, monitor, writes, undisturbed>>

SetStep(a) == Validate(a) \/ StoreRow(a) \/ Refuse(a) \/ Name(a) \/ Publish(a) \/ Own(a)

-----------------------------------------------------------------------------
(* The monitor *)

\* Mutant: a credential that was found invalid is not probed again.
ProbedUntilInvalid == row # None /\ row.status \notin {"unset", "invalid"}

\* checkOne skips a provider without a credential.
Probed == row # None /\ row.status # "unset"

\* CredentialStatus begins: the stored cookie, which may not be readable, or the qq
\* credential in memory.
CheckBegin ==
  /\ monitor.pc = "idle" /\ Probed
  /\ undisturbed' = IF kind = "qq" THEN {} ELSE undisturbed
  /\ \/ /\ kind = "qq" /\ live = None /\ Saves
        /\ monitor' = [pc |-> "write", payload |-> None, status |-> "unset"]
     \/ /\ kind = "qq" /\ live # None /\ Saves
        /\ monitor' = [pc |-> "probe", payload |-> live, status |-> None]
     \/ /\ kind # "qq" /\ Saves
        /\ monitor' = [pc |-> "probe", payload |-> row.payload, status |-> None]
     \/ /\ kind # "qq" /\ Fails
        /\ monitor' = [pc |-> "write", payload |-> None, status |-> "unset"]
  /\ UNCHANGED <<kind, accepted, counts, row, live, sets, writes, standing>>

Finds(status) == monitor' = [monitor EXCEPT !.pc = "write", !.status = status]

\* The platform answers, or not.
Probe(c) ==
  /\ \/ c \in accepted /\ Finds("ok") /\ UNCHANGED outages
     \/ c \notin accepted /\ Finds("invalid") /\ UNCHANGED outages
     \/ outages < MaxOutages /\ outages' = outages + 1 /\ Finds("invalid")
  /\ UNCHANGED accepted

\* qq: a credential that has expired is refreshed on the platform.
RefreshCredential(c) ==
  /\ c \notin accepted /\ Refreshable(c) /\ c.gen < MaxGen
  /\ accepted' = accepted \cup {Refreshed(c)}
  /\ monitor' = [pc |-> "persist", payload |-> Refreshed(c), status |-> None]
  /\ UNCHANGED outages

CheckProbe ==
  /\ monitor.pc = "probe"
  /\ Probe(monitor.payload) \/ RefreshCredential(monitor.payload)
  /\ UNCHANGED <<kind, row, live, sets, attempts, restarts, writes, faults, undisturbed, standing>>

\* persistCredential: its row first; when that fails the old credential stays in use.
PersistCredential ==
  /\ monitor.pc = "persist"
  /\ \/ Saves /\ Upsert(monitor.payload, "ok") /\ monitor' = [monitor EXCEPT !.pc = "publish"]
     \/ Fails /\ Finds("invalid") /\ UNCHANGED row
  /\ UNCHANGED <<kind, accepted, counts, live, sets, writes, undisturbed, standing>>

PublishRefreshed ==
  /\ monitor.pc = "publish"
  /\ live' = monitor.payload /\ Finds("ok")
  /\ UNCHANGED <<kind, accepted, counts, row, sets, writes, faults, undisturbed, standing>>

\* UpdateCredentialStatus of the row that is the newest by now
CheckWrite ==
  /\ monitor.pc = "write" /\ monitor' = Resting
  /\ \/ Saves /\ row' = [row EXCEPT !.status = monitor.status]
     \/ Fails /\ UNCHANGED row
  /\ UNCHANGED <<kind, accepted, counts, live, sets, writes, undisturbed, standing>>

-----------------------------------------------------------------------------
(* Writes on the account *)

\* GetCredentialOwner names a.
Owns(a) == IF row = None THEN FALSE ELSE row.owner = a

\* requireOwnedAccountWriter; finishCurrent, of the owner's own track.  bili writes nothing.
WriteBegin ==
  /\ kind # "bili" /\ Cardinality(writes) < MaxWrites
  /\ \E a \in Admins : Owns(a) /\ writes' = writes \cup {a}
  /\ UNCHANGED <<kind, accepted, counts, row, live, sets, monitor, faults, undisturbed, standing>>

\* The account on which a call with the credential in memory acts.
ActsOn == IF live \in accepted THEN {live.account} ELSE {}

\* Like, AddToPlaylist, ReportPlay and what they read
Write ==
  /\ \E a \in writes : writes' = writes \ {a}
  /\ UNCHANGED <<kind, accepted, counts, row, live, sets, monitor, faults, undisturbed, standing>>

-----------------------------------------------------------------------------

\* New loads the newest row, whatever its status.
Restored == IF row = None THEN None ELSE row.payload

\* The server ends at any point, and starts; a row that cannot be read is left aside.
Restart ==
  /\ restarts < MaxRestarts /\ restarts' = restarts + 1
  /\ (Saves /\ live' = Restored) \/ (Fails /\ live' = None)
  /\ sets' = [a \in Admins |-> Idle] /\ monitor' = Resting /\ writes' = {} /\ undisturbed' = {}
  /\ UNCHANGED <<kind, accepted, row, attempts, outages, standing>>

Init ==
  /\ kind \in Kinds
  /\ accepted = Pasted \cup Scanned
  /\ row = None /\ live = None
  /\ sets = [a \in Admins |-> Idle] /\ attempts = 0
  /\ monitor = Resting /\ writes = {}
  /\ restarts = 0 /\ outages = 0 /\ faults = 0
  /\ undisturbed = {} /\ standing = None

Next ==
  \/ Expire \/ SetBegin \/ (\E a \in Admins : SetStep(a))
  \/ CheckBegin \/ CheckProbe \/ PersistCredential \/ PublishRefreshed \/ CheckWrite
  \/ WriteBegin \/ Write \/ Restart

\* A request runs to its end, and the ticker of the monitor keeps ticking.
Fairness ==
  /\ \A a \in Admins : WF_vars(SetStep(a))
  /\ WF_vars(CheckBegin) /\ WF_vars(CheckProbe) /\ WF_vars(PersistCredential)
  /\ WF_vars(PublishRefreshed) /\ WF_vars(CheckWrite)

Spec == Init /\ [][Next]_vars /\ Fairness

-----------------------------------------------------------------------------
(* Properties *)

\* What a set installed stands until a further credential passes its check: the newest
\* row belongs to its administrator and names its account, and neither the row nor the
\* memory holds a credential that opens another account, through refused sets, failed
\* statements, refreshes, probes and restarts between any two of their steps.  It is said
\* of a set that ran alone, with the statements that name the account and bind the owner
\* done; a refused credential that opens an account after all (Refuse) ends it, too.
DelegationStands ==
  standing # None =>
    /\ row # None /\ row.owner = standing.by
    /\ kind # "bili" => row.account = standing.account
    /\ \A c \in {row.payload, live} : c \in accepted => c.account = standing.account

\* What is watched: the stored cookie, or the qq credential in memory.
Watched == IF kind = "qq" THEN live ELSE Restored

\* The status shown becomes the verdict of the platform on the credential, although a
\* check may write what it found on a row that is newer than its probe, and a refresh may
\* overlap a set or be cut off between its steps; a row whose credential could once not be
\* read is left out (UnsetIsNoCredential).
StatusSettles ==
  <>[](row # None /\ row.status # "unset" => (row.status = "ok" <=> Watched \in accepted))

\* docs/spec-v1.md:316: on a write the acting principal has to be the owner.  The code
\* does not keep this while a set passes between the check of the right and the call.
OwnerWrites ==
  [][\A a \in writes \ writes' : restarts' = restarts /\ ActsOn # {} => Owns(a)]_vars

\* docs/spec-v1.md:314: the moment a credential is written binds its owner.  The code does
\* not keep this when binding fails: the answer is ok, and the old owner keeps the right.
OwnerFollowsSet ==
  [][\A a \in Admins : sets[a].pc = "own" /\ sets'[a].pc = "idle" /\ restarts' = restarts
                         => row'.owner = a]_vars

\* internal/provider/provider.go:281: a credential that fails its validation does not take
\* effect.  The code does not keep this: Refuse leaves it as the newest row, and a start
\* loads it in place of the one in use.
RefusedStaysOut ==
  [][restarts' # restarts /\ kind # "qq" /\ live \in accepted /\ live' # live /\ live' # None
       => row.status # "invalid"]_vars

\* internal/store/store.go:1495: a status of unset means that none is stored.  The code does
\* not keep this: a check that cannot read the credential writes it, and is the last one.
UnsetIsNoCredential == row # None => row.status # "unset"
=============================================================================

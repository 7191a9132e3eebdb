------------------------------ MODULE Playlists ------------------------------
(***************************************************************************)
(* Playlists: the rows of playlists and playlist_items, the handlers of    *)
(* httpapi/playlists.go that edit them, and the synchronisation of bound   *)
(* playlists with a provider (internal/plsync), which runs periodically    *)
(* and on request.  Every query is a step; a handler that checks first and *)
(* writes later holds nothing in between.                                  *)
(*                                                                         *)
(* A client that goes away cancels the context of its request: everything  *)
(* the handler asks of the store or of a provider fails from then on.      *)
(* Requests come from creators and administrators (module Sessions).       *)
(***************************************************************************)
EXTENDS Naturals, Sequences, SequencesExt

CONSTANTS Requests,      \* handlers that may run at the same time
          Remotes,       \* playlists of providers
          Content,       \* the tracks of each version of a remote playlist
          Tracks,        \* tracks that clients add
          None,
          Scenarios,     \* sets of operations: an execution uses one of them
          MaxPlaylists, MaxItems, MaxRequests, MaxFaults, MaxCrashes   \* bounds

Gone == 0        \* the version of a remote playlist that can no longer be read
Syncer == "syncer"
Actors == Requests \cup {Syncer}
Playlists == 1..MaxPlaylists      \* ids are random and never used again

ASSUME PlaylistsAssumption ==
  /\ {MaxPlaylists, MaxItems, MaxRequests, MaxFaults, MaxCrashes} \subseteq Nat
  /\ Syncer \notin Requests /\ IsFiniteSet(Requests) /\ None \notin Remotes
  /\ Tracks \subseteq STRING
  /\ Content \in [Remotes -> Seq(Seq(STRING) \ {<<>>}) \ {<<>>}]

VARIABLES
  scenario,
  used,       \* ids taken so far
  rows,       \* playlists: remote binding, ticks until a sync is due, cover_path
  items,      \* playlist_items of each playlist: ord to track
  files,      \* playlists whose cover file exists
  remote,     \* the version each remote playlist is at
  th,         \* what each actor does next
  tick,       \* the ticker has fired and Run has not taken it
  requests, faults, crashes,
  synced,     \* history: playlists whose first import is stored
  raced       \* history: playlists whose cover was uploaded and removed at once,
              \* until an upload or a removal runs without the other

tables == <<used, rows, items, files>>
vars == <<scenario, tables, remote, th, tick, requests, faults, crashes, synced,
          raced>>

\* A thread keeps what its handler holds in variables; playlist 0 is none.
Home == [at |-> "home", op |-> "none", playlist |-> 0, gone |-> FALSE, remote |-> None,
         tracks |-> << >>, ord |-> 0, to |-> 0, path |-> FALSE, todo |-> {}]

At(a, place) == th[a].at = place
Goto(a, place) == th' = [th EXCEPT ![a].at = place]
Answer(a) == th' = [th EXCEPT ![a] = Home]

Exists(p) == p \in DOMAIN rows
Bound(p) == Exists(p) /\ rows[p].remote # None

Init ==
  /\ scenario \in Scenarios
  /\ used = 0 /\ rows = << >>
  /\ items = [p \in Playlists |-> << >>]
  /\ files = {}
  /\ remote = [r \in Remotes |-> 1]
  /\ th = [a \in Actors |-> Home]
  /\ tick = ("periodic" \in scenario)
  /\ requests = 0 /\ faults = 0 /\ crashes = 0
  /\ synced = {} /\ raced = {}

Fault == "fault" \in scenario /\ faults < MaxFaults /\ faults' = faults + 1

\* The query of actor a goes through, or fails.
Works(a) == ~th[a].gone /\ UNCHANGED faults
Fails(a) ==
  \/ th[a].gone /\ UNCHANGED faults
  \/ Fault

\* The client of a request goes away.
Leave(q) ==
  /\ ~At(q, "home") /\ ~th[q].gone
  /\ Fault
  /\ th' = [th EXCEPT ![q].gone = TRUE]
  /\ UNCHANGED <<scenario, raced, tables, remote, tick, requests, crashes, synced>>

-----------------------------------------------------------------------------
(* The numbers of the items.                                               *)

Ords(list) == DOMAIN list
Listing(list) ==
  CHOOSE order \in [1..Cardinality(Ords(list)) -> Ords(list)] :
    \A i, j \in DOMAIN order : i < j => order[i] < order[j]
LastOrd(list) == IF list = << >> THEN 0 ELSE Max(Ords(list))

\* ReplacePlaylistItems numbers from 0.
FromZero(tracks) == [o \in 0..(Len(tracks) - 1) |-> tracks[o + 1]]

\* AppendPlaylistItems continues after the last number, from 1 in an empty list.
Appended(list, tracks) ==
  [o \in Ords(list) \cup (LastOrd(list) + 1)..(LastOrd(list) + Len(tracks)) |->
     IF o \in Ords(list) THEN list[o] ELSE tracks[o - LastOrd(list)]]

\* Mutant: the items behind are not renumbered.
ClosedNot(list, ord) == Restrict(list, Ords(list) \ {ord})

\* DeletePlaylistItem: the items behind move up by one.
Closed(list, ord) ==
  LET kept(o) == IF o > ord THEN o - 1 ELSE o
  IN [o \in {kept(k) : k \in Ords(list) \ {ord}} |->
        IF o >= ord THEN list[o + 1] ELSE list[o]]

\* MovePlaylistItem takes positions, whatever the numbers are, and renumbers
\* from 1 when something moves.
Clamp(position, list) == Max({1, Min({position, Cardinality(Ords(list))})})

Moved(list, from, to) ==
  LET order == Listing(list)
      target == InsertAt(RemoveAt(order, from), Clamp(to, list), order[from])
  IN IF from = Clamp(to, list) THEN list
     ELSE [o \in 1..Len(target) |-> list[target[o]]]

-----------------------------------------------------------------------------
(* Handlers: from the request to the check.                                *)

\* The unique index over bound remote playlists.
Bindable(r) == \A p \in DOMAIN rows : rows[p].remote # r

\* Every handler that will create a playlist has an id left.
IdLeft == used + Cardinality({q \in Requests : At(q, "create")}) < MaxPlaylists

Start(q, op) ==
  /\ At(q, "home") /\ op \in scenario /\ requests < MaxRequests
  /\ requests' = requests + 1

Thread(op, at, p) == [Home EXCEPT !.at = at, !.op = op, !.playlist = p]

Insert(p, r) ==
  /\ used' = p
  /\ rows' = [q \in DOMAIN rows \cup {p} |->
                IF q = p THEN [remote |-> r, wait |-> 0, path |-> FALSE] ELSE rows[q]]

CreatePlaylist(q) ==
  /\ Start(q, "create") /\ IdLeft
  /\ Insert(used + 1, None)
  /\ UNCHANGED <<scenario, raced, items, files, remote, th, tick, faults, crashes, synced>>

\* importPlaylist: the tracks are read before the playlist is created.
ImportPlaylist(q, r) ==
  /\ Start(q, "import") /\ IdLeft /\ remote[r] # Gone
  /\ th' = [th EXCEPT ![q] = [Thread("import", "create", 0) EXCEPT
                                !.tracks = Content[r][remote[r]]]]
  /\ UNCHANGED <<scenario, raced, tables, remote, tick, faults, crashes, synced>>

\* bindPlaylist: refused when the remote playlist is bound already.
BindPlaylist(q, r) ==
  /\ Start(q, "bind") /\ IdLeft /\ Bindable(r)
  /\ th' = [th EXCEPT ![q] = [Thread("bind", "create", 0) EXCEPT !.remote = r]]
  /\ UNCHANGED <<scenario, raced, tables, remote, tick, faults, crashes, synced>>

\* The row of an imported or bound playlist.
Create(q) ==
  LET p == used + 1
  IN /\ At(q, "create") /\ Works(q)
     /\ IF th[q].remote = None \/ Bindable(th[q].remote)
        THEN /\ Insert(p, th[q].remote)
             /\ th' = [th EXCEPT ![q].playlist = p,
                                 ![q].at = IF th[q].op = "bind" THEN "sync" ELSE "add"]
        ELSE Answer(q) /\ UNCHANGED <<used, rows>>
     /\ UNCHANGED <<scenario, raced, items, files, remote, tick, requests, crashes, synced>>

CreateFails(q) ==
  /\ At(q, "create") /\ Fails(q)
  /\ Answer(q)
  /\ UNCHANGED <<scenario, raced, tables, remote, tick, requests, crashes, synced>>

\* syncPlaylist
SyncPlaylist(q, p) ==
  /\ Start(q, "sync") /\ Bound(p)
  /\ th' = [th EXCEPT ![q] = Thread("sync", "sync", p)]
  /\ UNCHANGED <<scenario, raced, tables, remote, tick, faults, crashes, synced>>

\* Mutant: bound playlists can be edited.
EditableAny(p) == TRUE

\* 409 playlist_bound
Editable(p) == rows[p].remote = None

\* What an operation that requirePlaylistManager admits writes: its first step.
Writes == [add |-> "add", remove |-> "remove", move |-> "move", cover |-> "install",
           uncover |-> "uncover", delete |-> "delete", detach |-> "detach"]

\* Nothing orders an upload and a removal of the same cover.
Opposite == [cover |-> "uncover", uncover |-> "cover"]
Running(op, p) == \E q \in Requests : th[q].op = op /\ th[q].playlist = p

\* requirePlaylistManager and the read-only rule; detach wants a binding and
\* delete takes any playlist.
Manage(q, op, p) ==
  /\ Start(q, op) /\ Exists(p)
  /\ CASE op = "detach" -> Bound(p)
       [] op = "delete" -> TRUE
       [] OTHER -> Editable(p)
  /\ \E t \in Tracks, ord \in 0..MaxItems, to \in 1..MaxItems :
       LET begun == Thread(op, Writes[op], p)
       IN th' = [th EXCEPT ![q] =
                   CASE op = "add" -> [begun EXCEPT !.tracks = <<t>>]
                     [] op = "remove" -> [begun EXCEPT !.ord = ord]
                     [] op = "move" -> [begun EXCEPT !.ord = ord, !.to = to]
                     [] op = "uncover" -> [begun EXCEPT !.path = rows[p].path]
                     [] OTHER -> begun]
  /\ raced' = IF op \in DOMAIN Opposite /\ Running(Opposite[op], p) THEN raced \cup {p}
              ELSE raced
  /\ UNCHANGED <<scenario, tables, remote, tick, faults, crashes, synced>>

-----------------------------------------------------------------------------
(* Handlers: the writes.                                                   *)

\* AppendPlaylistItems, after the provider has given the tracks: the foreign key
\* refuses items of a playlist that is gone.
AddItems(q) ==
  LET p == th[q].playlist
  IN /\ At(q, "add") /\ Works(q)
     /\ Len(th[q].tracks) + Cardinality(Ords(items[p])) <= MaxItems
     /\ items' = IF Exists(p) THEN [items EXCEPT ![p] = Appended(@, th[q].tracks)]
                 ELSE items
     /\ Answer(q)
     /\ UNCHANGED <<scenario, raced, used, rows, files, remote, tick, requests, crashes, synced>>

RemoveItem(q) ==
  LET p == th[q].playlist
  IN /\ At(q, "remove") /\ Works(q)
     /\ items' = IF th[q].ord \in Ords(items[p])
                 THEN [items EXCEPT ![p] = Closed(@, th[q].ord)] ELSE items
     /\ Answer(q)
     /\ UNCHANGED <<scenario, raced, used, rows, files, remote, tick, requests, crashes, synced>>

MoveItem(q) ==
  LET p == th[q].playlist
  IN /\ At(q, "move") /\ Works(q)
     /\ items' = IF th[q].ord \in 1..Cardinality(Ords(items[p]))
                 THEN [items EXCEPT ![p] = Moved(@, th[q].ord, th[q].to)] ELSE items
     /\ Answer(q)
     /\ UNCHANGED <<scenario, raced, used, rows, files, remote, tick, requests, crashes, synced>>

\* DeletePlaylist: the items go with the row, the cover file stays.
Erase(p) ==
  /\ rows' = Restrict(rows, DOMAIN rows \ {p})
  /\ items' = [items EXCEPT ![p] = << >>]

Delete(q) ==
  /\ At(q, "delete") /\ Works(q)
  /\ Erase(th[q].playlist)
  /\ Answer(q)
  /\ UNCHANGED <<scenario, raced, used, files, remote, tick, requests, crashes, synced>>

\* An UPDATE of a row that is gone changes nothing.
Update(p, row) == rows' = [q \in DOMAIN rows |-> IF q = p THEN row ELSE rows[q]]

\* ClearPlaylistBinding
Detach(q) ==
  LET p == th[q].playlist
  IN /\ At(q, "detach") /\ Works(q)
     /\ IF Exists(p) THEN Update(p, [rows[p] EXCEPT !.remote = None, !.wait = 0])
                     ELSE UNCHANGED rows
     /\ Answer(q)
     /\ UNCHANGED <<scenario, raced, used, items, files, remote, tick, requests, crashes, synced>>

\* setPlaylistCover installs the file, then the row names it.
InstallCover(q) ==
  /\ At(q, "install")
  /\ files' = files \cup {th[q].playlist}
  /\ Goto(q, "cover")
  /\ raced' = IF Running("uncover", th[q].playlist) THEN raced ELSE raced \ {th[q].playlist}
  /\ UNCHANGED <<scenario, used, rows, items, remote, tick, requests, faults, crashes, synced>>

SetCover(q) ==
  LET p == th[q].playlist
  IN /\ At(q, "cover") /\ Works(q)
     /\ IF Exists(p) THEN Update(p, [rows[p] EXCEPT !.path = TRUE])
                     ELSE UNCHANGED rows
     /\ Answer(q)
     /\ UNCHANGED <<scenario, raced, used, items, files, remote, tick, requests, crashes, synced>>

\* clearPlaylistCover clears the row, then removes the file it named.
ClearCover(q) ==
  LET p == th[q].playlist
  IN /\ At(q, "uncover") /\ Works(q)
     /\ IF Exists(p) THEN Update(p, [rows[p] EXCEPT !.path = FALSE])
                     ELSE UNCHANGED rows
     /\ IF th[q].path THEN Goto(q, "unlink") ELSE Answer(q)
     /\ raced' = IF Running("cover", p) THEN raced ELSE raced \ {p}
     /\ UNCHANGED <<scenario, used, items, files, remote, tick, requests, crashes, synced>>

RemoveCover(q) ==
  /\ At(q, "unlink")
  /\ files' = files \ {th[q].playlist}
  /\ Answer(q)
  /\ UNCHANGED <<scenario, raced, used, rows, items, remote, tick, requests, faults, crashes,
                 synced>>

\* A write that fails ends the handler.
WriteRefused(q) == Answer(q)

WriteFails(q) ==
  /\ th[q].at \in {"add", "remove", "move", "delete", "detach", "cover", "uncover"}
  /\ Fails(q)
  /\ WriteRefused(q)
  /\ UNCHANGED <<scenario, raced, tables, remote, tick, requests, crashes, synced>>

-----------------------------------------------------------------------------
(* plsync.SyncOne, called by bindPlaylist, syncPlaylist and Run.           *)

\* syncDue goes on to the next playlist.
Scanning(todo) == [Home EXCEPT !.at = "scan", !.op = "scan", !.todo = todo]
Continue(a) == Scanning(th[a].todo)

\* bindPlaylist removes the playlist whose first import failed.
SyncFailed(a) ==
  th' = [th EXCEPT ![a] = IF a = Syncer THEN Continue(a)
                          ELSE IF th[a].op = "bind" THEN [th[a] EXCEPT !.at = "rollback"]
                          ELSE Home]

SyncDone(a) == th' = [th EXCEPT ![a] = IF a = Syncer THEN Continue(a) ELSE Home]

SyncRead(a) ==
  LET p == th[a].playlist
  IN /\ At(a, "sync") /\ Works(a)
     /\ IF Bound(p)
        THEN th' = [th EXCEPT ![a].remote = rows[p].remote, ![a].at = "fetch"]
        ELSE SyncFailed(a)
     /\ UNCHANGED <<scenario, raced, tables, remote, tick, requests, crashes, synced>>

SyncReadFails(a) ==
  /\ At(a, "sync") /\ Fails(a)
  /\ SyncFailed(a)
  /\ UNCHANGED <<scenario, raced, tables, remote, tick, requests, crashes, synced>>

\* ImportPlaylist of the provider
Fetch(a) ==
  LET r == th[a].remote
  IN /\ At(a, "fetch") /\ remote[r] # Gone /\ Works(a)
     /\ th' = [th EXCEPT ![a].tracks = Content[r][remote[r]], ![a].at = "replace"]
     /\ UNCHANGED <<scenario, raced, tables, remote, tick, requests, crashes, synced>>

FetchFails(a) ==
  /\ At(a, "fetch")
  /\ \/ remote[th[a].remote] = Gone /\ UNCHANGED faults
     \/ Fails(a)
  /\ Goto(a, "record")
  /\ UNCHANGED <<scenario, raced, tables, remote, tick, requests, crashes, synced>>

\* ReplacePlaylistItems does not ask whether the playlist is still bound; the
\* foreign key refuses items of a playlist that is gone.
Replace(a) ==
  LET p == th[a].playlist
  IN /\ At(a, "replace") /\ Works(a)
     /\ IF Exists(p)
        THEN /\ items' = [items EXCEPT ![p] = FromZero(th[a].tracks)]
             /\ synced' = synced \cup {p}
             /\ Goto(a, "result")
        ELSE Goto(a, "record") /\ UNCHANGED <<items, synced>>
     /\ UNCHANGED <<scenario, raced, used, rows, files, remote, tick, requests, crashes>>

ReplaceFails(a) ==
  /\ At(a, "replace") /\ Fails(a)
  /\ Goto(a, "record")
  /\ UNCHANGED <<scenario, raced, tables, remote, tick, requests, crashes, synced>>

\* SetPlaylistSyncResult: a remote cover is not a file.
\* An attempt made after one tick is too young at the next and due at the second.
Result(a) ==
  LET p == th[a].playlist
  IN /\ At(a, "result") /\ Works(a)
     /\ IF Exists(p)
        THEN Update(p, [rows[p] EXCEPT !.wait = 2, !.path = FALSE])
        ELSE UNCHANGED rows
     /\ SyncDone(a)
     /\ UNCHANGED <<scenario, raced, used, items, files, remote, tick, requests, crashes, synced>>

ResultFails(a) ==
  /\ At(a, "result") /\ Fails(a)
  /\ SyncFailed(a)
  /\ UNCHANGED <<scenario, raced, tables, remote, tick, requests, crashes, synced>>

\* recordFailure: the items stay as they are.
Record(a) ==
  LET p == th[a].playlist
  IN /\ At(a, "record")
     /\ \/ Works(a) /\ IF Exists(p) THEN Update(p, [rows[p] EXCEPT !.wait = 2])
                                    ELSE UNCHANGED rows
        \/ Fails(a) /\ UNCHANGED rows
     /\ SyncFailed(a)
     /\ UNCHANGED <<scenario, raced, used, items, files, remote, tick, requests, crashes, synced>>

\* The context of a client that went away ends the rollback, too.
Rollback(q) ==
  /\ At(q, "rollback")
  /\ \/ Works(q) /\ Erase(th[q].playlist)
     \/ Fails(q) /\ UNCHANGED <<rows, items>>
  /\ Answer(q)
  /\ UNCHANGED <<scenario, raced, used, files, remote, tick, requests, crashes, synced>>

-----------------------------------------------------------------------------
(* plsync.Run                                                              *)

\* Mutant: an interval in another unit, which does not pass.
AgedNot(wait) == wait

\* isDue: what is left of the interval.
Aged(wait) == IF wait = 0 THEN 0 ELSE wait - 1

\* The interval passes; a scan takes less than that.
Tick ==
  /\ "periodic" \in scenario
  /\ At(Syncer, "home") /\ ~tick
  /\ tick' = TRUE
  /\ rows' = [p \in DOMAIN rows |-> [rows[p] EXCEPT !.wait = Aged(@)]]
  /\ UNCHANGED <<scenario, raced, used, items, files, remote, th, requests, faults, crashes,
                 synced>>

\* syncDue: the bound playlists whose interval has passed, one after the other.
\* A scan that cannot read them waits for the next tick.
Scan ==
  /\ At(Syncer, "home") /\ tick
  /\ tick' = FALSE
  /\ \/ /\ th' = [th EXCEPT ![Syncer] =
               Scanning({p \in DOMAIN rows : Bound(p) /\ rows[p].wait = 0})]
        /\ UNCHANGED faults
     \/ Fault /\ UNCHANGED th
  /\ UNCHANGED <<scenario, raced, tables, remote, requests, crashes, synced>>

\* SyncOne for the next of them; their order (created_at) is left open.
ScanNext ==
  /\ At(Syncer, "scan")
  /\ \/ th[Syncer].todo = {} /\ Answer(Syncer)
     \/ \E p \in th[Syncer].todo :
          th' = [th EXCEPT ![Syncer] = [Thread("scan", "sync", p) EXCEPT
                                         !.todo = th[Syncer].todo \ {p}]]
  /\ UNCHANGED <<scenario, raced, tables, remote, tick, requests, faults, crashes, synced>>

\* The owner of a remote playlist changes it, or the credential is lost for good.
Change(r) ==
  /\ "change" \in scenario /\ remote[r] # Gone
  /\ \/ remote[r] < Len(Content[r]) /\ remote' = [remote EXCEPT ![r] = @ + 1]
     \/ Len(Content[r]) = 1 /\ remote' = [remote EXCEPT ![r] = Gone]
  /\ UNCHANGED <<scenario, raced, tables, th, tick, requests, faults, crashes, synced>>

\* The process stops and starts again after some time.
Crash ==
  /\ "crash" \in scenario /\ crashes < MaxCrashes
  /\ crashes' = crashes + 1
  /\ th' = [a \in Actors |-> Home] /\ tick' = ("periodic" \in scenario)
  /\ \E ticks \in 0..2 :
       rows' = [p \in DOMAIN rows |-> [rows[p] EXCEPT !.wait = IF @ < ticks THEN 0 ELSE @ - ticks]]
  /\ UNCHANGED <<scenario, raced, used, items, files, remote, requests, faults, synced>>

SyncOne(a) ==
  \/ SyncRead(a) \/ SyncReadFails(a) \/ Fetch(a) \/ FetchFails(a)
  \/ Replace(a) \/ ReplaceFails(a) \/ Result(a) \/ ResultFails(a) \/ Record(a)

Write(q) ==
  \/ Create(q) \/ CreateFails(q) \/ AddItems(q) \/ RemoveItem(q) \/ MoveItem(q)
  \/ Delete(q) \/ Detach(q) \/ InstallCover(q) \/ SetCover(q) \/ ClearCover(q)
  \/ RemoveCover(q) \/ WriteFails(q) \/ Rollback(q)

Arrive(q) ==
  \/ CreatePlaylist(q)
  \/ \E r \in Remotes : ImportPlaylist(q, r) \/ BindPlaylist(q, r)
  \/ \E p \in Playlists : SyncPlaylist(q, p) \/ \E op \in DOMAIN Writes : Manage(q, op, p)

Next ==
  \/ \E q \in Requests : Arrive(q) \/ Leave(q) \/ Write(q)
  \/ \E a \in Actors : SyncOne(a)
  \/ Tick \/ Scan \/ ScanNext \/ Crash
  \/ \E r \in Remotes : Change(r)

Spec == Init /\ [][Next]_vars

\* The ticker fires, a handler that runs goes on, and an import ends by its
\* timeout at the latest.
FairSpec ==
  /\ Spec
  /\ WF_vars(Tick) /\ WF_vars(Scan) /\ WF_vars(ScanNext)
  /\ WF_vars(SyncOne(Syncer))
  /\ \A q \in Requests : WF_vars(SyncOne(q) \/ Write(q))

-----------------------------------------------------------------------------
(* Properties *)

\* The numbers of a playlist have no gap, whatever mixture of synchronisation,
\* append, delete and move made them: a move by position relies on it.
Contiguous ==
  \A p \in Playlists :
    items[p] # << >> => \E base \in {0, 1} :
      Ords(items[p]) = base..(base + Cardinality(Ords(items[p])) - 1)

\* A bound playlist shows one whole version of its remote playlist, after failed
\* imports, late handlers, crashes and clients that went away.
BoundIsWhole ==
  \A p \in DOMAIN rows :
    Bound(p) => \/ p \notin synced /\ items[p] = << >>
                \/ \E v \in DOMAIN Content[rows[p].remote] :
                     items[p] = FromZero(Content[rows[p].remote][v])

\* Two requests that bind a remote playlist at once do not both succeed.
OneBinding ==
  \A p, q \in DOMAIN rows : Bound(p) /\ rows[p].remote = rows[q].remote => p = q

\* A row that names a cover file has one, wherever an upload or a removal stopped,
\* failed or lost its client; an upload and a removal that overlap can leave the row
\* without its file, and the next one that runs without the other repairs that.
CoverHasFile == \A p \in DOMAIN rows : rows[p].path => p \in files \/ p \in raced

\* What the rows say is so: a bound playlist is the only one of its remote playlist and
\* shows a version of it, and a row with a cover has it.
RowsAreTrue == BoundIsWhole /\ OneBinding /\ CoverHasFile

\* Every bound playlist whose remote can be read comes to show what the remote
\* shows, also when another one fails at every scan and syncs overtake each other.
Converges ==
  "periodic" \in scenario => <>[](\A p \in DOMAIN rows :
         Bound(p) /\ remote[rows[p].remote] # Gone =>
           items[p] = FromZero(Content[rows[p].remote][remote[rows[p].remote]]))

\* spec-v1.md: a bind whose first synchronisation fails leaves nothing behind.
NoResidue ==
  [][\A q \in Requests :
       At(q, "rollback") /\ th'[q] = Home /\ crashes' = crashes =>
         th[q].playlist \notin DOMAIN rows']_vars

\* store.go: MovePlaylistItem moves the item at ord.
MoveHitsItsOrd ==
  [][\A q \in Requests :
       At(q, "move") /\ items' # items /\ th'[q] = Home =>
         LET p == th[q].playlist
         IN \E o \in Ords(items'[p]) :
              o = Clamp(th[q].to, items[p]) /\ th[q].ord \in Ords(items[p])
              /\ items'[p][o] = items[p][th[q].ord]]_vars

\* playlists.go: detaching keeps the items the playlist has.
DetachedIsKept ==
  [][\A a \in Actors :
       At(a, "replace") /\ items' # items /\ ~At(a, "replace")' => Bound(th[a].playlist)]_vars
=============================================================================

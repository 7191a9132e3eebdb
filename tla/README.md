# Verification of yuzu-jukebox

yuzu-jukebox is a shared music player. A server keeps *rooms*; in a room, people
queue tracks, the server decides what plays and where on the time line it is,
and every listener (web page, agent on a speaker, command line client) renders
that time line by itself. This directory holds TLA+ models of the parts where
ordering, failure and timing decide whether that works, TLC configurations that
check them on small instances, and TLAPS proofs of the central invariants for
instances of every size.

Paths are relative to the repository root. `PROJECT.json` gives, for every
definition that models code, the file and the lines it was translated from.

    cd tla
    tlc -workers 2 -config Room.cfg MCRoomWork        # one run
    tlapm RoomProofs.tla                              # the proofs of a module


## 1. Inventory

### The parts, their state and their operations

| Part | Code | State | Operations that change it | Module |
|---|---|---|---|---|
| Room actor | `internal/room/room.go` | pending queue, current track, playback tuple, end timer and its number, radio binding, source under construction, batch being fetched, advance that waits | queue add / remove / move / clear, play / pause / seek / skip, policy change, radio play / stop, join, leave, queue sync, timer end, preflight report, results of the two workers, load at start | `Room` |
| Playback time line | `room.go` (position, scheduleEnd, startLead) | (PositionMs, UpdatedAt, Playing), timer number | pause, resume, seek, advance | `PlaybackClock` |
| Agent | `cmd/yuzu-agent` | rendered track, debounce timer, start signal, baseline of the drift | take a broadcast, a debounced state, a start, a tick; reconnect | `Agent` |
| Queue protocol | `internal/room/queue_protocol.go`, `internal/client/queue_protocol.go`, `client.go` | server: revision; client: replica, half-received snapshot and patch, resync flag | cut into parts, assemble, apply, resync, join, leave | `QueueSync` |
| Radio sources | `internal/room/radio.go`, `internal/provider/*/sources.go`, `internal/httpapi/radio.go` | cursor, shuffle bag, page, tracks heard | import, next batch, window | `TrackSources`, `PlaylistSource` |
| Media cache | `internal/cache/cache.go` | rows, files, downloads in flight | look up, download, follow, publish, evict | `Cache` |
| Playlists and their synchronisation | `internal/httpapi/playlists.go`, store `store.go`, `internal/plsync` | playlist rows and their numbering, remote binding, cover | create, import, bind, append, delete, move, replace, detach, cover, synchronise | `Playlists` |
| Player plane | `internal/wsapi/player.go`, `internal/httpapi/players.go`, store `players.go`, `player_bindings.go` | registered connection per player, its room, key, binding, volume | hello, register, move, unregister, create, update, rotate, delete, bind | `Players` |
| Sessions, integrations | `internal/auth/auth.go`, `internal/httpapi/integrations.go` | sessions (memory and store), credential of an integration, its actors | log in, look up, renew, log out, rotate, disable, prune, restart | `Sessions` |
| Binding codes, subject links | `internal/auth/binding.go`, store `external_binding.go` | code, subject, expiry, link | issue, redeem, replay, link, unlink, prune | `Bindings` |
| Idempotent writes, control service | `internal/httpapi/idempotency.go`, store `idempotency.go`, `internal/control` | reservation or stored answer per key | resolve, reserve, decide, execute, complete, release, expire | `Commands` |
| Room manager, access, admission | `manager.go`, `access.go`, `internal/wsapi/access_limiter.go`, room handlers of `httpapi.go` | room rows, maps of actors, access configuration, buckets of wrong credentials | create, update, delete, load, join, read the code | `Rooms` |
| Credentials of providers, monitor | `internal/provider/{ncm,bili,qq}`, `internal/credmon`, handlers of `httpapi.go` | newest row with owner and status, credential in memory | set, scan, validate, refresh, probe, write on the account, restart | `Credentials` |
| WebSocket plane | `internal/wsapi/wsapi.go` | connection: identity, room, send buffer, closed flag | authenticate, join, leave, sync, disconnect | in `QueueSync`, `Players`, `Rooms` |
| Search and resolution, CLI, configuration | `internal/provider`, `cmd/yuzu-cli`, `internal/config`, `internal/app` | none that outlives a call | translate, print, assemble | not modelled |

### How they interact

* Everything that concerns a room goes through the actor's `inbound` channel and
  is handled one command at a time; the queue is written to the store inside the
  handler. What would block runs elsewhere: the construction of a radio source
  (20 s timeout), the fetch of a batch (15 s) and the preflight of the current
  track are goroutines whose result comes back through a channel, and the end of
  a track is a `time.AfterFunc` callback that sends a command. Results therefore
  arrive in any order relative to commands, and after the state they were
  computed for is gone.
* A connection's read loop answers `room.join` before the actors of the old and
  the new room have handled the leave and the join. From then on the actor sends
  revisioned patches; the client applies them to a replica or asks for a new
  baseline.
* A radio source is asked for a batch when the queue runs low; a playlist source
  reads a playlist that HTTP handlers and the synchroniser edit meanwhile.
* A write over REST passes the session (`auth`), the idempotency record, the
  control service and the actor, each with storage of its own and no lock over
  two of them.
* A player is a connection, an entry of the registry, a binding row and a member
  of a room's actor; read loops and HTTP handlers change them in different
  orders.
* The store is SQLite: one transaction per store method. A handler that calls two
  methods, or a method and a map in memory, can be interrupted between them by
  another handler, by a failing write and by a crash.

### What is hard here

Late results (timers, batches, constructions, preflight reports, queue messages
of a room that was left), writes that fail inside a handler, a crash between two
transactions, the queue at its bound while a batch is fetched, positions that are
negative or past the end, tables in memory that follow tables on disk (sessions,
rooms, credentials, cache), and rights that change while a request is under way.
`PROJECT.json` lists each at its line under "hazards", with the properties that
watch it or the reason why none does.

### What makes each part correct

* Room: what a restart loads is what the room shows; no entry is lost, duplicated
  or recorded twice; the end of one track never cuts another; the last radio
  command wins and each caller is answered once; a playing track ends, and a
  waiting advance does not wait for ever.
* Time line and agent: timer and tuple agree; the agent ends up with the newest
  state, is silent in the lead-in, and corrects a constant bias once.
* Queue protocol: the display is always one exact version and catches up.
* Radio sources: one round is one round, a shuffle is fair, a window is the part
  of the list it names, whoever asks is answered.
* Media cache: nobody is given part of a track; a download outlives its first
  client; the files fit the capacity again.
* Playlists: positions have no gap, a bound playlist is one whole version of its
  remote one, and comes to show it.
* Players: the registry holds the live connection, a revoked one is gone, and an
  online player is in the actor of its room with the room's volume.
* Sessions: what was ended stays ended through renewals, issues and restarts;
  what is used lives on.
* Commands: a repeated request runs once, a code serves one subject, and the room
  is asked only for what the caller had a right to.
* Rooms: a room has exactly the actor of its row, with its configuration and its
  contents; who is let in was entitled; a code is good for its period.
* Credentials: what a set has installed stands, row, owner and memory, until
  another credential passes its check; the status settles.


## 2. Modules

| Module | Role |
|---|---|
| `Room` | the actor: queue, playback control, radio, persistence, crash and restart |
| `MCRoom`, `MCRoomWork` | instances of `Room`; the second adds two workloads |
| `RoomProofs` | theorems about `Room` |
| `PlaybackClock` | the time line, the end timer and the account report, with a clock |
| `Agent`, `MCAgent` | `PlaybackClock` composed with an agent that renders it |
| `AgentProofs` | theorems about the time line and the agent that renders it |
| `QueueView` | abstract specification: what the queue protocol promises a listener |
| `QueueSync`, `MCQueueSync` | the protocol between actor, read loop and client library; implements `QueueView` |
| `PlaylistSource` | the playlist radio |
| `TrackSources`, `MCTrackSources` | all radio sources, `PlaylistSource` among them, and their two consumers |
| `Cache`, `MCCache` | the streaming cache |
| `Playlists`, `MCPlaylists` | handlers of playlists against the synchroniser |
| `PlaylistsProofs` | theorems about `Playlists` |
| `Players`, `MCPlayers` | connections of a player against its administrators |
| `PlayersProofs` | theorems about `Players` |
| `Sessions`, `MCSessions` | sessions in memory and store, actors of an integration |
| `SessionsProofs` | theorems about `Sessions` |
| `Bindings` | binding codes and subject links |
| `Commands`, `MCCommands` | `Bindings` composed with idempotent, authorised writes to a room |
| `CommandsProofs` | theorems about `Bindings` and `Commands` |
| `Rooms`, `MCRooms` | rooms, their actors, their admission |
| `RoomsProofs` | theorems about `Rooms` |
| `Credentials`, `MCCredentials` | credentials of providers, monitor, account writes |
| `CredentialsProofs` | theorems about `Credentials` |

Three conventions hold in all of them. A goroutine that never blocks inside a
critical section is one action; where it calls the store, a lock or a channel
twice, it has a location (`th[t].at`, `reader[c].pc`, `sets[a].pc`) and another
goroutine may step in between. A write that can fail has a disjunct or an action
for its failure, with what the handler does then, the ignored error included.
Variables that only record what happened, for a property, are marked as
observations (or history) and no guard reads them. Where the code lets two things
overlap, so does the model, within the bounds and scenarios of section 3; the one
exception is that a write of `Commands` ends within `PendingTTL`. When an order breaks a
property, an observation names that order and the property says what holds besides
it (`overtaken`, `stray`, `haunted`, `cut`, `raced`, `overlapped`, `undisturbed`);
section 5 tells what the code does in it.

### Room

One action per command or result that `Run` receives, because a handler runs to
completion. A handler that changes something and then calls `advance` or `refill`
passes the changed state along in a record (`Here`, `Commit`), so that `Advance`,
`Refill` and `CompletePendingStart` read what the code would read at that point
and the whole handler remains one step.

* `queue`, `current`, `playing` are the actor's fields; `db` is `room_queue` with
  its cursor, `history` is `play_history`. `Commit` is the case in which storing
  succeeds; when it fails the handler returns with nothing changed, which is
  stuttering for queue edits and an explicit disjunct of `AdvanceReady`, because
  there the caller has already consumed something (the timer, the batch).
* Timers: `timerFor` is the armed one, `liveEnd` an expired one whose message
  carries the latest `timerSeq`, `staleEnds` the expired ones with an older
  number. Pausing stops the timer but does not touch the number, so a message
  that was already sent stays live, as in the code.
* A preflight report names a track *reference*: `Unplayable(e)` compares
  `RefOf`, not the entry.
* Radio: `building`, `queuedSource` and `desired` are the construction in flight,
  the request behind it and `desiredSourceID`; `reply[i]` records the answers the
  caller of the i-th `radio.play` has received. `fetching` and `fetchLimit`
  describe the batch, `pendingStart` and `pendingReason` the advance that waits
  for it.
* `Crash` happens between two handlers or, in its second disjunct, inside
  `advanceReady` after the queue was stored and before the history row. `Restart`
  is `loadQueue` and the start of `Run`; `RestartUnread` is the branch in which
  reading the queue failed.

Left out: wording, broadcasts (they belong to `QueueSync` and `Agent`), the
account report (`PlaybackClock`), and refused commands, which change nothing.

### PlaybackClock and Agent

`PlaybackClock` is the same actor seen with a clock: the tuple, the timer with its
number, the goroutine of the expired timer (`running`) and the `inbound` channel
in the order of sending. The queue is a fixed list of tracks. `listened` and
`seeked` are observations.

`Agent` instantiates it (`Clock`) and adds the agent's side: `events` is the
connection, `debounce` the state held back by `debounceWindow`, `expiring` those
whose timer has expired and whose callback has not sent yet, `applyCh` the channel
behind them. `startAt` is the armed start of a track in its lead-in, `loose` the
start timers that `cancelStart` cannot stop (their callback runs already, or
`startTimer` was set to nil without a stop), `startCh` the signal. `cur` is what
the main loop believes, `loaded` the reference of the track it has loaded: as in
the code the same track twice in a row is not loaded again. `mpv` is the player
(file, position, pause, when it is heard), `baseline` the bias that `correct` has
learnt. `TakeBroadcast`, `TakeApply`, `TakeStart`, `TakeTick` and `TakeLeft` are
the cases of the main loop's `select`, which takes any that is ready;
`DebounceFires`, `DebounceSends`, `StartFires` and `StartSignals` are the timers
and their callbacks. `link` follows the connection: lost (`Disconnect`), entered a
room (`Enter`), taken out of it (`Unassign`, `TakeLeft`, `ActorLeaves`).

Three observations mark the orders that break the promise: the last event was
taken while an older state was on its way from its timer to the loop
(`overtaken`), the state of a track was applied while an older start was loose
(`stray`), and the actor has broadcast after `room.left` (`haunted`).

### QueueSync and QueueView

The server side keeps all `versions` of a room's queue; a change appends one and
sends the patch operations the code computes to a member. Where a message is cut
depends on byte sizes in the code, so the model takes every cut. The read loop
blocks in `queue.sync` until the actor answers; `Join` and `Leave` are posted.
The client follows `queue_protocol.go`: assembly by part number and revision,
application as a whole, resync, one `queue.sync` at a time with a timeout that
may be followed by the late answer. `QueueView` is the promise (the display is
one version as a whole, and moves forward until the listener leaves), and
`ImplementsView` is the refinement: `shown` is the replica's revision plus one,
`display` its items.

### PlaylistSource and TrackSources

`PlaylistSource.NextBatch` is two steps, the query for the length and the rest,
with edits in between; the sequential and the shuffled branch, single rounds and
loops, and a failing query. `TrackSources` takes it as one kind (`Generic`) of
nine: lists and favourites that are imported page by page at construction, remote
lists that are only imported, charts read one page per batch, new songs and daily
songs fetched with a batch, the personal radio and the chained walk that remember
what they have given. The room (`RoomAsks`) asks for what it has place for,
`/radio/tracks` (`PageAsks`, `PageAnswers`) builds a source of its own and reads
it to the end of its window. The remote list may change between any two requests
(`Edit`, `Midnight`), and every request may fail.

### Cache

Three kinds of request (a stream, a range request through `Open`, a prefetch)
walk through `Lookup`, `openStreamOnce` and the attempts of `OpenStream`, one
step per access to the store, the disk or the map of downloads. A download is a
record owned by one goroutine: driven by its client (`ClientRead`) or by the
server (`ServerRead`, after `Disconnect` or for `ensure`). Rows and files are
shared without a lock; a sweep (`Evict`, `PruneUnused`, `EvictTrack`) holds `c.mu`
over several steps, removing the file before the row, and everything that takes
`c.mu` waits for it. What a source does is nondeterministic: it names a length
or not, ends early, or fails. An early end is an error of the download only if a
length was announced; a body of unknown length that is cut short is published as
a whole file, as in the code, and its track is in `cut`. `fault` counts
disturbances, which also bounds them (`MaxFaults`); `swept` and `spared` are
observations of the last eviction.

Abstracted: sizes are chunks; the age of rows (evictions take any order); two
evictions that wait at the same time count as one; the file name, which the code
derives from track and format; local files, which never enter the cache; the
list of past downloads.

### Playlists

A handler (`q` in `Requests`) and the periodic synchroniser (`Syncer`) are threads
that read the playlist, talk to the provider and write. `items` keeps the ordinal
of every item, because a replacement counts from 0 and an append or move from 1.
`SyncRead`, `Fetch`, `Replace`, `Result` and `Record` are one synchronisation,
whoever starts it (`CreateFails` and `Rollback` are what a failed first one
undoes); a cover is a file and a column, written in two steps, and a playlist
whose cover is uploaded and removed at once is in `raced` until one of the two
runs without the other. `Tick`, `Scan` and
`ScanNext` are the ticker with its threshold on the age of the last attempt.

### Players

A connection is a read loop from the key it presents (`AuthPlayer`) over the
binding and the registration to the confirmation of the key, and from a read
error to the leave and the unregistration. A handler is create, update, rotate,
delete, bind, unbind or a volume change; a move of a connected player
(`MoveLeave` ... `MoveJoin`) runs inside several of them, and writes the
connection's room without a lock. `Revoke` and `CloseOnce` are the disconnection,
in its two steps. `members` is what the actors hold.

### Sessions

`sessions` is the map under `Manager.mu`, `rows` the table. Each handler is its
sequence of accesses: a login writes the row, then the map; a look-up renews in
memory and, when the row lags by more than `PersistLag`, updates it; a revocation
removes from memory, then the row; rotating, disabling or deleting the integration sweeps its
actor sessions the same way; issuing one of them checks the credential before and
after the session is stored. Updating the integration is its three accesses: what
was there (`ReadIntegration`), the `UPDATE` (`UpdateIntegration`), and the row read
again (`RereadIntegration`), on which the handler decides. `LoadSessions` is the
restart. Logins are of two kinds, guest and password, that share one display name,
because roles are read from the principal.

### Bindings and Commands

`Bindings` has codes (one live code per principal) and `links`; `vouched` is the
observation of who had a right to make a link. `Commands` extends it with the
route of a write: `Resolve` the identity, `Reserve` the key, answer a repetition
(`Repeat`, `ReadAnswer`) or ask the control service (`DecideAdd` ... `Ask`), let
the actor execute, `Complete` the record. Add, remove, the commands of a
controller (clear stands for them) and radio each have a decision and an effect of
their own; grants, the room's policy and
links change meanwhile. `entitled` records whose request was rightful at some
moment since it was resolved. The record of a key expires after `PendingTTL` or
`CompleteTTL` and is pruned.

### Rooms

One room id over the births and deaths of its rooms. `row` and `contents` are in
the store, `actors` are the processes that were ever spawned with what they know,
`registered` is the manager's map. Create, update and delete are read, write and
tell the actor, in the order of the handlers; `Stopped` ends an actor. Any two of
these requests may overlap; `overlapped` remembers that two did that nothing keeps
apart, and whether that was before the last start of the server. An update
merges what the body gives with the row it has read (`Merged`). A join checks the
roles (`Bypass`), the bucket (`Full`) and the credential (`CheckCredential`)
before it enters. A rotating code is what it is computed from (secret of the
actor's configuration, number of the period), so that equality of codes is
equality of those.

### Credentials

`row` is the newest row of the table, `live` the credential in the provider's
memory, `accepted` what the platform accepts. `sets[a]` walks through the
handler: validate, store the row, name the account, put the credential into use,
bind the owner, one step each. Every statement of the store may fail, with what the
code makes of it: `StoreRow` ends the set, `Name` and `Own` ignore the error and go
on, `PersistCredential` leaves the old credential in use and the status invalid,
`CheckWrite` leaves the status, `CheckBegin` takes a row it cannot read for none,
`Restart` starts without it. `ncm` and `bili` ask the platform, and a refusal leaves
a row as well (`Refuse`); `qq` takes a credential that it cannot refresh as it is,
and refreshes the others. The monitor probes what it has read, refreshes a `qq`
credential that has expired (on the platform, then in the row, then in memory), and
writes the status on the row that is newest by then. `WriteBegin` is the check of
the owner, `Write` the write on the account.

`standing` is an observation: what the last undisturbed set has installed, until
another credential passes its check. A set is in `undisturbed` as long as no other
set and, for `qq`, no check ran at the same time and its statement for the account
was done.



## 3. Runs

All twelve hold.

| Run | Question |
|---|---|
| `Room` | A failing store, crashes, unreadable queues; radio commands against constructions, batches, timers and preflights. Rows and memory agree (`DurableQueue`), no entry twice (`EntriesUnique`), one history row per entry (`HistoryOnce`), an end of a track ends only that track (`EndOfCurrent`), callers answered once (`AnsweredOnce`), the last command wins (`LastCommandWins`), growth only up to the bound in force (`QueueBounded`), only a refused write takes the end of a playing track away (`EndKept`) |
| `RoomCalm` | With a store that works and a bound that is out of reach: nothing stalls (`StallFree`), each `radio.play` is answered and each waiting advance ends (`RadioSettles`) |
| `Agent` | Timer, tuple and end of track agree (`TimerMatchesTimeline`), reports are of plays that were heard (`ScrobbleHeard`), the agent ends with the newest state unless the last event overtook an older one (`NewestRendered`), and is silent in the lead-in unless an older start was loose (`SilentBeforeStart`) |
| `QueueSync` | One room: the protocol implements `QueueView` (`ImplementsView`), and the replica catches up (`Converges`) |
| `Sources` | No source repeats what it promises not to (`NothingTwice`: single rounds, shuffles, imports, memory of the personal radio), a window is its part of the list (`WindowExact`), whoever asks is answered (`SourceAnswers`) |
| `Cache` | Whole tracks only and no temporary file lost (`OnlyWholeFiles`), the capacity is restored (`CapacityRestored`), and a client that leaves harms nobody (`DisconnectsHarmless`) |
| `Playlists` | No gap in the numbering (`Contiguous`); bindings, versions and covers are what the rows say (`RowsAreTrue`); bound playlists come to show their remote one (`Converges`) |
| `Players` | The registry holds the open connection (`RegistryExact`), a revoked key is offline (`RevokedOffline`), an online player is in its room with the volume (`PresentInRoom`) |
| `Sessions` | What was ended opens nothing (`EndedIsGone`), what is used lives a whole period (`SlidingSession`), guests do not get an administrator's roles by his name (`GuestsStayGuests`) |
| `Commands` | A code serves one subject and no link is without a voucher (`CodeServesOne`), a repeated write runs once and is answered the same (`RunsOnce`), the room executes only what the caller had a right to (`OnlyEntitled`) |
| `Rooms` | A room has exactly its actor, configuration and contents, unless requests overlapped, and then until the next start (`RoomHasItsActor`), a PATCH that nothing overlaps keeps what it omits (`OmittedKept`), nobody is let in without having been entitled or after unbounded guessing (`AdmittedWereEntitled`), a code is good for its period and its grace (`CodesLiveTheirPeriod`) |
| `Credentials` | What an undisturbed set has installed stands in row, owner and memory (`DelegationStands`), the status becomes the platform's verdict (`StatusSettles`) |

Several invariants are conjunctions of named parts (`RowsAreTrue`,
`RoomHasItsActor`, `NothingTwice`, ...): the parts are separate definitions with
their own comments and can be put into a cfg one by one to see which fails.

### Bounds

The real constants are `max_queue` 50, batches of 10, low water 3, 100 dropped
entries; the code compares with them and does nothing else, so small ones meet
the same cases. Every Init is the state of a new room, connection, source or
server.

* `Room`: two workloads, chosen at the start. *queue*: four requested entries
  (one without a duration), adds of up to two, two policies with `max_queue` 2
  and 1 and different limits per role, no radio: the queue can be full, be longer
  than a bound lowered meanwhile, lose several entries in one advance, and be
  restarted in each of these states, also when its rows cannot be read. *radio*: one requested entry, two radio
  entries (one unplayable), the first two of the same track so that a preflight
  report can hit the wrong entry; batches of two, low water mark one, `max_queue`
  two; two `radio.play` commands per process lifetime, which with `radio.stop`
  and a restart reach every combination of building, waiting and desired request.
* `RoomCalm`: two entries and `max_queue` three, so that the bound is never met;
  two `radio.play` commands.
* `Agent`: tracks of four, two and two ticks, the last two of one reference, with a
  lead of one, seven ticks, a seek past the end, two messages
  in `inbound`, four timers; one command that mpv does not carry out, two sessions
  in the room. An agent listens for two ticks and over three timers, with one
  message at a time in `inbound` and one broadcast on the connection: a state, its
  successor within one debounce window and a third one after it, the callbacks of
  two debounce timers and of two start timers, and the loop can be in any order.
  The executions without an agent have the full bounds of the clock.
* `QueueSync`: two entries, two changes, three joins or leaves, two syncs:
  patches of up to two operations in one or two parts, a resync inside each, a
  join that meets a leave in the channel.
* `Sources`: three tracks (one not playable), batches of up to two, which do not
  divide the list; five batches, so that a second round is reached; pages of two,
  imports of at most three; one edit; four windows that begin, end and lie
  outside the list.
* `Cache`: two requests at a time, two attempts (the code has three), two
  disturbances. An execution asks for streams and prefetches of two tracks of which
  one fits, or for streams and ranges of one of them and of a track over the object
  limit. The readers are interchangeable (`SYMMETRY`).
* `Playlists`: two requests and the synchroniser, two playlists, two remote
  playlists of which one may disappear, one fault and one crash. Ten scenarios
  each allow one group of operations: all pairs at once is beyond TLC, and the
  groups put together what touches the same rows.
* `Players`: two connections, two handlers, two rooms, two keys, two volumes: an
  old and a new connection of the player meet two administrators.
* `Sessions`: two requests; two logins or one actor session, with a life of three
  and two units, a lag of one, five units of time, two credentials of the
  integration, one crash and one failing write.
* `Commands`: two requests with two bodies, two subjects, two principals, two
  codes, each expiring within two units; six scenarios (what is resolved,
  granted or commanded), two faults, so that a failed command meets a failed
  release of its key, and one crash.
* `Rooms`: two requests at a time, two clients of which one has a trusted role, two
  passwords, two periods (one below the minimum), limit and window of two; four
  units of time, three rooms and four actors of the id, one fault, one crash; ten
  scenarios. Where clients join or time passes there are two requests, elsewhere
  four (`Within` of `MCRooms`): two that overlap, one before and one after them.
* `Credentials`: each of the three providers, two administrators, two accounts,
  up to three refreshes, two sets, one restart, one unanswered probe, one failing
  statement, one writer. The first set is of a given administrator and account
  (`First` of `MCCredentials`), because symmetry is not sound with liveness.

Deadlock is checked in `Room`, `RoomCalm` and `Cache`: a room can always take a
command or restart, a cache a request. It is not checked where a bound on time,
changes or requests ends the behaviour.

Symmetry is used only in runs without liveness.

### Fairness

* `RoomCalm`: the construction of a source and the fetch of a batch come to a
  result because both run under a timeout and the actor receives from their
  channels. Nobody is assumed to send a command, a timer is not assumed to be
  punctual, and a crash is possible at any time; `RadioSettles` is therefore up
  to a crash.
* `QueueSync`: goroutines that can take a step do, and the connection delivers.
  The application need not call anything, and timeouts need not happen.
* `Sources`: a room that plays keeps asking (it refills at each advance), a
  request of `/radio/tracks` runs on, and store and provider answer or fail.
  Edits need not happen.
* `Playlists`: the ticker fires, the scan goes through its list, a handler that
  runs goes on, and an import ends by its timeout. No handler has to be called.
* `Credentials`: a request runs to its end, and the monitor keeps ticking and
  ends what it began. Only `MaxOutages` probes remain without an answer, and
  `MaxFaults` statements fail: while the platform does not answer, the status is
  not its verdict.

The other runs check safety only.


## 4. Proofs

Every theorem holds for all values of the constants that the named assumptions
admit: any number of entries, users, connections, requests, tokens or keys, any
bounds and any number of crashes and refused writes, where the runs have a few of
each. In every module the proof is an inductive invariant (`TypeInv`, `QueueInv`,
`SourceInv`, `PlayInv`, `LineInv`, `PlaneInv`, `IInv`) that the initial states
satisfy, that every action keeps (one lemma per action or group of actions), and
that implies the property. Each was first checked by TLC on the instance of the
run. Bounds such as `MaxTime` only limit what TLC explores: the proofs use no more
of them than that they are natural numbers.

### The room actor

`RoomProofs`, under `ConstantsAssumption`: there is an entry value that is no entry,
the radio is no user, the bounds are natural numbers, the batch size, the default
bound and the drop cap positive; every entry has an owner. The sets of entries,
users and policies are arbitrary, and whether the store or a load may fail is
left open.

**Type correctness** (theorem `TypeCorrect`). `TypeOK` is not
inductive: `loadQueue` takes the tail of the rows when there is a cursor, which
has the right type only when the rows are not empty then. `TypeInv` adds
`db \in Rows` (the cursor, if any, is the first row) and the matching fact on
`current`. One lemma per building block (`AdvanceReadyType`, `RefillType`, ...)
and one per group of actions.

**Queue.** `QueueInv` is `TypeInv`, `DurableQueue`, that a
stopped room has no current track, and `Sound`: the entries pending, current and
stored are distinct, were created, and have no history row yet. The last part is
what makes the invariant inductive: an advance may then write a row for the
current entry, and since that entry is neither pending nor stored afterwards, no
later advance, crash or restart meets it again. The crash inside `advanceReady`
keeps it because the stored queue has moved on while the history has not. From
`QueueInvHolds` follow

* `QueueIsDurable`: `Spec => []DurableQueue`,
* `QueueHasNoRepetition`: `Spec => []EntriesUnique`,
* `HistoryIsWrittenOnce`: `Spec => []HistoryOnce`,

for every number of entries, every policy and every bound, where the runs show
them for four entries. The lemmas on sequences (`RestDistinct`, `ConcatDistinct`,
`RemoveDistinct`, `InsertDistinct`) say that each queue edit keeps entries
distinct.

**Radio commands.** `SourceInv` adds to
`AnsweredOnce` and `LastCommandWins` that requests are numbered in order and that
a construction nobody waits behind is the wanted one, unless the radio was
stopped and nothing is bound. Without the last part a cancelled construction
could leave the room bound to a radio that nobody wants any more. It gives
`RadioPlayAnsweredOnce` and `LastRadioCommandWins`.

**Timer and waiting advance.** `PlayInv` adds to
`EndOfCurrent` and `PendingStartBound` that an advance that waits has a reason to
record or no track to record it for, that the history holds only such reasons,
and that a stopped process holds neither a timer nor a waiting advance. It gives
`TimerEndsItsOwnTrack`, `WaitingNeedsRadio` and `OnlyRealReasons`; the last two
are about `PendingStartBound` and `EndReasons`, which the runs leave to the proof.

**Bound and end of a track.**
`QueueNeverOvergrows` proves the action property `QueueBounded`: a step that makes
the queue longer leaves it within the bound in force. Everything that ends in an
advance hands on at most what it was given (`NoLonger`), and what a batch adds is
cut to the room that is left (`AcceptedFits`).

`EndIsKept`: `Spec => EndKept`, whether the store may fail or not. The end of a
playing track is coming when a timer is armed for it, a message of its timer is
live, or an advance waits for a batch. Every handler keeps it, and no track starts
without it; the one step that loses it is the advance, brought about by the timer
or by a batch, whose write the store refuses. That an advance which waits for a
batch is let go again is not part of this: with a full queue it is not (section 5),
and where the queue cannot fill up it is `RadioSettles`, which is model-checked.
`AdvanceEnds` and `TimerAdvanceEnds` say what an advance leaves, the others
(`QueueCommandEnds`, `PlaybackStepEnds`, `RadioStepEnds`, `LifetimeEnds`) take one
group of actions each.

### The time line and the agent

`AgentProofs`, under `AgentAssumption` (durations are positive, lead-in, cap
and bounds natural, seek targets integers, `None` is neither a number nor a state).
`LineInv` says of the tuple that
observers extrapolate from that its time stamp is not in the future, that an armed
timer expires when that extrapolation reaches the end of the track (`Matches`),
that a playing track has its end armed, running or queued with the latest number
(`EndComes`), and that, without seeks, what was audible is what the position says
(`Hears`). The last part is what makes the account report provable: the code
computes it from the position. Nothing the agent does enters this part of the
argument: its actions leave the time line alone.

Of the agent, `NewestInv` follows the newest state of the room from the broadcasts
over the debounced state, the callbacks of expired timers and `applyCh` to the state
applied: unless the last event was taken while an older state was on its way
(`overtaken`), the last of them that is not empty is the room's; and once the agent
was taken out there is nothing left to apply, unless the actor has broadcast since
(`haunted`). `LoadedInv` says that what is loaded is what was applied, as long as mpv
did what it was told. `StartInv` says of a track in its lead-in, unless an older
start was loose when its state was applied (`stray`), that its start timer is not
armed for an earlier instant than position 0, that no other start timer runs and no
signal waits, and that mpv is held. `DriftInv` says that a calibrated player has
begun and is within the threshold of its baseline: heard position and room position
advance together, so no tick finds it elsewhere. `Applied` collects what one call of
`apply` leaves, on each of its paths, the failed load included.

* `TimerIsRight`: `Spec => []TimerMatchesTimeline`,
* `ReportedPlaysWereHeard`: `Spec => ScrobbleHeard`,
* `AgentRendersTheNewest`: `Spec => []NewestRendered`,
* `LeadInIsSilent`: `Spec => []SilentBeforeStart`,
* `AlignedPlayersAreLeftAlone`: `Spec => SoughtOnce`, which no run contains.

None of them has a hypothesis about the order of messages: what the loop's `select`
and the callbacks may do in the code, they may do in the model.

### The player plane

`PlayersProofs`, under `PlayersAssumption` (connections, administrators' requests
and rooms are different things). The properties of `Players` speak of moments when
something has settled, which no step-by-step argument can use. `PlaneInv` therefore
says, of each promise not yet kept, which thread still owes it: an open connection
that is not the registered one is about to be closed; the registered one whose key
was replaced, past its second look at the key, has a revocation on its way
(`RevokeInv`); a connection that is not a client of the room it shows is being
taken there (`PresenceInv`); a volume that was not sent is carried by some thread
(`OfferInv`). Each action is shown to keep all four, and when no thread owes
anything they are the properties:

* `RegistryIsExact`: `Spec => []RegistryExact`,
* `RevocationIsComplete`: `Spec => []RevokedOffline`,
* `PlayersArePresent`: `Spec => []PresentInRoom`.

### Sessions

`SessionsProofs`, under `SessionsAssumption` (the lifetimes and `PersistLag` are
positive, ordinary and actor tokens differ). Three facts carry `IInv`. While a
request issues a token, nobody else holds it (`TokenInv`), so what a revocation or
a sweep removes cannot be put back by a step that was under way. A credential that
was replaced is never valid again (`CredentialInv`), so the second look at the
credential after the insert decides for good (`SettledInv`, `GoneInv`). And the row
of a session lags behind the memory only while the one UPDATE that will bring it up
to date is running (`SlideInv`), so a restart loses at most `PersistLag`. They give

* `EndedStaysGone`: `Spec => []EndedIsGone`,
* `SessionsKeepTheirPromise`: `Spec => []SlidingSession`,
* `GuestsAreNeverAdmins`: `Spec => []GuestsStayGuests`.

`SlidingSession` leaves out the sessions in `excused`: those whose UPDATE the store
refused or a crash interrupted, and those whose row the pruner deleted while they
live on in memory.

### Binding codes and commands

`CommandsProofs`, under `BindingsAssumption` and `CommandsAssumption` (the times are
positive, nobody is a distinguished value, the owners of entries are identities).
`CodeInv`: the code that exists is the latest of its principal, and what was
redeemed is remembered by the code as long as it exists; its identifier is never
used again, so a code that was pruned cannot serve a second subject. `OwnInv`: a
request that has reserved its key has a pending, unexpired record to itself until
it is answered. That rests on the guard of `Tick`: no command takes `PendingTTL`
(five minutes); without it the same key could be reserved twice, which is what
section 5 says of `AtMostOnce`. `RecordInv` and `CountInv` follow the answer and
the number of executions from the reservation over completion and replay to
expiry: what was executed is recorded, or is about to be by the request that owns
the record. `RightInv`: a right that a request has now is among those it had, so
what the control service reads at any of its look-ups was the case during the
request. They give

* `CodesServeOne`: `Spec => []CodeServesOne`,
* `WritesRunOnce`: `Spec => []RunsOnce`,
* `OnlyEntitledAct`: `Spec => []OnlyEntitled`.

### Rooms

`RoomsProofs`, under `RoomsAssumption` (periods, grace, limit and window are
positive, the grace is at most the shortest period, no password is a code).
`CodeInv`: a code that was handed out is its room's birth, its period and the
number of that period; with the lemmas on division (`NumberIsUnique`,
`GraceOfCode`) the check accepts it exactly until its grace is over. `EntryInv`:
a client that is entitled now, or was trusted when its join began, is remembered
as entitled, so each of the three reads of a join stands for a moment of it; a
credential that the check accepts is the password or a code handed out
(`CheckEntitles`). `ProbeInv`: what the bucket counts are the last of the wrong
credentials, the first of them opened it, and whatever is `Limit` further back was
answered a window before that.

`RoomHasItsActor` needs no hypothesis on which requests overlap. `RoomInv` holds
until two of them overlap that nothing keeps apart, and again from the next start of
the server on (`overlapped # "yes"`). It says that at most an update and a deletion
are under way at once (`AloneInv`), and names the request that is on its way whenever
row and actor differ (`ActorInv`): a row without an actor waits for a creation or a
deletion, or a deletion has failed half way; the configuration differs only between
the two writes of the one update (`ConfigInv`). A late update overlapping a deletion
writes nothing or tells an actor that has ended. What the tables hold
(`ContentsInv`) is said only while nothing has overlapped at all, because an actor
without a row may have written to them before the start. `PatchInv` adds that an
update under way holds the merge of its body into the row as it still is
(`MergeInv`), and that a configuration without the password mode holds no password (`SecretInv`). The results:

* `CodesLiveRight`: `Spec => []CodesLiveTheirPeriod`,
* `EntrantsWereEntitled`: `Spec => []AdmittedWereEntitled`,
* `RoomsHaveTheirActors`: `Spec => []RoomHasItsActor`,
* `PatchesKeepTheRest`: `Spec => OmittedKept`.

### Credentials

`CredentialsProofs`, under `CredentialsAssumption` (`None` is no administrator,
account, credential, row or delegation). There is no hypothesis on what overlaps a
set, on failing statements or on restarts. `IInv` consists of the types, what a set
and a check hold at each place (`SetsInv`, `MonitorInv`), what a set that runs alone
has written so far (`AloneInv`: row first, then the name, the memory and the owner),
and `StandInv`: while a delegation stands no other credential has passed its check,
and for `qq`, where a refresh can make a refused credential acceptable again, row,
memory and check hold credentials of its account only. For `ncm` and `bili` a refused
credential of another account may be in the row, which is why the property speaks of
the credentials that the platform accepts. The result is

* `TheLastSetStands`: `Spec => []DelegationStands`.

### Playlists

`PlaylistsProofs`, under `PlaylistsAssumption` (the bounds are natural numbers, finitely
many handlers run at once, a remote playlist has a version). Lemmas on the four ways a
list changes come first: `FromZeroNumbers`, `AppendedNumbers`, `ClosedNumbers` and
`MovedNumbers` say that each leaves a list numbered without a gap from 0 or from 1
(`Numbered`), the last with the sequence that `Listing` sorts and the clamped
position. `PlaylistsInv` then says what a thread goes by at each place (`Sound`): who is
about to edit has a playlist without a binding, and it cannot get one; who holds the
tracks of a provider holds one whole version of the remote playlist that the row is
still bound to, if it is bound at all. `Follows` is what makes that survive every step
of the others: a row comes with its binding and can only lose it. `IdsSuffice` counts
the handlers that still have to create a playlist against the ids left.

`CoverInv` says that an upload and a removal of one cover that are under way have met
(`raced`), and that otherwise the file is there when the row is about to name it, and
no row names it when it is about to go. The results:

* `NumbersHaveNoGap`: `Spec => []Contiguous`,
* `BindingsAreTrue`: `Spec => [](BoundIsWhole /\ OneBinding)`,
* `RowsAreSo`: `Spec => []RowsAreTrue`.

### Only model-checked

* All liveness (`RadioSettles`, `Converges` twice, `SourceAnswers`,
  `StatusSettles`): fairness and ENABLED are outside the prover's reach.
* The refinement of `QueueView` by `QueueSync`: what a client has after a sequence
  of patches is a fold over them, and a statement about every such sequence needs an
  induction over data.
* `NothingTwice` and `WindowExact` of the radio sources: they compare sequences
  that recursive definitions compute.
* The invariants of `Cache`: `OnlyWholeFiles` is within the prover's reach and not
  done; `CapacityRestored` is not (what an eviction frees is a sum over a set, an
  induction over data), nor is `DisconnectsHarmless` (ENABLED).


## 5. Where the code deviates, and what the models assume

What follows was met while translating the code. Each statement of a document or a
comment that the code does not keep is a commented definition next to the
properties (named in parentheses), so that it can be put into a cfg; no run
contains it.

Room and time line

* When storing fails at a natural end, `room.go:1253` returns without a timer: the
  room plays on without an end (`StallFree`, which `RoomCalm` checks where the store
  works). `EndKept` says that nothing else does this.
* A radio bound to an idle room with a full queue waits and fetches nothing
  (`room.go:709`; `PendingHasFetch` in `Room`).
* A timer that expired just before a pause ends the paused track
  (`room.go:1209`, `docs/spec-v1.md:605`; `PausedStays` in `PlaybackClock`).
* When `LoadQueue` fails at start, `loadQueue` returns an empty queue
  (`room.go:1392`) and the next stored change replaces the rows, while
  `room.go:1420` says that rather a track is replayed than the queue lost.
* `play_history` receives the reason `unplayable` (`room.go:1262`);
  `docs/spec-v1.md:526` lists other reasons only.
* A radio whose batch is empty or has no playable track leaves the room idle with
  the radio still bound (`room.go:1055`), while `docs/spec-v1.md:478` describes a
  radio as unattended playback. The next command starts it again.
* The account report takes the position for the time played (`room.go:781`), so a
  seek counts as playing; `docs/spec-v1.md:609` speaks of time played.
  `ScrobbleHeard` is stated for tracks that were not sought.

Queue protocol and agent

* Queue messages carry no room: a late patch of a room that was left is applied to
  the replica of the new one (`internal/client/queue_protocol.go:132`;
  `ReplicaExact` over two rooms).
* The agent's `select` takes what it likes of what is ready
  (`cmd/yuzu-agent/main.go:219`), and a state whose debounce timer has expired is no
  longer withdrawn (`main.go:274`): an old state in `applyCh` may be applied after a
  newer broadcast, while `docs/spec-v1.md:467` has the newest state rendered
  (`NewestWins`), or after `room.left`. The next event mends it; `NewestRendered`
  leaves out exactly the time until then.
* `LeavePlayerRoom` posts the leave to the actor and then sends `room.left`
  (`internal/wsapi/player.go:186`); a broadcast in between reaches the agent after
  `room.left`, and it plays a room it has left, while the comment at `player.go:178`
  has it stop (`LeftIsSilent`; `haunted`).
* `cancelStart` stops the timer and empties the channel (`main.go:149`), but not a
  callback that already runs, and the loop forgets the timer when it takes a signal,
  although it may have been armed anew (`main.go:278`): an old start may open a track in its lead-in, while the comment at
  `main.go:146` has it cancelled (`NoOldStart`; `stray`).
* A seek of the room applied after an alignment and before the next sample makes
  its own distance the baseline of the drift (`HeardInTime`).
* A failed load leaves the old file playing until the next change of the room.

Radio sources

* A looping playlist repeats its first tracks when it wraps inside a batch: the
  batch is filled from the start, but the cursor becomes `cursor % count`
  (`radio.go:131`), while `docs/spec-v1.md:484` describes a loop in order.
* The chained walk ends on a batch that was not heard
  (`internal/provider/ncm/sources.go:494`; `ExhaustedMeansHeard`). A chart is read
  as page times batch size with sizes that vary, so it repeats and skips
  (`ChartIsOneRound`). The personal radio may give more than it was asked for
  (`BatchFits`). The daily songs ignore `once` and `shuffle`, never end, and mix
  two days at midnight.

Cache

* A body of unknown length that the source cuts short is published as a whole track:
  the length is compared only when one was announced (`cache.go:513`), and
  `docs/deploy.md:95` promises no more. The code cannot tell; `OnlyWholeFiles` leaves
  those tracks (`cut`) out.
* `cache.Lookup` deletes the row of a missing file without the lock
  (`cache.go:157`). When the track was downloaded again in between, the new file
  stays without a row and outside the capacity until its next download; a crash
  between renaming and storing the row has the same effect.
* `cache.evict` leaves rows of tracks that are being downloaded (`cache.go:588`).
  If that download fails nothing evicts again, so the cache may stay above its
  capacity until the next one succeeds; `CapacityRestored` allows exactly that.

Playlists

* A bind whose first synchronisation fails may leave the playlist
  (`docs/spec-v1.md:817`, `internal/httpapi/playlists.go:124`; `NoResidue`).
* `MovePlaylistItem` takes positions for ordinals, which differ after a
  synchronisation (`internal/store/store.go:1357`; `MoveHitsItsOrd`).
* A synchronisation under way replaces the items of a playlist that was detached
  meanwhile (`internal/plsync/plsync.go:129`; `DetachedIsKept`), and its late
  result clears the cover.
* Setting and removing a cover at the same time can leave a row without its file.
  `RowsAreTrue` leaves out the playlists in `raced`, to which this has happened since
  an upload or a removal last ran without the other. Deleting a playlist
  leaves its cover file. The periodic synchronisation runs at every second tick.

Players

* A second disconnection of one connection can pass the check before the first
  has closed the channel (`internal/wsapi/wsapi.go:160`; `NoPanic`).
* A player whose binding changes while it says hello can end in another room
  (`AssignmentRules`), and two volume changes at once can leave it with the older
  volume (`VolumeConverges`).

Sessions

* The pruner deletes the row of a session that lives in memory with a longer life
  (`internal/store/store.go:786`; `SurvivesRestart`). An update of an
  integration decides by the row it reads again after its `UPDATE`
  (`internal/store/integrations.go:61`, `internal/httpapi/integrations.go:192`), which
  another request may have changed in between, so that disabling it while another
  request enables it or issues a session can leave sessions that work when it is
  enabled again (`DisabledHasNoSessions`). The error of
  the DELETE of a revocation is ignored (`internal/auth/auth.go:382`).

Commands

* A write whose answer cannot be stored, or that takes longer than the
  reservation, runs again (`internal/httpapi/idempotency.go:89`; `AtMostOnce`).
  The run assumes that a write ends within `PendingTTL` (five minutes).
* Removing a link compares and deletes in two steps (`integrations.go:602`).

Rooms

* Creating, updating and deleting a room at the same time are not ordered: the
  actor of one may serve the row of another, an actor may keep an older
  configuration, and two actors may run, while `docs/spec-v1.md:619` gives a room one
  (`OneActor`; `manager.go:58`). All of this is in the model; `RoomHasItsActor` speaks
  of the time until such requests overlap and from the next start of the server on.
* Two updates at once, or an update and a creation, lose what the first has written,
  while `docs/spec-v1.md:711` has omitted fields kept (`OmittedAlwaysKept`;
  `httpapi.go:510`, `:546`).
* The maps of the manager have no lock (`manager.go:58`); in the model they are
  atomic. A rename never reaches the actor (`httpapi.go:547`), and creating a room
  does not validate its policy. A right credential is accepted with a full
  bucket.

Credentials

* The owner is checked before the write on the account and may change in between
  (`httpapi.go:1049`), while `docs/spec-v1.md:316` asks that the acting principal is
  the owner (`OwnerWrites`).
* The error of binding the owner is ignored: the administrator is told that the
  credential is set, and the old owner keeps the right to it (`httpapi.go:876`,
  `docs/spec-v1.md:314`; `OwnerFollowsSet`). The same happens when the server ends
  after the row and before the owner, and two sets at once may leave memory, row and
  owner of different ones. The error of naming the account is ignored as well
  (`ncm.go:82`, `qq.go:309`): the row keeps the account it inherited.
  `DelegationStands` therefore speaks of sets that ran alone, with these two
  statements done.
* A refused credential is the newest row and is loaded by a restart in place of the
  one in use (`ncm.go:76`, `:58`, `bili.go:73`), while
  `internal/provider/provider.go:281` says that it does not take effect
  (`RefusedStaysOut`).
* A check that cannot read the credential writes `unset` on its row, which no further
  check looks at (`credmon.go:60`, `ncm.go:90`), while `store.go:1495` has `unset` mean
  that there is none (`UnsetIsNoCredential`). `StatusSettles` leaves such rows out.


## 6. What is not modelled

* Wording and layout of messages, rates other than 1 (the code never sets one),
  the byte sizes that decide where a queue message is cut.
* Providers' search and resolution: translation between remote APIs and tracks
  without state; their answers are the choices of `Room`'s preflight and batches
  and of `Cache`'s sources.
* The command line client, configuration and assembly: they parse, print, and run
  once.
* Media tickets and the limiters of logins: one map under one lock with one method
  per operation, and no effect on other state. OIDC validation and the device
  flow: checks of data that is not produced here.
* Of the WebSocket connection: the send buffer and the disconnection of a slow
  consumer (its two-step close is in `Players`), and the command rate limit. A
  reconnect is a new connection.
* Of the player plane: direct commands and state reports, which are forwarded, and
  the deletion of a room with players in it.
* Of the agent: volume and mute, and the start of mpv.
* Of the room: the callback of a timer that expires after the room was deleted; it
  blocks on `inbound` and touches nothing (`room.go:750`).
* Deactivated principals, scope bindings, age of cache rows, the history of
  downloads, the pictures of covers.

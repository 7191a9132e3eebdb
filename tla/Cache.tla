-------------------------------- MODULE Cache --------------------------------
(***************************************************************************)
(* The streaming cache (internal/cache/cache.go): the first reader of a     *)
(* track downloads it and is served while it is written to a temporary      *)
(* file, the others wait for the file.  The index is a table of the store,  *)
(* the files are on disk, and only the map of downloads has a lock (c.mu),  *)
(* which a sweep keeps while it removes files and rows.                     *)
(*                                                                          *)
(* Sizes are counted in chunks.  The download of a track is one record: its *)
(* goroutine owns it until finishInflight takes it out of the map.          *)
(***************************************************************************)
EXTENDS Integers, FiniteSetsExt

CONSTANTS
  Refs,           \* track references that are not local files
  Readers,        \* requests of /stream and prefetches
  Workloads,      \* sets of <<track, kind>>: an execution asks for what one of them has
  NoRef,          \* no track
  Size,           \* Size[r]: chunks the source has of track r
  MaxObjectBytes, \* largest object, 0 for no limit
  MaxBytes,       \* capacity
  Attempts,       \* attempts of one OpenStream (3)
  MaxFaults       \* bound on errors, manual sweeps and crashes

VARIABLES
  row,            \* media_cache: recorded size of a track, or Absent
  file,           \* size of the published file, or Absent
  temps,          \* temporary files of a track
  dl,             \* inflight: the download of a track
  reader,         \* where each request is
  workload,       \* what is asked for
  sweep,          \* the sweep that holds the lock
  evictionDue,    \* an evict goroutine waits for the lock (several count as one)
  swept,          \* the last evict met no error (observation)
  spared,         \* rows it had to leave above capacity (observation)
  cut,            \* tracks whose body, of no announced length, once ended early (observation)
  fault           \* how often the source, the disk, the store or a sweep interfered

aside == <<workload, swept, spared, cut>>
vars == <<row, file, temps, dl, reader, sweep, evictionDue, aside, fault>>

ASSUME CacheAssumption ==
  /\ NoRef \notin Refs
  /\ Workloads \subseteq SUBSET (Refs \X {"stream", "range", "prefetch"})
  /\ Size \in [Refs -> Nat \ {0}]
  /\ MaxObjectBytes \in Nat /\ MaxBytes \in Nat /\ Attempts \in Nat \ {0} /\ MaxFaults \in Nat

Absent == -1
NoDownload == [state |-> "none", fetched |-> 0, total |-> -1]
NoSweep ==
  [refs |-> {}, listed |-> [r \in Refs |-> Absent], excess |-> 0, all |-> FALSE, at |-> NoRef]
Away == [pc |-> "idle", ref |-> NoRef, kind |-> "stream", stage |-> "attempt", attempt |-> 1,
         got |-> 0]

\* Something goes wrong, within the bound.
Trouble == fault < MaxFaults /\ fault' = fault + 1

Unlocked == sweep = NoSweep
Sum(S) == MapThenSumSet(LAMBDA r : row[r], S)
TooLarge(n) == MaxObjectBytes > 0 /\ n > MaxObjectBytes

-----------------------------------------------------------------------------
(* Where a request goes on *)

Goto(x, pc) == [x EXCEPT !.pc = pc]
Failed(x) == [Away EXCEPT !.pc = "failed", !.ref = x.ref]
Got(x, n) == [Away EXCEPT !.pc = "done", !.ref = x.ref, !.got = n]
Whole(x) == x.kind # "stream"
Looking(x, stage) == [x EXCEPT !.pc = "row", !.stage = stage]

\* OpenStream: the next attempt, if one is left.
Retry(x) ==
  IF x.attempt < Attempts THEN [Looking(x, "attempt") EXCEPT !.attempt = @ + 1] ELSE Failed(x)

\* Everything of OpenStream was read: a stream is served, a prefetch is over, and
\* Open looks the file up that ensure has left.
Served(x, n) ==
  CASE x.kind = "stream" -> Got(x, n)
    [] x.kind = "range" -> [Looking(x, "final") EXCEPT !.attempt = 1]
    [] x.kind = "prefetch" -> Away

\* Look-up found nothing: Open goes on to ensure, an attempt to the download, a
\* follower tries again.
Missed(x) ==
  CASE x.stage = "try" -> Looking(x, "attempt")
    [] x.stage = "attempt" -> Goto(x, "join")
    [] x.stage = "follow" -> Retry(x)
    [] x.stage = "final" -> Failed(x)

Set(c, x) == reader' = [reader EXCEPT ![c] = x]

-----------------------------------------------------------------------------
(* A request *)

\* GET /stream, with or without Range, or a prefetch.
Begin(c) ==
  /\ reader[c].pc \in {"idle", "done", "failed"}
  /\ \E q \in workload :
       Set(c, [Away EXCEPT !.pc = "row", !.ref = q[1], !.kind = q[2],
                           !.stage = IF q[2] = "range" THEN "try" ELSE "attempt"])
  /\ UNCHANGED <<row, file, temps, dl, sweep, evictionDue, aside, fault>>

Step(c, pc) ==
  /\ reader[c].pc = pc
  /\ UNCHANGED <<temps, sweep, evictionDue, aside>>

\* Lookup, GetCacheRow and os.Stat.  An error of the store counts as no row.  (In
\* between a sweep can only remove: the file goes first, so what this step may
\* miss is a look-up that comes a little later.)
LookRow(c) ==
  LET x == reader[c]
  IN /\ Step(c, "row")
     /\ \/ /\ Set(c, CASE row[x.ref] = Absent -> Missed(x)
                       [] row[x.ref] # Absent /\ file[x.ref] # Absent -> Goto(x, "open")
                       [] row[x.ref] # Absent /\ file[x.ref] = Absent -> Goto(x, "forget"))
           /\ UNCHANGED fault
        \/ /\ Set(c, Missed(x))
           /\ Trouble
     /\ UNCHANGED <<row, file, dl>>

\* Lookup, DeleteCacheRow: whatever the row says by now.  Its error is ignored.
Forget(c) ==
  LET x == reader[c]
  IN /\ Step(c, "forget")
     /\ row' \in {row, [row EXCEPT ![x.ref] = Absent]}
     /\ Set(c, Missed(x))
     /\ UNCHANGED <<file, dl, fault>>

\* os.Open: an open file stays readable when it is removed or replaced.
OpenFile(c) ==
  LET x == reader[c]
      n == file[x.ref]
  IN /\ Step(c, "open")
     /\ Set(c, CASE n = Absent -> Failed(x)
                 [] n # Absent /\ x.stage \in {"try", "final"} -> Got(x, n)
                 [] n # Absent /\ x.stage \in {"attempt", "follow"} -> Served(x, n))
     /\ UNCHANGED <<row, file, dl, fault>>

\* openStreamOnce: wait for the download in flight, or become its leader.
JoinDownload(c) ==
  LET x == reader[c]
  IN /\ Step(c, "join")
     /\ Unlocked
     /\ \/ /\ dl[x.ref].state # "none"
           /\ Set(c, Goto(x, "wait"))
           /\ UNCHANGED dl
        \/ /\ dl[x.ref].state = "none"
           /\ Set(c, Goto(x, "lead"))
           /\ dl' = [dl EXCEPT ![x.ref].state = "request"]
     /\ UNCHANGED <<row, file, fault>>

\* Resolve fails.
ResolveFails(c) ==
  /\ Step(c, "join")
  /\ Set(c, Failed(reader[c]))
  /\ Trouble
  /\ UNCHANGED <<row, file, dl>>

\* The client of a waiting request goes away (ctx.Done).
GiveUp(c) ==
  /\ Step(c, "wait")
  /\ Set(c, Away)
  /\ UNCHANGED <<row, file, dl, fault>>

-----------------------------------------------------------------------------
(* The download *)

Leader(r) == {c \in Readers : reader[c].pc = "lead" /\ reader[c].ref = r}
Followers(r) == {c \in Readers : reader[c].pc = "wait" /\ reader[c].ref = r}

\* What a follower does with the result: an object over the limit is refused for
\* good, other failures are tried again.
Woken(x, err) ==
  CASE err = "none" -> Looking(x, "follow")
    [] err = "too large" -> Failed(x)
    [] err = "transient" -> Retry(x)

\* What the leader does, after the download of n chunks.
Led(x, led, n) ==
  CASE led = "failed" -> Failed(x)
    [] led = "retry" -> Retry(x)
    [] led = "served" -> Served(x, n)

\* finishInflight: out of the map, and everybody who waits goes on.  What a step
\* does before it is taken to happen when the lock is free.
FinishInflight(r, err, led) ==
  /\ Unlocked
  /\ dl' = [dl EXCEPT ![r] = NoDownload]
  /\ reader' = [c \in Readers |->
       CASE c \in Leader(r) -> Led(reader[c], led, dl[r].fetched)
         [] c \in Followers(r) -> Woken(reader[c], err)
         [] OTHER -> reader[c]]

\* The request to the source.
Connect(r) ==
  /\ dl[r].state = "request" /\ Unlocked
  /\ UNCHANGED <<row, file, sweep, evictionDue, aside>>
  /\ \/ \E total \in {-1, Size[r]} :
          /\ ~TooLarge(total)
          /\ dl' = [dl EXCEPT ![r] = [state |-> "reading", fetched |-> 0, total |-> total]]
          /\ temps' = [temps EXCEPT ![r] = @ + 1]
          /\ UNCHANGED <<reader, fault>>
     \/ /\ TooLarge(Size[r])
        /\ FinishInflight(r, "too large", "failed")
        /\ UNCHANGED <<temps, fault>>
     \/ \* no answer: the leader tries again too
        /\ FinishInflight(r, "transient", "retry")
        /\ Trouble /\ UNCHANGED temps
     \/ \* another status than 200, or no temporary file
        /\ FinishInflight(r, "transient", "failed")
        /\ Trouble /\ UNCHANGED temps

\* teeReader.fail: the temporary file is removed.
Fail(r, err) ==
  /\ temps' = [temps EXCEPT ![r] = @ - 1]
  /\ FinishInflight(r, err, "failed")
  /\ UNCHANGED <<row, file, sweep, evictionDue, aside>>

\* finalize, os.Rename
Rename(r) ==
  /\ temps' = [temps EXCEPT ![r] = @ - 1]
  /\ file' = [file EXCEPT ![r] = dl[r].fetched]
  /\ dl' = [dl EXCEPT ![r] = [@ EXCEPT !.state = "published", !.total = -1]]

\* It fails: the temporary file is gone, too.
Publish(r) ==
  \/ Rename(r) /\ UNCHANGED <<reader, fault>>
  \/ /\ temps' = [temps EXCEPT ![r] = @ - 1]
     /\ FinishInflight(r, "transient", "failed")
     /\ Trouble /\ UNCHANGED file

\* Mutant: a known length is not compared.
FinalizeUnchecked(r) ==
  Publish(r) /\ UNCHANGED <<row, sweep, evictionDue, aside>>

\* teeReader.finalize, up to the renaming: a known length has to match.  (Its test of
\* the limit repeats the one of More.)
Finalize(r) ==
  \/ /\ dl[r].total \in {-1, dl[r].fetched}
     /\ Publish(r)
     /\ UNCHANGED <<row, sweep, evictionDue, aside>>
  \/ dl[r].total \notin {-1, dl[r].fetched} /\ Fail(r, "transient") /\ Trouble

\* One more chunk comes: written, or one too many.
More(r) ==
  /\ dl[r].fetched < Size[r]
  /\ \/ /\ ~TooLarge(dl[r].fetched + 1)
        /\ dl' = [dl EXCEPT ![r].fetched = @ + 1]
        /\ UNCHANGED <<row, file, temps, reader, sweep, evictionDue, aside>>
     \/ TooLarge(dl[r].fetched + 1) /\ Fail(r, "too large")

\* A body whose end is the end of the connection is cut short: finalize has no length to
\* compare, and publishes what came.  (A renaming that fails as well ends like Fail; of the
\* bound, a cut uses all that is left.)
CutShort(r) ==
  /\ dl[r].total = -1 /\ dl[r].fetched < Size[r]
  /\ Rename(r) /\ cut' = cut \cup {r} /\ fault < MaxFaults /\ fault' = MaxFaults
  /\ UNCHANGED <<row, reader, sweep, evictionDue, workload, swept, spared>>

\* teeReader.Read and drain: a chunk, the end, an end that comes too early, or
\* an error of the source or of the disk.
Transfer(r) ==
  \/ More(r) /\ UNCHANGED fault
  \/ dl[r].fetched = Size[r] /\ Finalize(r)
  \/ dl[r].total # -1 /\ Finalize(r)
  \/ CutShort(r)
  \/ Fail(r, "transient") /\ Trouble

\* Reads driven by the client of the leader.
ClientRead(r) ==
  /\ dl[r].state = "reading"
  /\ \E c \in Leader(r) : ~Whole(reader[c])
  /\ Transfer(r)

\* Reads the server makes by itself: ensure and drain.
ServerRead(r) ==
  /\ dl[r].state = "draining" \/ (dl[r].state = "reading" /\ \E c \in Leader(r) : Whole(reader[c]))
  /\ Transfer(r)

\* Mutant: the download ends with its first client.
DisconnectFails(c) ==
  LET r == reader[c].ref
  IN /\ reader[c].pc = "lead" /\ ~Whole(reader[c]) /\ dl[r].state = "reading"
     /\ Fail(r, "transient")
     /\ UNCHANGED fault

\* teeReader.Close before the end: the download goes on without its client.
Disconnect(c) ==
  LET r == reader[c].ref
  IN /\ reader[c].pc = "lead" /\ ~Whole(reader[c]) /\ dl[r].state = "reading"
     /\ dl' = [dl EXCEPT ![r].state = "draining"]
     /\ Set(c, Away)
     /\ UNCHANGED <<row, file, temps, sweep, evictionDue, aside, fault>>

\* finalize, PutCacheRow: without a row the file is removed.
PutRow(r) ==
  /\ dl[r].state = "published"
  /\ \/ /\ row' = [row EXCEPT ![r] = dl[r].fetched]
        /\ dl' = [dl EXCEPT ![r].state = "stored"]
        /\ UNCHANGED <<file, reader, fault>>
     \/ /\ file' = [file EXCEPT ![r] = Absent]
        /\ FinishInflight(r, "transient", "failed")
        /\ Trouble /\ UNCHANGED row
  /\ UNCHANGED <<temps, sweep, evictionDue, aside>>

\* Mutant: capacity is not looked at.
StoredOnly(r) ==
  /\ dl[r].state = "stored"
  /\ FinishInflight(r, "none", "served")
  /\ UNCHANGED <<row, file, temps, sweep, evictionDue, aside, fault>>

\* finalize, the end: capacity is looked at afterwards.
Stored(r) ==
  /\ dl[r].state = "stored"
  /\ FinishInflight(r, "none", "served")
  /\ evictionDue' = TRUE
  /\ UNCHANGED <<row, file, temps, sweep, aside, fault>>

-----------------------------------------------------------------------------
(* Sweeps *)

Idle == {r \in Refs : dl[r].state = "none"}
Indexed == {r \in Refs : row[r] # Absent}

StartSweep(s) ==
  /\ Unlocked
  /\ sweep' = s
  /\ UNCHANGED <<row, file, temps, dl, reader>>

\* evict: rows go, oldest first, until the rest fits.  Any order is taken, and
\* nothing is done when the rows cannot be listed.
Evict ==
  /\ evictionDue /\ evictionDue' = FALSE
  /\ \/ /\ StartSweep([NoSweep EXCEPT !.refs = Indexed \cap Idle, !.at = "next", !.listed = row,
                                      !.excess = Sum(Indexed) - MaxBytes])
        /\ swept' = TRUE /\ UNCHANGED <<workload, cut, fault>>
        /\ spared' = IF Sum(Indexed) > MaxBytes THEN Indexed \ Idle ELSE {}
     \/ /\ swept' = FALSE /\ Trouble
        /\ UNCHANGED <<row, file, temps, dl, reader, sweep, workload, spared, cut>>

\* PruneUnused: rows of a certain age, none that is being downloaded.
PruneUnused ==
  /\ \E S \in SUBSET (Indexed \cap Idle) :
       StartSweep([NoSweep EXCEPT !.refs = S, !.all = TRUE, !.at = "next"])
  /\ Trouble
  /\ UNCHANGED <<evictionDue, aside>>

\* EvictTrack: one row, also of a track that is being downloaded.
EvictTrack ==
  /\ \E r \in Indexed : StartSweep([NoSweep EXCEPT !.refs = {r}, !.all = TRUE, !.at = "next"])
  /\ Trouble
  /\ UNCHANGED <<evictionDue, aside>>

Wanted == {r \in sweep.refs : sweep.all \/ sweep.excess > 0}

\* An error leaves the row; evict goes on with the next one, the others end.
Skip(r) ==
  /\ Trouble
  /\ sweep' = [sweep EXCEPT !.at = "next", !.refs = IF sweep.all THEN {} ELSE @ \ {r}]
  /\ swept' = (swept /\ sweep.all)

\* removeRow, os.Remove
RemoveFile(r) ==
  /\ sweep.at = "next" /\ r \in Wanted
  /\ \/ /\ file' = [file EXCEPT ![r] = Absent]
        /\ sweep' = [sweep EXCEPT !.at = r]
        /\ fault' = IF fault = 0 THEN 1 ELSE fault
        /\ UNCHANGED swept
     \/ Skip(r) /\ UNCHANGED file
  /\ UNCHANGED <<row, temps, dl, reader, evictionDue, workload, spared, cut>>

\* removeRow, DeleteCacheRow
RemoveRow ==
  LET r == sweep.at
  IN /\ r \in Refs
     /\ \/ /\ row' = [row EXCEPT ![r] = Absent]
           /\ sweep' = [sweep EXCEPT !.at = "next", !.refs = @ \ {r},
                                     !.excess = @ - sweep.listed[r]]
           /\ UNCHANGED <<swept, fault>>
        \/ Skip(r) /\ UNCHANGED row
     /\ UNCHANGED <<file, temps, dl, reader, evictionDue, workload, spared, cut>>

\* The lock is given back.
EndSweep ==
  /\ sweep.at = "next" /\ Wanted = {}
  /\ sweep' = NoSweep
  /\ UNCHANGED <<row, file, temps, dl, reader, evictionDue, aside, fault>>

-----------------------------------------------------------------------------
\* The process stops; New removes the temporary files of its predecessor.
Crash ==
  /\ temps' = [r \in Refs |-> 0] /\ dl' = [r \in Refs |-> NoDownload]
  /\ reader' = [c \in Readers |-> Away]
  /\ sweep' = NoSweep /\ evictionDue' = FALSE
  /\ swept' = FALSE /\ spared' = {} /\ Trouble
  /\ UNCHANGED <<row, file, workload, cut>>

Init ==
  /\ row = [r \in Refs |-> Absent] /\ file = [r \in Refs |-> Absent] /\ temps = [r \in Refs |-> 0]
  /\ dl = [r \in Refs |-> NoDownload] /\ reader = [c \in Readers |-> Away]
  /\ sweep = NoSweep /\ evictionDue = FALSE /\ swept = TRUE /\ spared = {} /\ cut = {}
  /\ workload \in Workloads
  /\ fault = 0

Lookup(c) == LookRow(c) \/ Forget(c) \/ OpenFile(c)

Download(r) == Connect(r) \/ ServerRead(r) \/ PutRow(r) \/ Stored(r)

Sweep == Evict \/ (\E r \in Refs : RemoveFile(r)) \/ RemoveRow \/ EndSweep

Next ==
  \/ \E c \in Readers :
       \/ Begin(c) \/ Lookup(c) \/ JoinDownload(c) \/ ResolveFails(c)
       \/ GiveUp(c) \/ Disconnect(c)
  \/ \E r \in Refs : Download(r) \/ ClientRead(r)
  \/ Sweep \/ PruneUnused \/ EvictTrack
  \/ Crash

Spec == Init /\ [][Next]_vars

\* The server's own steps: goroutines go on, and reads end by their timeout.
ServerStep ==
  \/ \E c \in Readers : Lookup(c) \/ JoinDownload(c)
  \/ \E r \in Refs : Download(r)
  \/ Sweep

-----------------------------------------------------------------------------
(* Properties *)

\* Every temporary file belongs to a running download: it is published or
\* removed, once, whichever way the download ends.
TempsOwned ==
  \A r \in Refs : temps[r] = IF dl[r].state \in {"reading", "draining"} THEN 1 ELSE 0

\* What is published and what a request was given is within the limit, and the whole
\* track unless a body of no announced length was cut, over truncated transfers of
\* announced length, hand-overs, sweeps and crashes.
OnlyWholeFiles ==
  /\ TempsOwned
  /\ \A r \in Refs : ~TooLarge(file[r]) /\ (r \notin cut => file[r] \in {Absent, Size[r]})
  /\ \A c \in Readers :
       reader[c].pc = "done" /\ reader[c].ref \notin cut => reader[c].got = Size[reader[c].ref]

\* Rows are stored without the lock, while a sweep counts.  Still, once every
\* eviction that was asked for is over, the rows fit the capacity, unless the only
\* ones left are of tracks that were being downloaded again when it looked.
CapacityRestored ==
  (\A r \in Refs : dl[r].state # "stored") /\ Unlocked /\ ~evictionDue /\ swept
    => Sum(Indexed) <= MaxBytes \/ Indexed \subseteq spared

\* When the server has nothing left to do, whoever still waits does so for a client
\* that leads the download and does not read on; every other request is answered.
OnlyClientsBlock ==
  (\E c \in Readers : reader[c].pc \in {"row", "forget", "open", "join", "wait"})
    /\ ~ENABLED ServerStep
  => \A c \in Readers :
       reader[c].pc \in {"row", "forget", "open", "join", "wait"} =>
         \E l \in Readers : /\ reader[l].pc = "lead" /\ ~Whole(reader[l])
                            /\ reader[l].ref = reader[c].ref

\* A client that goes away harms nobody: as long as the source, the store and the
\* disk work and nothing is swept, a request for a track within the limit does
\* not fail, however many leaders disconnect; and only a client can make it wait.
DisconnectsHarmless ==
  /\ \A c \in Readers : reader[c].pc = "failed" /\ ~TooLarge(Size[reader[c].ref]) => fault > 0
  /\ OnlyClientsBlock
=============================================================================

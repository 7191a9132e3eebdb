--------------------------- MODULE PlaylistSource ---------------------------
(***************************************************************************)
(* The generic playlist radio (internal/room/radio.go, playlistSource): a   *)
(* cursor or a shuffle bag over a playlist that lives in the store and may  *)
(* be edited at any time, also between the queries of one NextBatch.  The   *)
(* room actor (module Room) asks it for one batch at a time and drops it    *)
(* after an error or an exhausted batch.                                    *)
(***************************************************************************)
EXTENDS Integers, SequencesExt, FiniteSetsExt

CONSTANTS
  Tracks,      \* track references
  BatchSize,   \* largest batch the room asks for
  MaxBatches,  \* bound: batches asked of a source
  MaxEdits     \* bound: edits of the playlist

VARIABLES
  playlist,    \* rows of playlist_items, by ord
  edits,       \* edits so far
  shuffle, once, \* flags of radio.play
  cursor,      \* sequential: next position, from 0
  bag,         \* shuffle: positions that are left
  bagUsed,     \* shuffle: a bag was filled
  asked,       \* size of the batch in progress, 0 when there is none
  count,       \* playlist length that NextBatch read
  batch,       \* tracks of the last batch
  given,       \* tracks handed out so far
  batches,     \* batches so far
  over         \* "no", "exhausted" or "failed": the room drops the source

sourceVars == <<shuffle, once, cursor, bag, bagUsed>>
askVars == <<asked, count>>
outVars == <<batch, given, batches, over>>
vars == <<playlist, edits, sourceVars, askVars, outVars>>

\* PlaylistItems: a page of the playlist.
PlaylistItems(offset, limit) ==
  SubSeq(playlist, offset + 1, Min({offset + limit, Len(playlist)}))

\* newPlaylistSource
Init ==
  /\ playlist \in UNION {SetToSeqs(S) : S \in SUBSET Tracks}
  /\ edits = 0
  /\ shuffle \in BOOLEAN /\ once \in BOOLEAN
  /\ cursor = 0 /\ bag = <<>> /\ bagUsed = FALSE
  /\ asked = 0 /\ count = 0
  /\ batch = <<>> /\ given = <<>> /\ batches = 0 /\ over = "no"

\* AppendPlaylistItems, DeletePlaylistItem, MovePlaylistItem; a synchronised
\* playlist is edited remotely and replaced as a whole.
Edit ==
  /\ edits < MaxEdits /\ over = "no"
  /\ edits' = edits + 1
  /\ \/ \E t \in Tracks \ ToSet(playlist) : playlist' = Append(playlist, t)
     \/ \E i \in DOMAIN playlist : playlist' = RemoveAt(playlist, i)
     \/ \E i, j \in DOMAIN playlist :
          playlist' = InsertAt(RemoveAt(playlist, i), j, playlist[i])
     \/ playlist' = <<>>
  /\ UNCHANGED <<sourceVars, askVars, outVars>>

\* NextBatch begins: the length is read before the items are.
Ask(n) ==
  /\ asked = 0 /\ over = "no" /\ batches < MaxBatches
  /\ asked' = n /\ count' = Len(playlist)
  /\ UNCHANGED <<playlist, edits, sourceVars, outVars>>

\* Mutant: that the source is exhausted is not reported.
ReturnOpen(tracks, exhausted) ==
  /\ asked' = 0
  /\ batch' = tracks /\ given' = given \o tracks /\ batches' = batches + 1
  /\ UNCHANGED <<playlist, edits, shuffle, once, count, over>>

\* NextBatch returns.
Return(tracks, exhausted) ==
  /\ asked' = 0
  /\ batch' = tracks /\ given' = given \o tracks /\ batches' = batches + 1
  /\ over' = IF exhausted THEN "exhausted" ELSE over
  /\ UNCHANGED <<playlist, edits, shuffle, once, count>>

\* An empty playlist, or a single round that is over.
NothingLeft ==
  /\ asked > 0
  /\ \/ count = 0
     \/ once /\ ~shuffle /\ cursor >= count
     \/ once /\ shuffle /\ bagUsed /\ bag = <<>>
  /\ Return(<<>>, TRUE)
  /\ UNCHANGED <<cursor, bag, bagUsed>>

\* The batch has n tracks and the end is reached: it is filled up from the start.
More(n) == PlaylistItems(0, asked - n)

\* batchSequential
BatchSequential ==
  LET from == IF cursor >= count THEN 0 ELSE cursor
      items == PlaylistItems(from, asked)
      reached == from + Len(items)
  IN /\ asked > 0 /\ count > 0 /\ ~shuffle
     /\ ~(once /\ cursor >= count)
     /\ \/ /\ reached < count
           /\ cursor' = reached
           /\ Return(items, FALSE)
        \/ /\ reached >= count /\ once
           /\ cursor' = reached
           /\ Return(items, TRUE)
        \/ /\ reached >= count /\ ~once
           /\ cursor' = reached % count
           /\ Return(items \o More(Len(items)), FALSE)
     /\ UNCHANGED <<bag, bagUsed>>

\* Mutant: a bag that is too small for the batch is replaced.
BagsEarly == IF Len(bag) < asked THEN SetToSeqs(0..(count - 1)) ELSE {bag}

\* The bags to draw from: a new one when nothing is left.
Bags == IF bag = <<>> THEN SetToSeqs(0..(count - 1)) ELSE {bag}

\* batchShuffle: an empty bag is filled with all positions; positions the
\* playlist no longer has are passed over.
BatchShuffle ==
  /\ asked > 0 /\ count > 0 /\ shuffle
  /\ ~(once /\ bagUsed /\ bag = <<>>)
  /\ \E full \in Bags :
       LET take == Min({asked, Len(full)})
           valid == SelectSeq(SubSeq(full, 1, take), LAMBDA i : i < count)
       IN /\ bag' = SubSeq(full, take + 1, Len(full))
          /\ Return(FlattenSeq([k \in DOMAIN valid |-> PlaylistItems(valid[k], 1)]),
                    once /\ take = Len(full))
  /\ bagUsed' = TRUE
  /\ UNCHANGED cursor

\* A query fails: the batch is an error, whatever was read before it.
Fail ==
  /\ asked > 0
  /\ asked' = 0 /\ over' = "failed"
  /\ UNCHANGED <<playlist, edits, sourceVars, count, batch, given, batches>>

Batch == NothingLeft \/ BatchSequential \/ BatchShuffle

-----------------------------------------------------------------------------
(* Properties *)

\* A single round plays the playlist: nothing twice, in order unless shuffled,
\* and everything before it says that it is over.
OnceIsOneRound ==
  edits = 0 /\ once =>
    /\ IsInjective(given)
    /\ ~shuffle => IsPrefix(given, playlist)
    /\ over = "exhausted" => Len(given) = Len(playlist)

\* A shuffle bag plays every track once before it plays any of them again,
\* however the batches divide the rounds.
BagIsFair ==
  edits = 0 /\ shuffle =>
    \A i, j \in DOMAIN given :
      i < j /\ given[i] = given[j] =>
        (i - 1) \div Len(playlist) < (j - 1) \div Len(playlist)
=============================================================================

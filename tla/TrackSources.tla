---------------------------- MODULE TrackSources ----------------------------
(***************************************************************************)
(* Every source a radio may be bound to, and its two consumers.             *)
(*                                                                          *)
(* A source is built from a spec (internal/room/radio.go,                   *)
(* NewSourceFromSpec) and then asked for batches.  "playlist" is the        *)
(* playlist of the store (module PlaylistSource); the others belong to the  *)
(* providers: "list" and "fav" are imported page by page when they are      *)
(* built, "newsong" and "daily" are fetched as a whole with a batch, "top"  *)
(* is read one page per batch, "fm" and "chained" walk without an end and   *)
(* remember what they have seen.  "songlist" is a remote playlist that is   *)
(* only imported.                                                           *)
(*                                                                          *)
(* The room asks for batches of the size it has room for; /radio/tracks     *)
(* (internal/httpapi/radio.go) builds a source of its own, reads it up to   *)
(* the end of a window and answers with the window.                         *)
(*                                                                          *)
(* The variable playlist stands for what the store or the remote service    *)
(* holds; it may change between any two requests.                           *)
(***************************************************************************)
EXTENDS Integers, SequencesExt, FiniteSetsExt

CONSTANTS
  Tracks, BatchSize, MaxBatches, MaxEdits,   \* of PlaylistSource
  Kinds,       \* kinds of source that are built
  Dead,        \* tracks that a provider drops when it reads a list
  PageSize,    \* size of a page of an import
  MaxItems,    \* items read of a favourites folder
  Cap,         \* tracks that an endless source remembers
  MaxAnswer,   \* bound: tracks in one answer to an endless source
  Windows,     \* windows <<offset, limit>> that clients ask for
  MaxDays,     \* bound: days
  Unknown, NoWindow

VARIABLES
  playlist, edits, shuffle, once, cursor, bag, bagUsed, asked, count,
  batch, given, batches, over,   \* of PlaylistSource
  kind,      \* the source
  building,  \* the import that builds it is running
  tracks,    \* tracks the source has read
  fetched,   \* items read of a remote list, dropped ones included
  page,      \* pages of a chart read
  loaded,    \* day on which tracks was fetched, 0 for never
  total,     \* what Total returns, or Unknown
  seen,      \* tracks remembered, oldest first
  out,       \* tracks collected for the batch in progress
  attempts,  \* requests made for it
  day,       \* today
  window,    \* the window of a client, or NoWindow for a room
  answer     \* the window's answer

playlistVars == <<playlist, edits, shuffle, once, cursor, bag, bagUsed, asked, count>>
outVars == <<batch, given, batches, over>>
readVars == <<building, tracks, fetched, page, loaded, total>>
endlessVars == <<seen, out, attempts>>
fixedVars == <<kind, window>>
vars == <<playlistVars, outVars, readVars, endlessVars, fixedVars, day, answer>>

ASSUME TrackSourcesAssumption ==
  /\ Kinds \subseteq {"playlist", "list", "fav", "songlist", "newsong", "daily", "top",
                      "fm", "chained"}
  /\ Dead \subseteq Tracks
  /\ BatchSize \in Nat \ {0} /\ MaxBatches \in Nat /\ MaxEdits \in Nat
  /\ PageSize \in Nat \ {0} /\ MaxItems \in Nat \ {0} /\ Cap \in Nat \ {0}
  /\ Windows \subseteq Nat \X (Nat \ {0})
  /\ Unknown \notin Nat /\ NoWindow \notin Windows

Generic == INSTANCE PlaylistSource

Finite == kind \notin {"fm", "chained"}
ImportedKinds == {"list", "fav", "songlist"}

\* What a provider keeps of a list.
Usable(list) == SelectSeq(list, LAMBDA t : t \notin Dead)

-----------------------------------------------------------------------------
(* Construction *)

\* NewSourceFromSpec, NewSource: shuffle and once are refused for an endless source
\* and change nothing for a provider's list; /radio/tracks builds finite sources
\* only, a playlist as a single round in order.
Init ==
  /\ kind \in Kinds /\ window \in Windows \cup {NoWindow}
  /\ Generic!Init
  /\ kind # "playlist" => ~shuffle /\ ~once
  /\ ~Finite => playlist = <<>>
  /\ window # NoWindow => Finite /\ kind # "songlist" /\ ~shuffle /\ (kind = "playlist" => once)
  /\ building = (kind \in ImportedKinds)
  /\ tracks = <<>> /\ fetched = 0 /\ page = 0 /\ loaded = 0
  /\ total = IF kind = "playlist" THEN Len(playlist) ELSE Unknown
  /\ seen = <<>> /\ out = <<>> /\ attempts = 0
  /\ day = 1 /\ answer = Unknown

Rows(from, size) == SubSeq(playlist, from + 1, Min({from + size, Len(playlist)}))

\* An import keeps the tracks of a page and goes on or is complete.
ImportPage(kept, processed, last) ==
  /\ tracks' = tracks \o kept
  /\ fetched' = processed
  /\ building' = ~last
  /\ UNCHANGED <<playlistVars, outVars, page, loaded, endlessVars, fixedVars, day, answer>>

\* ncm ImportPlaylist: pages until a short one.
ImportList ==
  LET rows == Rows(fetched, PageSize)
  IN /\ building /\ kind = "list"
     /\ ImportPage(rows, fetched + Len(rows), Len(rows) < PageSize)
     /\ total' = IF building' THEN Unknown ELSE Len(tracks')

\* bili favoriteTracks: the number of the first page bounds the rest; total holds it
\* until the source is built.
ImportFav ==
  LET rows == Rows(page * PageSize, PageSize)
      length == IF page = 0 THEN Len(playlist) ELSE total
      taken == SubSeq(rows, 1, Min({Len(rows), MaxItems - fetched, length - fetched}))
      processed == fetched + Len(taken)
      last == processed >= length \/ processed >= MaxItems \/ Len(rows) < PageSize
  IN /\ building /\ kind = "fav"
     /\ tracks' = tracks \o Usable(taken) /\ fetched' = processed /\ building' = ~last
     /\ page' = page + 1
     /\ total' = IF last THEN Len(tracks') ELSE length
     /\ UNCHANGED <<playlistVars, outVars, loaded, endlessVars, fixedVars, day, answer>>

\* The rows an import has not taken yet.
UnseenRows(rows) ==
  SelectSeq(rows, LAMBDA t : t \notin Dead /\ t \notin ToSet(tracks))

\* qq ImportPlaylist: hasmore drives it, and what was taken is not taken again.
ImportSonglist ==
  LET rows == Rows(fetched, PageSize)
      kept == UnseenRows(rows)
  IN /\ building /\ kind = "songlist"
     /\ ImportPage(kept, fetched + PageSize,
          fetched + PageSize >= Len(playlist) \/ rows = <<>>
            \/ Len(tracks) + Len(kept) >= Len(playlist))
     /\ UNCHANGED total

\* A page cannot be read: nothing is built.
ImportFails ==
  /\ building
  /\ building' = FALSE /\ over' = "failed"
  /\ UNCHANGED <<playlistVars, batch, given, batches, tracks, fetched, page, loaded, total,
                 endlessVars, fixedVars, day, answer>>

-----------------------------------------------------------------------------
(* One batch *)

Unread == UNCHANGED <<building, tracks, fetched, page, loaded, total>>

\* PlaylistSource; its length is read with the batch.
PlaylistBatch ==
  /\ kind = "playlist" /\ Generic!Batch
  /\ total' = count
  /\ UNCHANGED <<building, tracks, fetched, page, loaded, endlessVars, fixedVars, day, answer>>

Slice(list, from) == SubSeq(list, from + 1, Min({from + asked, Len(list)}))

\* listSource.NextBatch, and the second half of the newsong source.
Deal(list) ==
  /\ asked > 0
  /\ cursor' = Min({Max({cursor, cursor + asked}), Max({cursor, Len(list)})})
  /\ Generic!Return(Slice(list, cursor), cursor' >= Len(list))
  /\ UNCHANGED <<bag, bagUsed, endlessVars, fixedVars, day, answer>>

ListBatch ==
  /\ kind \in {"list", "fav"} /\ ~building
  /\ Deal(tracks)
  /\ Unread

\* qq newsongSource: the list is fetched once.
NewsongBatch ==
  LET list == IF loaded > 0 THEN tracks ELSE Usable(playlist)
  IN /\ kind = "newsong"
     /\ Deal(list)
     /\ tracks' = list /\ loaded' = day /\ total' = Len(list)
     /\ UNCHANGED <<building, fetched, page>>

Outdated == loaded # day \/ tracks = <<>>

\* ncm dailySource: fetched again on another day, repeated without an end.
DailyBatch ==
  LET list == IF Outdated THEN playlist ELSE tracks
      from == IF Outdated \/ cursor >= Len(list) THEN 0 ELSE cursor
  IN /\ kind = "daily" /\ asked > 0
     /\ cursor' = Min({from + asked, Len(list)})
     /\ Generic!Return(Slice(list, from), FALSE)
     /\ tracks' = list /\ loaded' = day /\ total' = Len(list)
     /\ UNCHANGED <<bag, bagUsed, building, fetched, page, endlessVars, fixedVars, day, answer>>

\* A short page, or as many tracks as the first page announced.
ChartEnds(rows) == Len(rows) < asked \/ (total' # Unknown /\ fetched' >= total')

\* qq topSource: the next page, of the size asked for this time.
TopBatch ==
  LET rows == Rows(page * asked, asked)
  IN /\ kind = "top" /\ asked > 0
     /\ page' = page + 1 /\ fetched' = fetched + Len(rows)
     /\ \/ page = 0 /\ total' = Len(playlist)
        \/ UNCHANGED total
     /\ Generic!Return(rows, ChartEnds(rows))
     /\ UNCHANGED <<cursor, bag, bagUsed, building, tracks, loaded, endlessVars, fixedVars,
                    day, answer>>

Answers == UNION {[1..n -> Tracks] : n \in 0..MaxAnswer}

\* seenSet.Add of a track that is new: the oldest is forgotten at the limit.
Remember(list, t) == IF Len(list) = Cap THEN Append(Tail(list), t) ELSE Append(list, t)

Hear(heard, t) ==
  IF t \in ToSet(heard.seen) THEN heard
  ELSE [seen |-> Remember(heard.seen, t), fresh |-> Append(heard.fresh, t)]

Heard(list) == FoldLeft(Hear, [seen |-> seen, fresh |-> <<>>], list)

\* ncm chainedSource: one request for the neighbours of the current track; a batch
\* without anything new is the end.
ChainedBatch ==
  /\ kind = "chained" /\ asked > 0
  /\ \E list \in Answers :
       LET heard == Heard(list)
       IN /\ seen' = heard.seen /\ out' = list
          /\ Generic!Return(SubSeq(heard.fresh, 1, Min({asked, Len(heard.fresh)})),
                            heard.fresh = <<>>)
  /\ UNCHANGED <<cursor, bag, bagUsed, attempts, fixedVars, day, answer>>
  /\ Unread

\* ncm fmSource: requests until the batch is full, at most two for each track.
FmMore == Len(out) < asked /\ attempts < 2 * asked

FmRequest ==
  /\ kind = "fm" /\ asked > 0 /\ FmMore
  /\ \E list \in Answers :
       LET heard == Heard(list)
       IN /\ seen' = heard.seen /\ out' = out \o heard.fresh
          /\ attempts' = IF list = <<>> THEN 2 * asked ELSE attempts + 1
  /\ UNCHANGED <<playlistVars, outVars, fixedVars, day, answer>>
  /\ Unread

FmBatch ==
  /\ kind = "fm" /\ asked > 0 /\ ~FmMore
  /\ out' = <<>> /\ attempts' = 0
  /\ Generic!Return(out, FALSE)
  /\ UNCHANGED <<cursor, bag, bagUsed, seen, fixedVars, day, answer>>
  /\ Unread

NextBatch ==
  \/ PlaylistBatch \/ ListBatch \/ NewsongBatch \/ DailyBatch \/ TopBatch
  \/ ChainedBatch \/ FmBatch

\* The provider or the store cannot answer, or the account is not logged in.
BatchFails ==
  /\ Generic!Fail
  /\ kind \notin {"list", "fav"}
  /\ UNCHANGED <<readVars, endlessVars, fixedVars, day, answer>>

-----------------------------------------------------------------------------
(* The consumers *)

Rest == UNCHANGED <<readVars, endlessVars, fixedVars, day, answer>>

\* refill of the room: batches of the size that the queue has room for.
RoomAsks ==
  /\ window = NoWindow /\ kind # "songlist" /\ ~building
  /\ \E n \in 1..BatchSize : Generic!Ask(n)
  /\ Rest

Offset == window[1]
Limit == window[2]
Target == Offset + Limit

\* The loop of materializeRadioSource is over.
Complete == Len(given) >= Target \/ (total # Unknown /\ Len(given) >= total)

\* An empty batch without an end is an error.
Stuck == batches > 0 /\ batch = <<>> /\ over = "no"

PageAsks ==
  /\ window # NoWindow /\ answer = Unknown /\ ~building
  /\ ~Complete /\ ~Stuck
  /\ Generic!Ask(Limit)
  /\ Rest

\* Mutant: the window ends at its length.
CutShort == SubSeq(given, Offset + 1, Min({Limit, Len(given)}))

\* The part of the batches that lies in the window.
Cut == SubSeq(given, Offset + 1, Min({Target, Len(given)}))

\* The number of tracks, when it is known or the end was read.
Counted == IF total = Unknown /\ over = "exhausted" THEN Len(given) ELSE total

PageAnswers ==
  /\ window # NoWindow /\ answer = Unknown /\ asked = 0 /\ ~building
  /\ \/ /\ over # "failed" /\ (Complete \/ over = "exhausted")
        /\ answer' = [ok |-> TRUE, tracks |-> Cut, total |-> Counted]
     \/ /\ over = "failed" \/ (Stuck /\ ~Complete)
        /\ answer' = [ok |-> FALSE, tracks |-> <<>>, total |-> Unknown]
  /\ UNCHANGED <<playlistVars, outVars, readVars, endlessVars, fixedVars, day>>

-----------------------------------------------------------------------------
(* The world *)

Edit == Generic!Edit /\ Finite /\ answer = Unknown /\ Rest

Midnight ==
  /\ kind = "daily" /\ day < MaxDays /\ over = "no" /\ answer = Unknown
  /\ day' = day + 1
  /\ UNCHANGED <<playlistVars, outVars, readVars, endlessVars, fixedVars, answer>>

Import == ImportList \/ ImportFav \/ ImportSonglist
Work == Import \/ NextBatch \/ FmRequest

Next ==
  \/ Import \/ ImportFails \/ RoomAsks \/ PageAsks \/ PageAnswers
  \/ NextBatch \/ FmRequest \/ BatchFails \/ Edit \/ Midnight

\* Requests end, by an answer or a timeout; a room that plays keeps asking, and so
\* does the loop of /radio/tracks.
Spec ==
  /\ Init /\ [][Next]_vars
  /\ WF_vars(Work) /\ WF_vars(RoomAsks) /\ WF_vars(PageAsks) /\ WF_vars(PageAnswers)

-----------------------------------------------------------------------------
(* Properties *)

\* A shuffled playlist plays every track once before it plays any again, however
\* the batches divide the rounds.
BagIsFair == Generic!BagIsFair

\* A single round, of the playlist or of a provider's list, gives every track once
\* and in order, whatever sizes the room asks for, and says so at its end.
OneRound ==
  /\ Generic!OnceIsOneRound
  /\ edits = 0 /\ kind \in {"list", "fav", "newsong"} =>
       LET whole == IF kind = "list" THEN playlist ELSE Usable(playlist)
       IN /\ IsPrefix(given, whole)
          /\ over = "exhausted" => given = whole

\* An import that meets edits of the remote list between its pages takes no track
\* twice when it removes duplicates, and without edits it takes the whole list.
ImportWhole ==
  kind = "songlist" /\ ~building /\ over = "no" =>
    /\ IsInjective(tracks)
    /\ edits = 0 => tracks = Usable(playlist)

\* The personal radio gives no track again while it remembers it: between two times
\* it gave at least Cap others, over any batches and answers.
FmFresh ==
  kind = "fm" =>
    \A i, j \in DOMAIN given : i < j /\ given[i] = given[j] => j - i > Cap

\* No source gives a track twice where it promises not to: within a round, within what
\* it imports, and within what it remembers.
NothingTwice == OneRound /\ BagIsFair /\ ImportWhole /\ FmFresh

\* A window of /radio/tracks holds exactly its part of the list, and the number of
\* tracks it names is the list's, whatever pages and batches it was read by, unless the list changes while
\* it is read.
WindowExact ==
  edits = 0 /\ day = 1 /\ answer # Unknown /\ answer.ok =>
    LET whole == IF kind \in {"fav", "newsong"} THEN Usable(playlist) ELSE playlist
    IN /\ answer.tracks = SubSeq(whole, Offset + 1, Min({Target, Len(whole)}))
       /\ answer.total \in {Unknown, Len(whole)}

\* Whoever asks for a window gets an answer, also from a list that repeats for ever
\* and from one that shrinks while it is read; and a single round ends.
SourceAnswers ==
  /\ window # NoWindow /\ ~building ~> answer # Unknown
  /\ once /\ window = NoWindow ~> over # "no"

\* sources.go of ncm: a batch is the end when everything in it was heard.
ExhaustedMeansHeard ==
  kind = "chained" /\ over = "exhausted" => ToSet(out) \subseteq ToSet(given)

\* qq topSource reads a chart page by page: in order and as a whole.
ChartIsOneRound ==
  edits = 0 /\ kind = "top" =>
    /\ IsPrefix(given, playlist)
    /\ over = "exhausted" => given = playlist

\* TrackSource.NextBatch: at most as many tracks as asked for.
BatchFits == [][asked > 0 /\ asked' = 0 => over' = "failed" \/ Len(batch') <= asked]_vars
=============================================================================

---------------------------- MODULE PlaybackClock ----------------------------
(***************************************************************************)
(* The playback time line of a room (internal/room/room.go): the tuple      *)
(* (PositionMs, UpdatedAt, Playing) from which every observer computes the  *)
(* position at any instant, the one-shot timer that ends a track, and the   *)
(* inbound channel through which commands and expired timers reach the      *)
(* actor in the order they were sent.  The rate is always 1.                *)
(*                                                                          *)
(* The room plays a fixed list of tracks one after the other; Room models   *)
(* where the list comes from.  Time is counted in ticks.                    *)
(***************************************************************************)
EXTENDS Integers, SequencesExt, FiniteSetsExt

CONSTANTS
  Durations,     \* duration of each track of the list
  Lead,          \* startLeadMs: silence before position 0 of a new track
  ScrobbleCap,   \* playing time that always counts as a play (240 s)
  SeekTargets,   \* positions that clients ask for
  MaxTime,       \* bound: length of a behaviour
  MaxInbound,    \* bound: messages in the inbound channel
  MaxTimers      \* bound: timers after which clients send no more commands

VARIABLES
  now,           \* server clock
  track,         \* track being played; Len(Durations) + 1 when the list is over
  position,      \* PositionMs
  updatedAt,     \* UpdatedAt
  playing,       \* Playing
  timerSeq,      \* number of the last timer armed
  timerAt,       \* when it expires, or NoTimer
  running,       \* expired timers whose callback has not sent yet
  inbound,       \* messages that wait for the actor
  endedBy,       \* reason of the last end of a track
  scrobbled,     \* tracks reported to the account of their owner
  listened,      \* ticks the current track was audible (observation)
  seeked         \* the current track was sought (observation)

vars == <<now, track, position, updatedAt, playing, timerSeq, timerAt, running,
          inbound, endedBy, scrobbled, listened, seeked>>
timeline == <<track, position, updatedAt, playing>>
timers == <<timerSeq, timerAt, running>>
observed == <<endedBy, scrobbled, listened, seeked>>

NoTimer == -1
Idle == Len(Durations) + 1
Duration == Durations[track]

\* position: what every observer computes from the tuple for the instant t.
Position(t) == IF playing THEN position + (t - updatedAt) ELSE position

-----------------------------------------------------------------------------
(* Messages and time *)

Send(m) == Len(inbound) < MaxInbound /\ inbound' = Append(inbound, m)

\* A client's command enters the channel.
Request ==
  /\ timerSeq < MaxTimers
  /\ \/ \E k \in {"pause", "resume", "skip"} : Send([kind |-> k, arg |-> 0])
     \/ \E p \in SeekTargets : Send([kind |-> "seek", arg |-> p])
  /\ UNCHANGED <<now, timeline, timers, observed>>

\* time.AfterFunc runs the callback at or after the instant asked for.
TimerFire ==
  /\ timerAt # NoTimer /\ now >= timerAt
  /\ timerAt' = NoTimer /\ running' = running \cup {timerSeq}
  /\ UNCHANGED <<now, timeline, timerSeq, inbound, observed>>

\* The callback sends actTimerEnd with the number it captured.
TimerSend ==
  \E seq \in running :
    /\ Send([kind |-> "end", arg |-> seq])
    /\ running' = running \ {seq}
    /\ UNCHANGED <<now, timeline, timerSeq, timerAt, observed>>

Tick ==
  /\ now < MaxTime
  /\ now' = now + 1
  /\ listened' = IF playing /\ Position(now) >= 0 THEN listened + 1 ELSE listened
  /\ UNCHANGED <<timeline, timers, inbound, endedBy, scrobbled, seeked>>

-----------------------------------------------------------------------------
(* The actor *)

\* Mutant: the position is not subtracted.
ScheduleEndFull(p, d) ==
  /\ timerSeq' = timerSeq + 1
  /\ timerAt' = now + d

\* scheduleEnd for a track that is at position p and plays from now on.
ScheduleEnd(p, d) ==
  /\ timerSeq' = timerSeq + 1
  /\ timerAt' = now + Max({0, d - p})

\* scheduleEnd or timer.Stop without a playing track: the number stays.
StopTimer == timerAt' = NoTimer /\ UNCHANGED timerSeq

\* Mutant: the lead counts as playing time.
ScrobbleWithLead ==
  LET played == Max({0, Position(now) + Lead})
  IN IF track # Idle /\ played >= Min({ScrobbleCap, Duration \div 2})
     THEN scrobbled' = scrobbled \cup {track} ELSE UNCHANGED scrobbled

\* finishCurrent reports the play once the position has passed half the track.
Scrobble ==
  LET played == Max({0, Position(now)})
  IN IF track # Idle /\ played >= Min({ScrobbleCap, Duration \div 2})
     THEN scrobbled' = scrobbled \cup {track} ELSE UNCHANGED scrobbled

StartTrack(t) ==
  /\ position' = -Lead /\ updatedAt' = now /\ playing' = TRUE
  /\ ScheduleEnd(-Lead, Durations[t])

\* advanceReady: the next track begins Lead before its position 0, or the list is over.
Advance(reason) ==
  LET next == IF track = Idle THEN Idle ELSE track + 1
  IN /\ track' = next
     /\ endedBy' = reason
     /\ Scrobble
     /\ listened' = 0 /\ seeked' = FALSE
     /\ \/ next # Idle /\ StartTrack(next)
        \/ /\ next = Idle
           /\ position' = 0 /\ updatedAt' = 0 /\ playing' = FALSE
           /\ StopTimer

Message(k) == inbound # <<>> /\ Head(inbound).kind = k

Receive == inbound' = Tail(inbound) /\ UNCHANGED <<now, running>>

\* actPause freezes the position.
Pause ==
  /\ Message("pause") /\ Receive
  /\ track # Idle /\ playing
  /\ position' = Position(now) /\ updatedAt' = now /\ playing' = FALSE
  /\ StopTimer
  /\ UNCHANGED <<track, observed>>

\* actResume
Resume ==
  /\ Message("resume") /\ Receive
  /\ track # Idle /\ ~playing
  /\ updatedAt' = now /\ playing' = TRUE
  /\ ScheduleEnd(position, Duration)
  /\ UNCHANGED <<track, position, observed>>

\* actSeek clamps the target to the track.
Seek ==
  LET p == Max({0, Min({Head(inbound).arg, Duration})})
  IN /\ Message("seek") /\ Receive
     /\ track # Idle
     /\ position' = p /\ updatedAt' = now
     /\ \/ playing /\ ScheduleEnd(p, Duration)
        \/ ~playing /\ StopTimer
     /\ seeked' = TRUE
     /\ UNCHANGED <<track, playing, endedBy, scrobbled, listened>>

\* actSkip
Skip == Message("skip") /\ Receive /\ Advance("skipped")

\* actTimerEnd of the last timer armed
TimerEnd ==
  /\ Message("end") /\ Receive
  /\ Head(inbound).arg = timerSeq
  /\ Advance("finished")

\* A command that does not apply (ErrNoPlayback), or an outdated timer.
Ignore ==
  /\ \/ Message("pause") /\ (track = Idle \/ ~playing)
     \/ Message("resume") /\ (track = Idle \/ playing)
     \/ Message("seek") /\ track = Idle
     \/ Message("end") /\ Head(inbound).arg # timerSeq
  /\ Receive
  /\ UNCHANGED <<timeline, timerSeq, timerAt, observed>>

\* The first track has just been started.
Init ==
  /\ now = 0 /\ track = 1
  /\ position = -Lead /\ updatedAt = 0 /\ playing = TRUE
  /\ timerSeq = 1 /\ timerAt = Lead + Durations[1] /\ running = {}
  /\ inbound = <<>>
  /\ endedBy = "" /\ scrobbled = {} /\ listened = 0 /\ seeked = FALSE

Handle == Pause \/ Resume \/ Seek \/ Skip \/ TimerEnd \/ Ignore

Next == Request \/ TimerFire \/ TimerSend \/ Tick \/ Handle

-----------------------------------------------------------------------------
(* Properties *)

\* The armed timer and the tuple agree: it expires at the first instant since
\* UpdatedAt at which the observers put the track at its end or past it, after
\* any pauses, resumes and seeks.
TimerMatchesTimeline ==
  timerAt # NoTimer =>
    /\ playing /\ track # Idle
    /\ timerAt >= updatedAt
    /\ Position(timerAt) = Max({Duration, position})

\* A track that plays cannot stop ending: its timer is armed, its callback runs,
\* or the message that ends it waits.
PlayingEnds ==
  playing =>
    \/ timerAt # NoTimer
    \/ timerSeq \in running
    \/ \E i \in DOMAIN inbound : inbound[i] = [kind |-> "end", arg |-> timerSeq]

\* What spec-v1 says of the natural end: pause and seek reset the timer, so a
\* paused track does not end by itself.
PausedStays == [][track' # track /\ endedBy' = "finished" => playing]_vars
=============================================================================

-------------------------------- MODULE Agent --------------------------------
(***************************************************************************)
(* A room's time line (module PlaybackClock) and the agent that renders it  *)
(* (cmd/yuzu-agent).  The actor broadcasts the tuple after every change;    *)
(* the agent's main loop takes broadcasts, debounced states, the start      *)
(* signal of a track in its lead-in and the ticks of a one-second ticker,   *)
(* in any order that select may choose, and drives mpv.                     *)
(*                                                                          *)
(* The clocks agree (ClockSync); what the output adds is Bias, what loading *)
(* a file takes is a lag.  The rate is always 1.                            *)
(***************************************************************************)
EXTENDS Integers, SequencesExt, FiniteSetsExt

CONSTANTS
  Durations, Lead, ScrobbleCap, SeekTargets, MaxTime, MaxInbound, MaxTimers,  \* of PlaybackClock
  Refs,          \* TrackRef of each track of the list
  Debounce,      \* debounceWindow
  Threshold,     \* seekThreshold
  Bias,          \* mpv reports a position that is Bias behind what is heard
  Lags,          \* ticks from a loadfile until the track is heard
  MaxHeard,      \* bound: timers while an agent listens
  MaxListen,     \* bound: how long an agent listens
  MaxEvents,     \* bound: broadcasts on their way
  MaxSessions,   \* bound: sessions of the agent
  MaxFaults,     \* bound: commands that mpv does not carry out
  None

VARIABLES
  now, track, position, updatedAt, playing, timerSeq, timerAt, running, inbound,
  endedBy, scrobbled, listened, seeked,   \* of PlaybackClock
  link,          \* "off", or connected: without a room, "leaving" it or in the "room"
  sessions,      \* times the agent has entered the room
  events,        \* broadcasts the agent has not taken
  cur,           \* the last state it applied
  loaded,        \* loadedRef, 0 for none
  lastApply,     \* when it applied a state
  debounce,      \* the state that waits for the end of the window
  dueAt,         \* when the window ends, or None
  expiring,      \* states whose timer has expired and that are not sent yet
  applyCh,       \* a state whose window is over
  startAt,       \* when the track in its lead-in starts, or None
  loose,         \* start timers that cancelStart cannot stop: they run already, or
                 \* startTimer no longer points to them (two at one instant are one)
  startCh,       \* the start signal waits
  baseline,      \* drift that counts as none, or None
  awaiting,      \* the next sample is the baseline
  mpv,           \* [file, paused, pos, at]: it is at pos since the instant at
  faults,
  overtaken,     \* the last event was taken while an older state was still to be applied
                 \* (observation)
  stray,         \* the last state was applied while an older start was loose (observation)
  haunted        \* a broadcast has followed room.left (observation)

clockVars == <<now, track, position, updatedAt, playing, timerSeq, timerAt, running,
               inbound, endedBy, scrobbled, listened, seeked>>
syncVars == <<baseline, awaiting>>
startVars == <<startAt, loose, startCh, stray>>
windowVars == <<debounce, dueAt, expiring, applyCh, overtaken>>
loopVars == <<cur, loaded, lastApply, windowVars, startVars, syncVars>>
linkVars == <<link, sessions, events, haunted>>
vars == <<clockVars, loopVars, linkVars, mpv, faults>>

ASSUME AgentAssumption ==
  /\ Durations \in Seq(Nat \ {0}) /\ Durations # <<>>
  /\ Lead \in Nat /\ ScrobbleCap \in Nat /\ MaxTime \in Nat
  /\ MaxInbound \in Nat /\ MaxTimers \in Nat /\ SeekTargets \subseteq Int
  /\ Debounce \in Nat /\ Threshold \in Nat /\ Bias \in Nat /\ Lags \subseteq Nat
  /\ Refs \in [1..Len(Durations) -> Nat \ {0}]
  /\ None \notin Int \cup [track : Int, position : Int, updatedAt : Int, playing : BOOLEAN]

Clock == INSTANCE PlaybackClock

Tuple == [track |-> track, position |-> position, updatedAt |-> updatedAt, playing |-> playing]
Nothing == [track |-> Clock!Idle, position |-> 0, updatedAt |-> 0, playing |-> FALSE]
Left == [Nothing EXCEPT !.track = None]     \* room.left

\* Playback.ShouldBeMs
ShouldBe(pb) == IF pb.playing THEN pb.position + (now - pb.updatedAt) ELSE pb.position

Renders(pb) == pb.track # Clock!Idle

Ref(pb) == Refs[pb.track]

-----------------------------------------------------------------------------
(* mpv *)

Stopped == [file |-> 0, paused |-> mpv.paused, pos |-> 0, at |-> now]

\* Where player m is; negative while its file is being loaded.
Heard(m) == IF m.paused THEN m.pos ELSE m.pos + (now - m.at)
HeardAt == Heard(mpv)

\* m has a position: its file is loaded and not over.
Audible(m) == IF m.file = 0 THEN FALSE ELSE Heard(m) \in 0..(Durations[m.file] - 1)

SetPause(p) == [mpv EXCEPT !.paused = p, !.pos = HeardAt, !.at = now]

-----------------------------------------------------------------------------
(* Drift *)

Abs(n) == IF n < 0 THEN -n ELSE n

Uncalibrated == baseline' = None /\ awaiting' = FALSE

\* Mutant: the drift is taken as it is read, the bias included.
CorrectedRaw(drift, base) == drift

\* How far the position has moved away from the baseline.
Corrected(drift, base) == drift - base

\* correct, of a player m that plays pb: one alignment, then the reading after it is the
\* baseline; afterwards only what exceeds the baseline is sought again.
Correct(m, pb, base, await) ==
  LET drift == Heard(m) - Bias - ShouldBe(pb)
      seek == [m EXCEPT !.pos = ShouldBe(pb), !.at = now]
      measured == ShouldBe(pb) >= 0 /\ Audible(m)
  IN \/ /\ ~measured
        /\ mpv' = m /\ baseline' = base /\ awaiting' = await
     \/ /\ measured /\ base = None /\ (await \/ Abs(drift) <= Threshold)
        /\ mpv' = m /\ baseline' = drift /\ awaiting' = FALSE
     \/ /\ measured
        /\ IF base = None THEN ~await /\ Abs(drift) > Threshold
                          ELSE Abs(Corrected(drift, base)) > Threshold
        /\ mpv' = seek /\ baseline' = None /\ awaiting' = TRUE
     \/ /\ measured
        /\ IF base = None THEN FALSE ELSE Abs(Corrected(drift, base)) <= Threshold
        /\ mpv' = m /\ baseline' = base /\ awaiting' = await

-----------------------------------------------------------------------------
(* The main loop *)

Loop == link # "off" /\ UNCHANGED <<clockVars, link, sessions, haunted>>

\* Mutant: the start that was planned stays planned.
CancelNothing == UNCHANGED startVars

\* cancelStart: a callback that runs already is not stopped.
CancelStart ==
  /\ startAt' = None /\ startCh' = FALSE /\ UNCHANGED loose
  /\ stray' = (loose # {})

\* The player after a loadfile; the pause survives it.
Loads(pb) ==
  {[file |-> pb.track, paused |-> mpv.paused \/ ShouldBe(pb) < 0,
    pos |-> Max({0, ShouldBe(pb)}) - lag, at |-> now] : lag \in Lags}

\* Nothing plays.
ApplyNothing ==
  /\ CancelStart
  /\ loaded' = 0 /\ Uncalibrated /\ mpv' = Stopped
  /\ UNCHANGED faults

\* The track is to start later: it is loaded and held until then.
ApplyLeadIn(pb, m) ==
  /\ startCh' = FALSE /\ UNCHANGED loose /\ stray' = (loose # {})
  /\ startAt' = IF pb.playing THEN now - ShouldBe(pb) ELSE None
  /\ mpv' = m

\* The track is to be heard: paused or not, and corrected at once.
ApplyNow(pb, m, base, await) ==
  /\ CancelStart
  /\ Correct([m EXCEPT !.paused = ~pb.playing,
                       !.pos = Heard(m), !.at = now],
             pb, base, await)

\* loadfile fails: the old file stays, with the new state.
ApplyFails(pb) ==
  /\ faults < MaxFaults /\ faults' = faults + 1
  /\ Ref(pb) # loaded
  /\ CancelStart
  /\ mpv' = IF ShouldBe(pb) < 0 THEN SetPause(TRUE) ELSE mpv
  /\ UNCHANGED <<loaded, syncVars>>

\* apply
Apply(pb) ==
  /\ lastApply' = now /\ cur' = pb
  /\ \/ ~Renders(pb) /\ ApplyNothing
     \/ /\ Renders(pb) /\ Ref(pb) # loaded
        /\ loaded' = Ref(pb)
        /\ \E m \in Loads(pb) :
             \/ ShouldBe(pb) < 0 /\ Uncalibrated /\ ApplyLeadIn(pb, m)
             \/ ShouldBe(pb) >= 0 /\ ApplyNow(pb, m, None, FALSE)
        /\ UNCHANGED faults
     \/ /\ Renders(pb) /\ Ref(pb) = loaded
        /\ \/ ShouldBe(pb) < 0 /\ ApplyLeadIn(pb, SetPause(TRUE)) /\ UNCHANGED syncVars
           \/ ShouldBe(pb) >= 0 /\ ApplyNow(pb, mpv, baseline, awaiting)
        /\ UNCHANGED <<loaded, faults>>
     \/ Renders(pb) /\ ApplyFails(pb)

InWindow == lastApply # None /\ now - lastApply < Debounce

\* Mutant: every broadcast of the window is applied at its end.
MergedFirst(pb) == IF debounce = None THEN pb ELSE debounce

\* Of the broadcasts in a window the last one counts.
Merged(pb) == pb

\* An event is taken: an older state may still be on its way to the loop.
Takes(e) ==
  /\ events # <<>> /\ Head(events) = e /\ events' = Tail(events)
  /\ overtaken' = (applyCh # None \/ expiring # {})

\* scheduleApply: the first change at once, those within the window at its end.
TakeBroadcast ==
  /\ Loop
  /\ \E pb \in ToSet(events) \ {Left} :
       /\ Takes(pb)
       /\ \/ /\ InWindow
             /\ debounce' = Merged(pb) /\ dueAt' = lastApply + Debounce
             /\ UNCHANGED <<cur, loaded, lastApply, startVars, syncVars, mpv, faults>>
          \/ /\ ~InWindow
             /\ debounce' = None /\ dueAt' = None
             /\ Apply(pb)
  /\ UNCHANGED <<expiring, applyCh>>

\* The agent is taken out of the room: it stops.
TakeLeft ==
  /\ Loop /\ Takes(Left)
  /\ debounce' = None /\ dueAt' = None
  /\ cur' = Nothing
  /\ ApplyNothing
  /\ UNCHANGED <<lastApply, expiring, applyCh>>

\* The debounce timer expires.
DebounceFires ==
  /\ debounce # None /\ now >= dueAt
  /\ expiring' = expiring \cup {debounce}
  /\ debounce' = None /\ dueAt' = None
  /\ UNCHANGED <<clockVars, linkVars, cur, loaded, lastApply, applyCh, overtaken,
                 startVars, syncVars, mpv, faults>>

\* Its callback sends the state, unless one waits already.
DebounceSends ==
  \E pb \in expiring :
    /\ expiring' = expiring \ {pb}
    /\ applyCh' = IF applyCh = None THEN pb ELSE applyCh
    /\ UNCHANGED <<clockVars, linkVars, cur, loaded, lastApply, debounce, dueAt, overtaken,
                   startVars, syncVars, mpv, faults>>

TakeApply ==
  /\ Loop /\ applyCh # None
  /\ applyCh' = None
  /\ Apply(applyCh)
  /\ UNCHANGED <<debounce, dueAt, expiring, overtaken, events>>

\* The start timer expires.
StartFires ==
  /\ startAt # None /\ now >= startAt
  /\ startAt' = None /\ loose' = loose \cup {startAt}
  /\ UNCHANGED <<clockVars, linkVars, cur, loaded, lastApply, windowVars, startCh, stray,
                 syncVars, mpv, faults>>

\* The callback of an expired start timer signals.
StartSignals ==
  \E t \in loose :
    /\ now >= t
    /\ loose' = loose \ {t} /\ startCh' = TRUE
    /\ UNCHANGED <<clockVars, linkVars, cur, loaded, lastApply, windowVars, startAt, stray,
                   syncVars, mpv, faults>>

\* The track in its lead-in starts.  startTimer is forgotten, not stopped.
TakeStart ==
  /\ Loop /\ startCh
  /\ startCh' = FALSE /\ startAt' = None
  /\ loose' = loose \cup ({startAt} \ {None})
  /\ \/ /\ Renders(cur) /\ cur.playing
        /\ mpv' = SetPause(FALSE) /\ Uncalibrated
     \/ /\ ~(Renders(cur) /\ cur.playing)
        /\ UNCHANGED <<mpv, syncVars>>
  /\ UNCHANGED <<events, cur, loaded, lastApply, windowVars, stray, faults>>

\* The ticker.
TakeTick ==
  /\ Loop /\ Renders(cur) /\ cur.playing /\ ShouldBe(cur) >= 0
  /\ Correct(mpv, cur, baseline, awaiting)
  /\ UNCHANGED <<events, cur, loaded, lastApply, windowVars, startVars, faults>>

\* The connection ends and mpv stops; the next session starts from nothing.
Disconnect ==
  /\ link # "off" /\ sessions < MaxSessions
  /\ link' = "off" /\ events' = <<>>
  /\ haunted' = FALSE
  /\ cur' = Nothing /\ loaded' = 0 /\ lastApply' = None
  /\ debounce' = None /\ dueAt' = None /\ expiring' = {} /\ applyCh' = None
  /\ overtaken' = FALSE
  /\ startAt' = None /\ loose' = {} /\ startCh' = FALSE /\ stray' = FALSE
  /\ Uncalibrated /\ mpv' = Stopped
  /\ UNCHANGED <<clockVars, sessions, faults>>

\* The agent enters the room, at the start of a session or when it is assigned to it
\* later, and is sent its state.
Enter ==
  /\ link \in {"off", "none"} /\ sessions < MaxSessions
  /\ link' = "room" /\ sessions' = sessions + 1
  /\ events' = Append(events, Tuple) /\ haunted' = FALSE
  /\ Len(events') <= MaxEvents
  /\ UNCHANGED <<clockVars, loopVars, mpv, faults>>

\* LeavePlayerRoom posts the leave to the actor and tells the agent.
Unassign ==
  /\ link = "room" /\ sessions < MaxSessions
  /\ link' = "leaving" /\ events' = Append(events, Left)
  /\ Len(events') <= MaxEvents
  /\ UNCHANGED <<clockVars, sessions, haunted, loopVars, mpv, faults>>

ActorLeaves ==
  /\ link = "leaving" /\ link' = "none"
  /\ UNCHANGED <<clockVars, sessions, events, haunted, loopVars, mpv, faults>>

-----------------------------------------------------------------------------
(* The server *)

\* A change of the tuple is broadcast.
Broadcast == <<track, position, updatedAt, playing>>' # <<track, position, updatedAt, playing>>

ServerStep ==
  /\ Clock!Next
  /\ link # "off" \/ sessions < MaxSessions =>
       /\ now' <= MaxListen
       /\ Len(inbound') > Len(inbound) => timerSeq < MaxHeard /\ inbound = <<>>
  /\ events' = IF link \in {"room", "leaving"} /\ Broadcast THEN Append(events, Tuple')
               ELSE events
  /\ haunted' = (haunted \/ (link = "leaving" /\ Broadcast))
  /\ Len(events') <= MaxEvents
  /\ UNCHANGED <<link, sessions, loopVars, mpv, faults>>

\* With an agent in its first session, or without any.
Init ==
  /\ Clock!Init
  /\ \/ link = "room" /\ sessions = 1 /\ events = <<Tuple>>
     \/ link = "off" /\ sessions = MaxSessions /\ events = <<>>
  /\ cur = Nothing /\ loaded = 0 /\ lastApply = None
  /\ debounce = None /\ dueAt = None /\ expiring = {} /\ applyCh = None
  /\ startAt = None /\ loose = {} /\ startCh = FALSE
  /\ overtaken = FALSE /\ stray = FALSE /\ haunted = FALSE
  /\ baseline = None /\ awaiting = FALSE
  /\ mpv = [file |-> 0, paused |-> FALSE, pos |-> 0, at |-> 0]
  /\ faults = 0

Next ==
  \/ ServerStep
  \/ TakeBroadcast \/ TakeLeft \/ DebounceFires \/ DebounceSends \/ TakeApply
  \/ StartFires \/ StartSignals \/ TakeStart \/ TakeTick
  \/ Enter \/ Unassign \/ ActorLeaves \/ Disconnect

Spec == Init /\ [][Next]_vars

-----------------------------------------------------------------------------
(* Properties *)

\* The timer of the room and its tuple agree, so that the end of a track comes when the
\* observers put it at its end; and a playing track cannot lose its end.
TimerMatchesTimeline == Clock!TimerMatchesTimeline /\ Clock!PlayingEnds

\* Without seeks, a play that is reported was audible as long as the threshold
\* asks, over any number of pauses.
ScrobbleHeard ==
  [][\A t \in scrobbled' \ scrobbled :
       ~seeked => listened >= Min({ScrobbleCap, Durations[t] \div 2})]_vars

AtRest == events = <<>> /\ debounce = None /\ expiring = {} /\ applyCh = None

\* Once nothing is on its way the agent renders what the room plays, over any number
\* of changes within a window, and over reconnects; and nothing once it was taken out.
\* An older state is rendered only if the last event was taken while that state was on
\* its way from its timer to the loop, so the next event at the latest mends it; and a
\* room that was left only if it was broadcast after room.left.
NewestRendered ==
  AtRest /\ ~overtaken =>
    /\ link = "room" \/ (link = "leaving" /\ haunted) =>
         cur = Tuple /\ (faults = 0 => loaded = IF Renders(cur) THEN Ref(cur) ELSE 0)
    /\ link \in {"leaving", "none"} /\ ~haunted => cur = Nothing /\ mpv.file = 0

\* docs/spec-v1.md:467: the newest state is what is rendered.  The code does not keep it:
\* the select may take a broadcast before the older state in applyCh.
NewestWins == AtRest /\ link = "room" => cur = Tuple

\* LeavePlayerRoom: the agent stops rendering the room it has left.  The code does not
\* keep it: the actor may broadcast between room.left and its own leave.
LeftIsSilent == AtRest /\ ~overtaken /\ link = "none" => mpv.file = 0

\* A track in its lead-in is not heard before its start, unless an older start was loose
\* when the track's state was applied.
SilentBeforeStart ==
  link # "off" /\ Renders(cur) /\ cur.playing /\ ShouldBe(cur) < 0 /\ ~stray => mpv.paused

\* cancelStart: an old start does not open the sound of a new state.  The code does not
\* keep it: a callback that runs already still signals.
NoOldStart == link # "off" /\ Renders(cur) /\ cur.playing /\ ShouldBe(cur) < 0 => mpv.paused

\* A calibrated player is heard within twice the threshold, and the bias, of where the
\* room is.  The code does not keep this: a seek of the room that is applied before the
\* reading after an alignment makes its own distance the baseline.
HeardInTime ==
  link # "off" /\ baseline # None /\ Renders(cur) /\ cur.playing /\ Audible(mpv) /\ ~mpv.paused =>
    Abs(HeardAt - ShouldBe(cur)) <= 2 * Threshold + Bias

\* A constant bias is sought once: a calibrated player that plays is left alone until
\* the room's state changes.
SoughtOnce ==
  [][TakeTick /\ baseline # None /\ ~mpv.paused /\ Renders(cur) /\ loaded = Ref(cur) => UNCHANGED mpv]_vars
=============================================================================

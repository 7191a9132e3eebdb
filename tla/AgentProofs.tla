---------------------------- MODULE AgentProofs ----------------------------
(***************************************************************************)
(* The time line of a room and the agent that renders it: theorems for      *)
(* every list of tracks, every lead-in, every seek target, every threshold  *)
(* and bias, and every order in which commands, expired timers and          *)
(* broadcasts are taken.                                                    *)
(***************************************************************************)
EXTENDS Agent, SequenceTheorems, TLAPS

-----------------------------------------------------------------------------
(* The invariant *)

LEMMA MaxOfTwo ==
  ASSUME NEW a \in Int, NEW b \in Int
  PROVE  /\ Max({a, b}) = IF a >= b THEN a ELSE b
         /\ Clock!Max({a, b}) = IF a >= b THEN a ELSE b
BY DEF Max, Clock!Max

LEMMA MinOfTwo ==
  ASSUME NEW a \in Int, NEW b \in Int
  PROVE  /\ Min({a, b}) = IF a <= b THEN a ELSE b
         /\ Clock!Min({a, b}) = IF a <= b THEN a ELSE b
BY DEF Min, Clock!Min

Messages == [kind : {"pause", "resume", "skip", "seek", "end"}, arg : Int]

\* Types, and a tuple that was written in the past.
LineType ==
  /\ now \in Nat /\ track \in 1..Clock!Idle
  /\ position \in Int /\ updatedAt \in 0..now /\ playing \in BOOLEAN
  /\ timerSeq \in Nat /\ timerAt \in Nat \cup {Clock!NoTimer}
  /\ running \subseteq Nat /\ inbound \in Seq(Messages)
  /\ listened \in Nat /\ seeked \in BOOLEAN

\* The end of the track is coming, with the latest number.
EndComes ==
  \/ timerAt # Clock!NoTimer
  \/ timerSeq \in running
  \/ \E i \in 1..Len(inbound) : inbound[i] = [kind |-> "end", arg |-> timerSeq]

\* The timer is armed for the instant at which observers see the end.
Matches ==
  timerAt # Clock!NoTimer =>
    /\ playing
    /\ timerAt >= updatedAt
    /\ LET end == position + (timerAt - updatedAt)
       IN end = IF Durations[track] >= position THEN Durations[track] ELSE position

\* Without seeks, what was audible is what the position says.
Hears ==
  track # Clock!Idle /\ ~seeked =>
    LET at == IF playing THEN position + (now - updatedAt) ELSE position
    IN listened = IF at >= 0 THEN at ELSE 0

\* The inductive invariant.
LineInv ==
  /\ LineType
  /\ playing => track # Clock!Idle
  /\ playing => EndComes
  /\ Matches
  /\ Hears

LEMMA TrackDuration ==
  ASSUME NEW t \in 1..Clock!Idle, t # Clock!Idle
  PROVE  Durations[t] \in Nat /\ t + 1 \in 1..Clock!Idle
<1>1. Len(Durations) \in Nat /\ Clock!Idle = Len(Durations) + 1
  BY LenProperties, AgentAssumption DEF Clock!Idle
<1>2. t \in 1..Len(Durations)
  BY <1>1
<1>3. Durations[t] \in Nat \ {0}
  BY <1>2, ElementOfSeq, AgentAssumption
<1> QED BY <1>1, <1>2, <1>3

LEMMA FirstTrack ==
  1 \in 1..Clock!Idle /\ 1 # Clock!Idle
<1>1. Len(Durations) \in Nat /\ Len(Durations) # 0
  BY LenProperties, EmptySeq, AgentAssumption
<1> QED BY <1>1 DEF Clock!Idle

\* What a started, resumed or sought track leaves behind: a timer for its end.
LEMMA Scheduled ==
  ASSUME NEW p \in Int, NEW d \in Nat, LineType,
         Clock!ScheduleEnd(p, d), position' = p, updatedAt' = now, playing' = TRUE
  PROVE  /\ timerSeq' \in Nat /\ timerAt' \in Nat /\ timerAt' # Clock!NoTimer
         /\ timerAt' >= updatedAt'
         /\ position' + (timerAt' - updatedAt') = IF d >= p THEN d ELSE p
<1>1. Clock!Max({0, d - p}) = IF 0 >= d - p THEN 0 ELSE d - p
  BY MaxOfTwo
<1>2. timerSeq' = timerSeq + 1 /\ timerAt' = now + Clock!Max({0, d - p})
  BY DEF Clock!ScheduleEnd
<1> QED BY <1>1, <1>2 DEF LineType, Clock!NoTimer

-----------------------------------------------------------------------------
(* The messages *)

LEMMA SentMessage ==
  ASSUME LineType, NEW m \in Messages, Clock!Send(m)
  PROVE  /\ inbound' \in Seq(Messages) /\ Len(inbound') = Len(inbound) + 1
         /\ \A i \in 1..Len(inbound) : inbound'[i] = inbound[i]
         /\ inbound'[Len(inbound')] = m
BY AppendProperties, LenProperties DEF LineType, Clock!Send

LEMMA ReceivedMessage ==
  ASSUME LineType, inbound # <<>>, Clock!Receive
  PROVE  /\ inbound' \in Seq(Messages) /\ Len(inbound') = Len(inbound) - 1
         /\ Head(inbound) \in Messages /\ Head(inbound) = inbound[1]
         /\ \A i \in 1..Len(inbound') : inbound'[i] = inbound[i + 1]
         /\ now' = now /\ running' = running
BY HeadTailProperties, LenProperties DEF LineType, Clock!Receive

\* The end that waits in the channel still waits, unless it was the message taken.
LEMMA EndStaysQueued ==
  ASSUME LineType, inbound # <<>>, Clock!Receive, EndComes, timerAt' = timerAt, timerSeq' = timerSeq,
         Head(inbound) # [kind |-> "end", arg |-> timerSeq]
  PROVE  EndComes'
<1>1. CASE timerAt # Clock!NoTimer \/ timerSeq \in running
  BY <1>1, ReceivedMessage DEF EndComes
<1>2. CASE \E i \in 1..Len(inbound) : inbound[i] = [kind |-> "end", arg |-> timerSeq]
  <2>1. PICK i \in 1..Len(inbound) : inbound[i] = [kind |-> "end", arg |-> timerSeq]
    BY <1>2
  <2>2. i # 1 /\ Len(inbound) \in Nat
    BY <2>1, ReceivedMessage, LenProperties DEF LineType
  <2>3. i - 1 \in 1..Len(inbound') /\ inbound'[i - 1] = inbound[i]
    <3>1. i - 1 \in 1..Len(inbound') /\ (i - 1) + 1 = i
      BY <2>2, ReceivedMessage
    <3> QED BY <3>1, ReceivedMessage
  <2> QED BY <2>1, <2>3 DEF EndComes
<1> QED BY <1>1, <1>2 DEF EndComes

-----------------------------------------------------------------------------
(* The steps of the time line *)

LEMMA RequestLine ==
  ASSUME LineInv, Clock!Request
  PROVE  LineInv'
<1>1. UNCHANGED <<now, track, position, updatedAt, playing, timerSeq, timerAt, running,
                  listened, seeked>>
  BY DEF Clock!Request, Clock!timeline, Clock!timers, Clock!observed
<1>2. PICK m \in Messages : Clock!Send(m)
  <2>1. \A p \in SeekTargets : [kind |-> "seek", arg |-> p] \in Messages
    BY AgentAssumption DEF Messages
  <2>2. \A k \in {"pause", "resume", "skip"} : [kind |-> k, arg |-> 0] \in Messages
    BY DEF Messages
  <2> QED BY <2>1, <2>2 DEF Clock!Request
<1>3. /\ inbound' \in Seq(Messages) /\ Len(inbound') = Len(inbound) + 1
      /\ \A i \in 1..Len(inbound) : inbound'[i] = inbound[i]
  BY <1>2, SentMessage DEF LineInv
<1>4. LineType' /\ Matches' /\ Hears' /\ (playing' => track' # Clock!Idle)
  BY <1>1, <1>3 DEF LineInv, LineType, Matches, Hears
<1>5. EndComes => EndComes'
  <2>1. Len(inbound) \in Nat
    BY LenProperties DEF LineInv, LineType
  <2>2. \A i \in 1..Len(inbound) : i \in 1..Len(inbound')
    BY <1>3, <2>1
  <2> QED BY <1>1, <1>3, <2>2 DEF EndComes
<1> QED BY <1>1, <1>4, <1>5 DEF LineInv

LEMMA TimerFireLine ==
  ASSUME LineInv, Clock!TimerFire
  PROVE  LineInv'
<1>1. /\ timerAt' = Clock!NoTimer /\ running' = running \cup {timerSeq}
      /\ UNCHANGED <<now, track, position, updatedAt, playing, timerSeq, inbound, listened, seeked>>
  BY DEF Clock!TimerFire, Clock!timeline, Clock!observed
<1>2. EndComes'
  BY <1>1 DEF EndComes
<1> QED BY <1>1, <1>2 DEF LineInv, LineType, Matches, Hears

LEMMA TimerSendLine ==
  ASSUME LineInv, Clock!TimerSend
  PROVE  LineInv'
<1>1. PICK seq \in running : /\ Clock!Send([kind |-> "end", arg |-> seq])
                             /\ running' = running \ {seq}
  BY DEF Clock!TimerSend
<1>2. UNCHANGED <<now, track, position, updatedAt, playing, timerSeq, timerAt, listened, seeked>>
  BY DEF Clock!TimerSend, Clock!timeline, Clock!observed
<1> DEFINE m == [kind |-> "end", arg |-> seq]
<1>3. m \in Messages
  BY DEF Messages, LineInv, LineType
<1>4. /\ inbound' \in Seq(Messages) /\ Len(inbound') = Len(inbound) + 1
      /\ \A i \in 1..Len(inbound) : inbound'[i] = inbound[i]
      /\ inbound'[Len(inbound')] = m
  BY <1>1, <1>3, SentMessage DEF LineInv
<1>5. LineType' /\ Matches' /\ Hears' /\ (playing' => track' # Clock!Idle)
  BY <1>1, <1>2, <1>4 DEF LineInv, LineType, Matches, Hears
<1>6. EndComes => EndComes'
  <2>1. Len(inbound) \in Nat
    BY LenProperties DEF LineInv, LineType
  <2>2. \A i \in 1..Len(inbound) : i \in 1..Len(inbound')
    BY <1>4, <2>1
  <2>3. Len(inbound') \in 1..Len(inbound')
    BY <1>4, <2>1
  <2>4. CASE seq = timerSeq
    BY <1>2, <1>4, <2>3, <2>4 DEF EndComes
  <2>5. CASE seq # timerSeq
    BY <1>1, <1>2, <1>4, <2>2, <2>5 DEF EndComes
  <2> QED BY <2>4, <2>5
<1> QED BY <1>2, <1>5, <1>6 DEF LineInv

LEMMA TickLine ==
  ASSUME LineInv, Clock!Tick
  PROVE  LineInv'
<1>1. /\ now' = now + 1
      /\ UNCHANGED <<track, position, updatedAt, playing, timerSeq, timerAt, running,
                     inbound, seeked>>
  BY DEF Clock!Tick, Clock!timeline, Clock!timers
<1>2. listened' = IF playing /\ position + (now - updatedAt) >= 0 THEN listened + 1 ELSE listened
  BY DEF Clock!Tick, Clock!Position
<1>3. LineType' /\ Matches' /\ (EndComes => EndComes')
  BY <1>1, <1>2 DEF LineInv, LineType, Matches, EndComes
<1>4. Hears'
  BY <1>1, <1>2 DEF LineInv, LineType, Hears
<1> QED BY <1>1, <1>3, <1>4 DEF LineInv

\* The next track, or the end of the list.
LEMMA AdvanceLine ==
  ASSUME LineInv, inbound # <<>>, Clock!Receive, NEW reason, Clock!Advance(reason)
  PROVE  LineInv'
<1>0. /\ inbound' \in Seq(Messages) /\ now' = now /\ running' = running
      /\ listened' = 0 /\ seeked' = FALSE
  BY ReceivedMessage DEF LineInv, Clock!Advance
<1> DEFINE next == IF track = Clock!Idle THEN Clock!Idle ELSE track + 1
<1>1. next \in 1..Clock!Idle /\ track' = next
  BY TrackDuration DEF LineInv, LineType, Clock!Advance
<1>2. CASE next # Clock!Idle /\ Clock!StartTrack(next)
  <2>1. /\ position' = -Lead /\ updatedAt' = now /\ playing' = TRUE
        /\ Clock!ScheduleEnd(-Lead, Durations[next]) /\ Lead \in Nat
    BY <1>2, AgentAssumption DEF Clock!StartTrack
  <2>2. Durations[next] \in Nat
    BY <1>1, <1>2, TrackDuration
  <2>3. /\ timerSeq' \in Nat /\ timerAt' \in Nat /\ timerAt' # Clock!NoTimer
        /\ timerAt' >= updatedAt'
        /\ position' + (timerAt' - updatedAt')
             = IF Durations[next] >= -Lead THEN Durations[next] ELSE -Lead
    BY <2>1, <2>2, Scheduled DEF LineInv
  <2>4. LineType'
    <3>1. -Lead \in Int /\ now \in Nat /\ updatedAt' \in 0..now' /\ playing' \in BOOLEAN
      BY <1>0, <2>1 DEF LineInv, LineType
    <3>2. running' \subseteq Nat
      BY <1>0 DEF LineInv, LineType
    <3> QED BY <1>0, <1>1, <2>1, <2>3, <3>1, <3>2 DEF LineType
  <2>5. Hears'
    BY <1>0, <2>1 DEF LineInv, LineType, Hears
  <2> QED BY <1>1, <1>2, <2>1, <2>3, <2>4, <2>5 DEF LineInv, EndComes, Matches
<1>3. CASE next = Clock!Idle /\ position' = 0 /\ updatedAt' = 0 /\ playing' = FALSE /\ Clock!StopTimer
  <2>1. /\ timerAt' = Clock!NoTimer /\ timerSeq' = timerSeq
        /\ track' = Clock!Idle /\ position' = 0 /\ updatedAt' = 0 /\ playing' = FALSE
    BY <1>1, <1>3 DEF Clock!StopTimer
  <2>2. LineType'
    <3>1. /\ now' \in Nat /\ timerSeq' \in Nat /\ running' \subseteq Nat
          /\ updatedAt' \in 0..now' /\ track' \in 1..Clock!Idle
      BY <1>0, <1>1, <2>1 DEF LineInv, LineType
    <3>2. position' \in Int /\ listened' \in Nat
      BY <1>0, <2>1, SMT
    <3>3. playing' \in BOOLEAN /\ seeked' \in BOOLEAN
      BY <1>0, <2>1, Zenon
    <3>4. timerAt' \in Nat \cup {Clock!NoTimer}
      BY <2>1
    <3> QED BY <1>0, <3>1, <3>2, <3>3, <3>4 DEF LineType
  <2>3. Matches' /\ Hears'
    BY <2>1 DEF Matches, Hears
  <2> QED BY <2>1, <2>2, <2>3 DEF LineInv
<1> QED BY <1>2, <1>3 DEF Clock!Advance

LEMMA HandleLine ==
  ASSUME LineInv, Clock!Handle
  PROVE  LineInv'
<1>0. inbound # <<>> /\ Clock!Receive
  BY DEF Clock!Handle, Clock!Pause, Clock!Resume, Clock!Seek, Clock!Skip, Clock!TimerEnd,
         Clock!Ignore, Clock!Message
<1>1. /\ inbound' \in Seq(Messages) /\ Head(inbound) \in Messages
      /\ now' = now /\ running' = running
  BY <1>0, ReceivedMessage DEF LineInv
<1>2. CASE Clock!Skip \/ Clock!TimerEnd
  BY <1>0, <1>2, AdvanceLine DEF Clock!Skip, Clock!TimerEnd
<1>3. CASE Clock!Pause
  <2>1. /\ position' = position + (now - updatedAt) /\ updatedAt' = now /\ playing' = FALSE
        /\ timerAt' = Clock!NoTimer
        /\ UNCHANGED <<timerSeq, track, listened, seeked>>
        /\ playing
    BY <1>3 DEF Clock!Pause, Clock!Position, Clock!StopTimer, Clock!observed
  <2>2. LineType'
    <3>1. position' \in Int /\ updatedAt' \in 0..now' /\ now' \in Nat
      BY <1>1, <2>1 DEF LineInv, LineType
    <3> QED BY <1>1, <2>1, <3>1 DEF LineInv, LineType
  <2>3. Matches' /\ Hears'
    BY <1>1, <2>1 DEF LineInv, LineType, Matches, Hears
  <2> QED BY <2>1, <2>2, <2>3 DEF LineInv
<1>4. CASE Clock!Resume
  <2>1. /\ updatedAt' = now /\ playing' = TRUE /\ ~playing /\ track # Clock!Idle
        /\ Clock!ScheduleEnd(position, Durations[track])
        /\ UNCHANGED <<track, position, listened, seeked>>
    BY <1>4 DEF Clock!Resume, Clock!Duration, Clock!observed
  <2>2. Durations[track] \in Nat
    BY <2>1, TrackDuration DEF LineInv, LineType
  <2>3. /\ timerSeq' \in Nat /\ timerAt' \in Nat /\ timerAt' # Clock!NoTimer
        /\ timerAt' >= updatedAt'
        /\ position' + (timerAt' - updatedAt')
             = IF Durations[track] >= position THEN Durations[track] ELSE position
    BY <2>1, <2>2, Scheduled DEF LineInv, LineType
  <2>4. LineType' /\ Hears'
    BY <1>1, <2>1, <2>3 DEF LineInv, LineType, Hears
  <2> QED BY <2>1, <2>3, <2>4 DEF LineInv, EndComes, Matches
<1>5. CASE Clock!Seek
  <2> DEFINE p == Clock!Max({0, Clock!Min({Head(inbound).arg, Durations[track]})})
  <2>1. /\ position' = p /\ updatedAt' = now /\ track # Clock!Idle /\ seeked' = TRUE
        /\ \/ playing /\ Clock!ScheduleEnd(p, Durations[track])
           \/ ~playing /\ Clock!StopTimer
        /\ UNCHANGED <<track, playing, listened>>
    BY <1>5 DEF Clock!Seek, Clock!Duration
  <2>2. Durations[track] \in Nat /\ Head(inbound).arg \in Int
    BY <1>1, <2>1, TrackDuration DEF LineInv, LineType, Messages
  <2>3. p \in Int
    <3>1. \A a, b \in Int : Clock!Min({a, b}) \in Int
      BY MinOfTwo
    <3>2. Clock!Min({Head(inbound).arg, Durations[track]}) \in Int
      BY <2>2, <3>1
    <3> QED BY <3>2, MaxOfTwo
  <2> HIDE DEF p
  <2>4. CASE playing /\ Clock!ScheduleEnd(p, Durations[track])
    <3>1. /\ timerSeq' \in Nat /\ timerAt' \in Nat /\ timerAt' # Clock!NoTimer
          /\ timerAt' >= updatedAt'
          /\ position' + (timerAt' - updatedAt')
               = IF Durations[track] >= p THEN Durations[track] ELSE p
      BY <2>1, <2>2, <2>3, <2>4, Scheduled DEF LineInv
    <3>2. LineType' /\ Hears'
      BY <1>1, <2>1, <2>3, <3>1 DEF LineInv, LineType, Hears
    <3> QED BY <2>1, <3>1, <3>2, <2>4 DEF LineInv, EndComes, Matches
  <2>5. CASE ~playing /\ Clock!StopTimer
    BY <1>1, <2>1, <2>3, <2>5 DEF LineInv, LineType, Matches, Hears, Clock!StopTimer
  <2> QED BY <2>1, <2>4, <2>5
<1>6. CASE Clock!Ignore
  <2>1. UNCHANGED <<track, position, updatedAt, playing, timerSeq, timerAt, listened, seeked>>
    BY <1>6 DEF Clock!Ignore, Clock!timeline, Clock!observed
  <2>2. Head(inbound) # [kind |-> "end", arg |-> timerSeq]
    BY <1>1, <1>6 DEF Clock!Ignore, Clock!Message, Messages
  <2>3. EndComes => EndComes'
    BY <1>0, <2>1, <2>2, EndStaysQueued DEF LineInv
  <2> QED BY <1>1, <2>1, <2>3 DEF LineInv, LineType, Matches, Hears
<1> QED BY <1>2, <1>3, <1>4, <1>5, <1>6 DEF Clock!Handle

-----------------------------------------------------------------------------
(* The theorems *)

LEMMA InitLine == Init => LineInv
<1> SUFFICES ASSUME Init PROVE LineInv
  OBVIOUS
<1>1. /\ now = 0 /\ track = 1 /\ position = -Lead /\ updatedAt = 0 /\ playing = TRUE
      /\ timerSeq = 1 /\ timerAt = Lead + Durations[1] /\ running = {} /\ inbound = <<>>
      /\ listened = 0 /\ seeked = FALSE
  BY DEF Init, Clock!Init
<1>2. Durations[1] \in Nat /\ Lead \in Nat
  BY FirstTrack, TrackDuration, AgentAssumption
<1>3. LineType
  <2>1. /\ now \in Nat /\ track \in 1..Clock!Idle /\ updatedAt \in 0..now
        /\ timerSeq \in Nat /\ listened \in Nat
    BY <1>1, FirstTrack, SMT
  <2>4. playing \in BOOLEAN /\ seeked \in BOOLEAN
    BY <1>1, Zenon
  <2>2. position \in Int /\ timerAt \in Nat
    BY <1>1, <1>2
  <2>3. running \subseteq Nat /\ inbound \in Seq(Messages)
    BY <1>1, EmptySeq
  <2> QED BY <2>1, <2>2, <2>3, <2>4 DEF LineType
<1>4. timerAt # Clock!NoTimer
  BY <1>1, <1>2 DEF Clock!NoTimer
<1>5. Matches /\ Hears
  BY <1>1, <1>2 DEF Matches, Hears
<1> QED BY <1>1, <1>3, <1>4, <1>5, FirstTrack DEF LineInv, EndComes

\* The agent only watches the time line.
LEMMA OnlyServerMoves ==
  ASSUME [Next]_vars
  PROVE  Clock!Next \/ UNCHANGED clockVars
<1>1. CASE ServerStep
  BY <1>1 DEF ServerStep
<1>2. CASE Next /\ ~ServerStep
  BY <1>2 DEF Next, TakeBroadcast, TakeLeft, DebounceFires, DebounceSends, TakeApply, StartFires,
              StartSignals, TakeStart, TakeTick, Enter, Unassign, ActorLeaves, Disconnect, Loop
<1>3. CASE UNCHANGED vars
  BY <1>3 DEF vars
<1> QED BY <1>1, <1>2, <1>3

LEMMA StepLine ==
  ASSUME LineInv, [Next]_vars
  PROVE  LineInv'
<1>1. CASE Clock!Next
  BY <1>1, RequestLine, TimerFireLine, TimerSendLine, TickLine, HandleLine DEF Clock!Next
<1>2. CASE UNCHANGED clockVars
  BY <1>2 DEF clockVars, LineInv, LineType, EndComes, Matches, Hears
<1> QED BY <1>1, <1>2, OnlyServerMoves

THEOREM LineInvHolds == Spec => []LineInv
BY InitLine, StepLine, PTL DEF Spec

\* After any commands and timers, in any order: the armed timer expires exactly
\* when observers of the tuple see the end of the track, and a playing track has
\* its end coming (scheduleEnd, timerSeq, the inbound channel).
THEOREM TimerIsRight == Spec => []TimerMatchesTimeline
<1>1. LineInv => TimerMatchesTimeline
  <2> SUFFICES ASSUME LineInv PROVE TimerMatchesTimeline
    OBVIOUS
  <2>1. Clock!PlayingEnds
    <3>1. DOMAIN inbound = 1..Len(inbound)
      BY LenProperties DEF LineInv, LineType
    <3> QED BY <3>1 DEF LineInv, EndComes, Clock!PlayingEnds
  <2>2. Clock!TimerMatchesTimeline
    <3> SUFFICES ASSUME timerAt # Clock!NoTimer
                 PROVE  /\ playing /\ track # Clock!Idle /\ timerAt >= updatedAt
                        /\ position + (timerAt - updatedAt) = Clock!Max({Durations[track], position})
      BY DEF Clock!TimerMatchesTimeline, Clock!Position, Clock!Duration
    <3>1. playing /\ track # Clock!Idle
      BY DEF LineInv, Matches
    <3>2. Durations[track] \in Int /\ position \in Int
      BY <3>1, TrackDuration DEF LineInv, LineType
    <3> QED BY <3>1, <3>2, MaxOfTwo DEF LineInv, Matches
  <2> QED BY <2>1, <2>2 DEF TimerMatchesTimeline
<1> QED BY <1>1, LineInvHolds, PTL

\* A play is reported to the account of its owner only when the track was
\* audible long enough, over any number of pauses, if it was not sought
\* (finishCurrent): the silence before its start does not count.
THEOREM ReportedPlaysWereHeard == Spec => ScrobbleHeard
<1>1. LineInv /\ [Next]_vars =>
        [\A t \in scrobbled' \ scrobbled :
           ~seeked => listened >= Min({ScrobbleCap, Durations[t] \div 2})]_vars
  <2> SUFFICES ASSUME LineInv, Next, NEW t \in scrobbled' \ scrobbled, ~seeked
               PROVE  listened >= Min({ScrobbleCap, Durations[t] \div 2})
    OBVIOUS
  <2>1. Clock!Scrobble
    <3>1. Clock!Next
      BY OnlyServerMoves DEF clockVars
    <3>2. CASE Clock!Skip \/ Clock!TimerEnd
      BY <3>2 DEF Clock!Skip, Clock!TimerEnd, Clock!Advance
    <3>3. CASE ~(Clock!Skip \/ Clock!TimerEnd)
      <4>1. scrobbled' = scrobbled
        BY <3>1, <3>3 DEF Clock!Next, Clock!Handle, Clock!Request, Clock!TimerFire,
             Clock!TimerSend, Clock!Tick, Clock!Pause, Clock!Resume, Clock!Seek, Clock!Ignore,
             Clock!observed
      <4> QED BY <4>1
    <3> QED BY <3>2, <3>3
  <2> DEFINE at == IF playing THEN position + (now - updatedAt) ELSE position
  <2>2. /\ track # Clock!Idle /\ t = track
        /\ Clock!Max({0, at}) >= Clock!Min({ScrobbleCap, Durations[track] \div 2})
    BY <2>1 DEF Clock!Scrobble, Clock!Position, Clock!Duration
  <2>3. at \in Int /\ listened = IF at >= 0 THEN at ELSE 0
    BY <2>2 DEF LineInv, LineType, Hears
  <2> HIDE DEF at
  <2>4. listened = Clock!Max({0, at})
    BY <2>3, MaxOfTwo
  <2>5. Clock!Min({ScrobbleCap, Durations[track] \div 2}) = Min({ScrobbleCap, Durations[track] \div 2})
    BY DEF Clock!Min, Min
  <2> QED BY <2>2, <2>4, <2>5
<1> QED BY <1>1, LineInvHolds, PTL DEF Spec, ScrobbleHeard

-----------------------------------------------------------------------------
(* The agent: its invariant *)

\* A state of the playback as the agent is sent it, and what mpv can be at.
State == [track : 1..Clock!Idle, position : Int, updatedAt : Nat, playing : BOOLEAN]
Player == [file : 0..Len(Durations), paused : BOOLEAN, pos : Int, at : Int]

AgentType ==
  /\ link \in {"off", "room", "leaving", "none"}
  /\ events \in Seq(State \cup {Left}) /\ cur \in State
  /\ debounce \in State \cup {None} /\ expiring \subseteq State /\ applyCh \in State \cup {None}
  /\ loaded \in Nat /\ faults \in Nat
  /\ startAt \in Int \cup {None} /\ loose \subseteq Int /\ startCh \in BOOLEAN
  /\ baseline \in Int \cup {None} /\ awaiting \in BOOLEAN
  /\ mpv \in Player

\* Nothing is between the events and the loop.
Clear == debounce = None /\ expiring = {} /\ applyCh = None

\* The state pb alone is on its way to the loop, or has been applied.
Carried(pb) ==
  \/ debounce = pb /\ expiring = {} /\ applyCh = None
  \/ debounce = None /\ expiring = {pb} /\ applyCh = None
  \/ debounce = None /\ expiring = {} /\ applyCh = pb
  \/ Clear /\ cur = pb

\* The last the agent was sent is the room's state, or that it is outside.
SentTuple == link = "room" \/ (link = "leaving" /\ haunted)
SentLeft == link \in {"leaving", "none"} /\ ~haunted

\* What was sent last is the last of the events, or it was taken last; and what was
\* taken last, with no older state on its way, is carried to the loop.
NewestInv ==
  /\ link = "room" => ~haunted
  /\ link = "off" => events = <<>>
  /\ events # <<>> =>
       /\ SentTuple => events[Len(events)] = Tuple
       /\ SentLeft => events[Len(events)] = Left
  /\ events = <<>> /\ ~overtaken =>
       /\ SentTuple => Carried(Tuple)
       /\ SentLeft => Clear /\ cur = Nothing /\ mpv.file = 0

\* What is loaded is what was applied, as long as mpv does what it is told.
LoadedInv == faults = 0 => loaded = IF Renders(cur) THEN Ref(cur) ELSE 0

\* Unless an older start was loose, the start timer and its signal are those of the
\* state that was applied last.
StartInv ==
  ~stray /\ Renders(cur) /\ cur.playing =>
    /\ startCh \/ loose # {} => ShouldBe(cur) >= 0
    /\ startAt # None => cur.position + (startAt - cur.updatedAt) >= 0
    /\ ShouldBe(cur) < 0 => mpv.paused

\* A calibrated player has begun, and plays where its baseline says.
DriftInv ==
  baseline # None =>
    /\ HeardAt >= 0
    /\ Renders(cur) /\ cur.playing /\ ~mpv.paused /\ loaded = Ref(cur) /\ Audible(mpv) =>
         Abs(HeardAt - Bias - ShouldBe(cur) - baseline) <= Threshold

-----------------------------------------------------------------------------
(* The agent: states, players and the channel of broadcasts *)

LEMMA LengthIsNat == Len(Durations) \in Nat /\ Clock!Idle = Len(Durations) + 1
BY LenProperties, AgentAssumption DEF Clock!Idle

LEMMA StatesAreRecords ==
  /\ None \notin State /\ Left \notin State /\ None \notin Int
  /\ Nothing \in State /\ ~Renders(Nothing)
<1>1. State \subseteq [track : Int, position : Int, updatedAt : Int, playing : BOOLEAN]
  BY LengthIsNat DEF State
<1>2. None \notin State /\ None \notin Int
  BY <1>1, AgentAssumption
<1>3. Nothing \in State
  BY LengthIsNat DEF State, Nothing
<1>4. Left.track = None
  BY DEF Left, Nothing
<1>5. \A pb \in State : pb.track \in Int
  BY LengthIsNat DEF State
<1>6. Nothing.track = Clock!Idle
  BY DEF Nothing
<1>7. ~Renders(Nothing)
  BY <1>6 DEF Renders
<1>8. Left \notin State
  BY <1>2, <1>4, <1>5
<1> QED BY <1>2, <1>3, <1>7, <1>8

LEMMA RefsAreNumbers ==
  ASSUME NEW pb \in State, Renders(pb)
  PROVE  Ref(pb) \in Nat \ {0}
<1>1. pb.track \in 1..Len(Durations)
  BY LengthIsNat DEF State, Renders
<1> QED BY <1>1, AgentAssumption DEF Ref

LEMMA TupleIsState ==
  ASSUME LineInv
  PROVE  Tuple \in State /\ Tuple # Left
<1>1. Tuple \in State
  <2>1. /\ track \in 1..Clock!Idle /\ position \in Int /\ updatedAt \in Nat /\ playing \in BOOLEAN
    BY DEF LineInv, LineType
  <2> QED BY <2>1 DEF Tuple, State
<1> QED BY <1>1, StatesAreRecords

LEMMA ShouldBeInt ==
  ASSUME LineInv, NEW pb \in State
  PROVE  ShouldBe(pb) \in Int
BY DEF LineInv, LineType, State, ShouldBe

LEMMA HeardInt ==
  ASSUME LineInv, NEW m \in Player
  PROVE  Heard(m) \in Int
BY DEF LineInv, LineType, Player, Heard

\* A pause keeps the position; so does a player told to go on.
LEMMA PauseKeeps ==
  ASSUME LineInv, NEW m \in Player, NEW p \in BOOLEAN,
         NEW h, h = [m EXCEPT !.paused = p, !.pos = Heard(m), !.at = now]
  PROVE  /\ h \in Player /\ h.file = m.file /\ h.paused = p
         /\ Heard(h) = Heard(m) /\ (Audible(h) <=> Audible(m))
<1>1. Heard(m) \in Int /\ now \in Int
  BY HeardInt DEF LineInv, LineType
<1>2. h \in Player /\ h.file = m.file /\ h.paused = p /\ h.pos = Heard(m) /\ h.at = now
  BY <1>1 DEF Player
<1>3. Heard(h) = Heard(m)
  BY <1>1, <1>2 DEF Heard
<1> QED BY <1>2, <1>3 DEF Audible

LEMMA TakenEvent ==
  ASSUME NEW S, events \in Seq(S), events # <<>>, events' = Tail(events)
  PROVE  /\ events' \in Seq(S) /\ Head(events) \in S
         /\ events' = <<>> => events[Len(events)] = Head(events)
         /\ events' # <<>> => events'[Len(events')] = events[Len(events)]
<1>1. /\ events' \in Seq(S) /\ Len(events') = Len(events) - 1 /\ Len(events) \in Nat
      /\ Head(events) \in S /\ Head(events) = events[1]
      /\ \A i \in 1..Len(events') : events'[i] = events[i + 1]
  BY HeadTailProperties, LenProperties
<1>2. events' = <<>> <=> Len(events') = 0
  BY <1>1, EmptySeq
<1>3. CASE events' = <<>>
  <2>1. Len(events) = 1
    BY <1>1, <1>2, <1>3
  <2> QED BY <1>1, <1>3, <2>1
<1>4. CASE events' # <<>>
  <2>1. Len(events') \in 1..Len(events') /\ Len(events') + 1 = Len(events)
    BY <1>1, <1>2, <1>4
  <2>2. events'[Len(events')] = events[Len(events') + 1]
    BY <1>1, <2>1
  <2> QED BY <1>1, <1>4, <2>1, <2>2
<1> QED BY <1>3, <1>4

LEMMA SentEvent ==
  ASSUME NEW S, NEW x \in S, events \in Seq(S), events' = Append(events, x)
  PROVE  events' \in Seq(S) /\ events' # <<>> /\ events'[Len(events')] = x
BY AppendProperties, LenProperties, EmptySeq

\* The time line goes on while the agent does nothing.
LEMMA TimeGoesOn ==
  ASSUME LineInv, Clock!Next
  PROVE  now' \in Nat /\ now <= now'
<1>1. now' \in {now, now + 1}
  BY DEF Clock!Next, Clock!Request, Clock!TimerFire, Clock!TimerSend, Clock!Tick, Clock!Handle,
     Clock!Pause, Clock!Resume, Clock!Seek, Clock!Skip, Clock!TimerEnd, Clock!Ignore, Clock!Receive
<1> QED BY <1>1 DEF LineInv, LineType

LEMMA TimePassesStart ==
  ASSUME LineInv, AgentType, StartInv, now' \in Nat, now <= now',
         UNCHANGED <<cur, mpv, startAt, loose, startCh, stray>>
  PROVE  StartInv'
<1>1. now \in Nat
  BY DEF LineInv, LineType
<1>2. /\ cur.position \in Int /\ cur.updatedAt \in Nat /\ cur.playing \in BOOLEAN
  BY DEF AgentType, State
<1>3. ShouldBe(cur) = IF cur.playing THEN cur.position + (now - cur.updatedAt) ELSE cur.position
  BY DEF ShouldBe
<1>4. ShouldBe(cur)' = IF cur.playing THEN cur.position + (now' - cur.updatedAt) ELSE cur.position
  BY DEF ShouldBe
<1>5. Renders(cur)' = Renders(cur)
  BY DEF Renders
<1>6. ShouldBe(cur) \in Int /\ ShouldBe(cur)' \in Int /\ ShouldBe(cur) <= ShouldBe(cur)'
  BY <1>1, <1>2, <1>3, <1>4
<1> QED BY <1>5, <1>6 DEF StartInv

\* Two clocks that run stay as far apart as they are.
LEMMA SameDistance ==
  ASSUME NEW h \in Int, NEW a \in Int, NEW p \in Int, NEW u \in Int, NEW t \in Int, NEW s \in Int
  PROVE  (h + (s - a)) - (p + (s - u)) = (h + (t - a)) - (p + (t - u))
BY SMT

LEMMA TimePassesDrift ==
  ASSUME LineInv, AgentType, DriftInv, now' \in Nat, now <= now',
         UNCHANGED <<cur, mpv, baseline, loaded>>
  PROVE  DriftInv'
<1>1. now \in Nat
  BY DEF LineInv, LineType
<1>2. /\ cur.position \in Int /\ cur.updatedAt \in Nat /\ cur.playing \in BOOLEAN
      /\ mpv.pos \in Int /\ mpv.at \in Int /\ mpv.paused \in BOOLEAN /\ mpv.file \in 0..Len(Durations)
  BY DEF AgentType, State, Player
<1>3. ShouldBe(cur) = IF cur.playing THEN cur.position + (now - cur.updatedAt) ELSE cur.position
  BY DEF ShouldBe
<1>4. ShouldBe(cur)' = IF cur.playing THEN cur.position + (now' - cur.updatedAt) ELSE cur.position
  BY DEF ShouldBe
<1>5. HeardAt = IF mpv.paused THEN mpv.pos ELSE mpv.pos + (now - mpv.at)
  BY DEF HeardAt, Heard
<1>6. HeardAt' = IF mpv.paused THEN mpv.pos ELSE mpv.pos + (now' - mpv.at)
  BY DEF HeardAt, Heard
<1> SUFFICES ASSUME baseline # None
             PROVE  /\ HeardAt' >= 0
                    /\ Renders(cur) /\ cur.playing /\ ~mpv.paused /\ loaded = Ref(cur)
                         /\ Audible(mpv)' =>
                         Abs(HeardAt' - Bias - ShouldBe(cur)' - baseline) <= Threshold
  BY DEF DriftInv, Renders, Abs
<1>7. HeardAt >= 0 /\ HeardAt' >= HeardAt /\ HeardAt \in Int /\ HeardAt' \in Int
  BY <1>1, <1>2, <1>5, <1>6 DEF DriftInv
<1>8. ASSUME Renders(cur), cur.playing, ~mpv.paused, loaded = Ref(cur), Audible(mpv)'
      PROVE  Abs(HeardAt' - Bias - ShouldBe(cur)' - baseline) <= Threshold
  <2>1. mpv.file # 0 /\ HeardAt' \in 0..(Durations[mpv.file] - 1)
    BY <1>8 DEF Audible, HeardAt
  <2>2. Durations[mpv.file] \in Nat
    BY <1>2, <2>1, LengthIsNat, ElementOfSeq, AgentAssumption
  <2>3. Audible(mpv)
    BY <1>7, <2>1, <2>2 DEF Audible, HeardAt
  <2>4. Abs(HeardAt - Bias - ShouldBe(cur) - baseline) <= Threshold
    BY <1>8, <2>3 DEF DriftInv
  <2>5. HeardAt' - ShouldBe(cur)' = HeardAt - ShouldBe(cur)
    <3>1. HeardAt = mpv.pos + (now - mpv.at) /\ HeardAt' = mpv.pos + (now' - mpv.at)
      BY <1>5, <1>6, <1>8
    <3>2. /\ ShouldBe(cur) = cur.position + (now - cur.updatedAt)
          /\ ShouldBe(cur)' = cur.position + (now' - cur.updatedAt)
      BY <1>3, <1>4, <1>8
    <3>3. PICK p \in Int, u \in Int, h \in Int, a \in Int :
            p = cur.position /\ u = cur.updatedAt /\ h = mpv.pos /\ a = mpv.at
      BY <1>2
    <3>4. (h + (now' - a)) - (p + (now' - u)) = (h + (now - a)) - (p + (now - u))
      <4>1. PICK t \in Int, s \in Int : t = now /\ s = now'
        BY <1>1
      <4>2. (h + (s - a)) - (p + (s - u)) = (h + (t - a)) - (p + (t - u))
        BY SameDistance
      <4> QED BY <4>1, <4>2
    <3> QED BY <3>1, <3>2, <3>3, <3>4
  <2>6. ShouldBe(cur) \in Int /\ ShouldBe(cur)' \in Int /\ Bias \in Int /\ baseline \in Int
    BY <1>1, <1>2, <1>3, <1>4, AgentAssumption DEF AgentType
  <2>7. HeardAt' - Bias - ShouldBe(cur)' - baseline = HeardAt - Bias - ShouldBe(cur) - baseline
    BY <1>7, <2>5, <2>6
  <2> QED BY <2>4, <2>7
<1> QED BY <1>7, <1>8


-----------------------------------------------------------------------------
(* The agent: what applying a state does *)

LEMMA CorrectKeeps ==
  ASSUME LineInv, NEW m \in Player, NEW pb \in State, NEW base \in Int \cup {None},
         NEW await \in BOOLEAN, Correct(m, pb, base, await)
  PROVE  /\ mpv' \in Player /\ baseline' \in Int \cup {None} /\ awaiting' \in BOOLEAN
         /\ mpv'.file = m.file /\ mpv'.paused = m.paused
         /\ baseline' # None =>
              /\ mpv' = m
              /\ \/ baseline' = base /\ ~(ShouldBe(pb) >= 0 /\ Audible(m))
                 \/ Audible(m) /\ Abs(Heard(m) - Bias - ShouldBe(pb) - baseline') <= Threshold
         /\ base # None /\ (ShouldBe(pb) >= 0 /\ Audible(m) =>
              Abs(Heard(m) - Bias - ShouldBe(pb) - base) <= Threshold) => mpv' = m
<1> DEFINE drift == Heard(m) - Bias - ShouldBe(pb)
           seek == [m EXCEPT !.pos = ShouldBe(pb), !.at = now]
           measured == ShouldBe(pb) >= 0 /\ Audible(m)
<1>1. /\ ShouldBe(pb) \in Int /\ Heard(m) \in Int /\ now \in Int /\ Bias \in Int
      /\ Threshold \in Nat /\ drift \in Int
  BY ShouldBeInt, HeardInt, AgentAssumption DEF LineInv, LineType
<1>2. seek \in Player /\ seek.file = m.file /\ seek.paused = m.paused
  BY <1>1 DEF Player
<1>3. \/ ~measured /\ mpv' = m /\ baseline' = base /\ awaiting' = await
      \/ measured /\ base = None /\ mpv' = m /\ baseline' = drift /\ awaiting' = FALSE
      \/ /\ measured /\ (base # None => Abs(drift - base) > Threshold)
         /\ mpv' = seek /\ baseline' = None /\ awaiting' = TRUE
      \/ /\ measured /\ base # None /\ Abs(drift - base) <= Threshold
         /\ mpv' = m /\ baseline' = base /\ awaiting' = await
  BY DEF Correct, Corrected
<1>4. Abs(drift - drift) <= Threshold
  BY <1>1 DEF Abs
<1>5. None \notin Int
  BY StatesAreRecords
<1>6. measured => Audible(m)
  OBVIOUS
<1>7. base # None => Abs(drift - base) \in Int
  BY <1>1 DEF Abs
<1> HIDE DEF drift, seek
<1>8. /\ mpv' \in Player /\ baseline' \in Int \cup {None} /\ awaiting' \in BOOLEAN
      /\ mpv'.file = m.file /\ mpv'.paused = m.paused
  BY <1>1, <1>2, <1>3
<1>9. baseline' # None =>
        /\ mpv' = m
        /\ \/ baseline' = base /\ ~measured
           \/ Audible(m) /\ Abs(drift - baseline') <= Threshold
  BY <1>3, <1>4, <1>6
<1>10. base # None /\ (measured => Abs(drift - base) <= Threshold) => mpv' = m
  BY <1>1, <1>3, <1>7
<1> QED BY <1>8, <1>9, <1>10 DEF drift

\* A freshly loaded player is held while its track is in the lead-in.
LEMMA LoadedPlayer ==
  ASSUME LineInv, AgentType, NEW pb \in State, Renders(pb), NEW m \in Loads(pb)
  PROVE  /\ m \in Player /\ m.file = pb.track
         /\ ShouldBe(pb) < 0 => m.paused
<1>1. PICK lag \in Lags :
        m = [file |-> pb.track, paused |-> mpv.paused \/ ShouldBe(pb) < 0,
             pos |-> Max({0, ShouldBe(pb)}) - lag, at |-> now]
  BY DEF Loads
<1>2. lag \in Int /\ ShouldBe(pb) \in Int /\ now \in Int
  BY ShouldBeInt, AgentAssumption DEF LineInv, LineType
<1>3. Max({0, ShouldBe(pb)}) - lag \in Int
  BY <1>2, MaxOfTwo
<1>4. pb.track \in 0..Len(Durations)
  BY LengthIsNat DEF State, Renders
<1>5. (mpv.paused \/ ShouldBe(pb) < 0) \in BOOLEAN
  OBVIOUS
<1>6. m \in Player
  BY <1>1, <1>2, <1>3, <1>4, <1>5 DEF Player
<1>7. m.file = pb.track /\ m.paused = (mpv.paused \/ ShouldBe(pb) < 0)
  BY <1>1
<1> QED BY <1>6, <1>7

\* What holds after a state was applied, of the state, the start and the player.
Applied(pb) ==
  /\ cur' = pb /\ loaded' \in Nat /\ faults' \in Nat
  /\ faults' = 0 => faults = 0 /\ loaded' = IF Renders(pb) THEN Ref(pb) ELSE 0
  /\ startAt' \in Int \cup {None} /\ startCh' = FALSE
  /\ loose' = loose /\ stray' = (loose # {})
  /\ baseline' \in Int \cup {None} /\ awaiting' \in BOOLEAN /\ mpv' \in Player
  /\ pb.playing /\ startAt' # None => pb.position + (startAt' - pb.updatedAt) >= 0
  /\ Renders(pb) /\ pb.playing /\ ShouldBe(pb) < 0 => mpv'.paused
  /\ baseline' # None =>
       /\ Heard(mpv') >= 0
       /\ Renders(pb) /\ pb.playing /\ ~mpv'.paused /\ loaded' = Ref(pb) /\ Audible(mpv') =>
            Abs(Heard(mpv') - Bias - ShouldBe(pb) - baseline') <= Threshold

LEMMA AppliedNow ==
  ASSUME LineInv, NEW pb \in State, Renders(pb), ShouldBe(pb) >= 0,
         NEW m \in Player, NEW base \in Int \cup {None}, NEW await \in BOOLEAN,
         base # None => Heard(m) >= 0,
         ApplyNow(pb, m, base, await), cur' = pb, loaded' = Ref(pb), faults' = faults,
         faults \in Nat
  PROVE  Applied(pb)
<1> PICK playing1 \in BOOLEAN : playing1 = ~pb.playing
  BY DEF State
<1> DEFINE h == [m EXCEPT !.paused = playing1, !.pos = Heard(m), !.at = now]
<1>1. /\ h \in Player /\ h.file = m.file
      /\ Heard(h) = Heard(m) /\ (Audible(h) <=> Audible(m))
  BY PauseKeeps
<1>2. Correct(h, pb, base, await) /\ CancelStart
  BY DEF ApplyNow
<1> HIDE DEF h
<1>3. /\ mpv' \in Player /\ baseline' \in Int \cup {None} /\ awaiting' \in BOOLEAN
      /\ baseline' # None =>
           /\ mpv' = h
           /\ \/ baseline' = base /\ ~Audible(h)
              \/ Audible(h) /\ Abs(Heard(h) - Bias - ShouldBe(pb) - baseline') <= Threshold
  BY <1>1, <1>2, CorrectKeeps
<1>4. Audible(h) => Heard(h) >= 0
  <2>1. Audible(h) => Heard(h) \in 0..(Durations[h.file] - 1)
    BY DEF Audible
  <2> QED BY <2>1
<1>5. baseline' # None => Heard(mpv') >= 0
  BY <1>1, <1>3, <1>4
<1>6. baseline' # None /\ Audible(mpv') =>
        Abs(Heard(mpv') - Bias - ShouldBe(pb) - baseline') <= Threshold
  BY <1>3
<1>7. /\ startAt' = None /\ startCh' = FALSE /\ loose' = loose
      /\ stray' = (loose # {})
  BY <1>2 DEF CancelStart
<1>8. loaded' \in Nat
  BY RefsAreNumbers
<1>9. ~(ShouldBe(pb) < 0)
  BY ShouldBeInt
<1> QED BY <1>3, <1>5, <1>6, <1>7, <1>8, <1>9 DEF Applied

LEMMA AppliedLeadIn ==
  ASSUME LineInv, NEW pb \in State, Renders(pb), ShouldBe(pb) < 0,
         NEW m \in Player, m.paused, baseline' # None => Heard(m) >= 0,
         baseline' \in Int \cup {None}, awaiting' \in BOOLEAN,
         ApplyLeadIn(pb, m), cur' = pb, loaded' = Ref(pb), faults' = faults, faults \in Nat
  PROVE  Applied(pb)
<1>1. /\ mpv' = m /\ loose' = loose /\ startCh' = FALSE /\ stray' = (loose # {})
      /\ startAt' = IF pb.playing THEN now - ShouldBe(pb) ELSE None
  BY DEF ApplyLeadIn
<1>2. ShouldBe(pb) \in Int /\ now \in Nat /\ pb.position \in Int /\ pb.updatedAt \in Nat
  BY ShouldBeInt DEF LineInv, LineType, State
<1>3. pb.playing => pb.position + ((now - ShouldBe(pb)) - pb.updatedAt) = 0
  BY <1>2 DEF ShouldBe
<1>4. startAt' \in Int \cup {None}
  BY <1>1, <1>2
<1>5. pb.playing /\ startAt' # None => pb.position + (startAt' - pb.updatedAt) >= 0
  BY <1>1, <1>3
<1>6. loaded' \in Nat
  BY RefsAreNumbers
<1> QED BY <1>1, <1>4, <1>5, <1>6 DEF Applied

LEMMA ApplyKeeps ==
  ASSUME LineInv, AgentType, DriftInv, NEW pb \in State, Apply(pb)
  PROVE  Applied(pb)
<1>1. /\ mpv \in Player /\ baseline \in Int \cup {None} /\ awaiting \in BOOLEAN
      /\ faults \in Nat /\ loaded \in Nat
      /\ baseline # None => Heard(mpv) >= 0
      /\ now \in Int /\ ShouldBe(pb) \in Int /\ cur' = pb
  BY ShouldBeInt DEF AgentType, DriftInv, HeardAt, LineInv, LineType, Apply
<1> DEFINE held == SetPause(TRUE)
<1>2. held \in Player /\ held.paused /\ Heard(held) = Heard(mpv)
  <2>1. held = [mpv EXCEPT !.paused = TRUE, !.pos = Heard(mpv), !.at = now]
    BY DEF SetPause, HeardAt
  <2> HIDE DEF held
  <2> QED BY <1>1, <2>1, PauseKeeps
<1> HIDE DEF held
<1>3. CASE ~Renders(pb) /\ ApplyNothing
  <2>1. /\ startAt' = None /\ startCh' = FALSE /\ loose' = loose /\ stray' = (loose # {})
        /\ loaded' = 0 /\ baseline' = None /\ awaiting' = FALSE /\ faults' = faults
        /\ mpv' = [file |-> 0, paused |-> mpv.paused, pos |-> 0, at |-> now]
    BY <1>3 DEF ApplyNothing, CancelStart, Uncalibrated, Stopped
  <2>2. mpv' \in Player
    BY <1>1, <2>1, LengthIsNat DEF Player
  <2>3. loaded' \in Nat
    BY <2>1
  <2> QED BY <1>1, <1>3, <2>1, <2>2, <2>3 DEF Applied
<1>4. CASE Renders(pb) /\ Ref(pb) # loaded /\ loaded' = Ref(pb) /\ faults' = faults
           /\ \E m \in Loads(pb) :
                \/ ShouldBe(pb) < 0 /\ Uncalibrated /\ ApplyLeadIn(pb, m)
                \/ ShouldBe(pb) >= 0 /\ ApplyNow(pb, m, None, FALSE)
  <2> PICK m \in Loads(pb) : \/ ShouldBe(pb) < 0 /\ Uncalibrated /\ ApplyLeadIn(pb, m)
                             \/ ShouldBe(pb) >= 0 /\ ApplyNow(pb, m, None, FALSE)
    BY <1>4
  <2>1. m \in Player /\ (ShouldBe(pb) < 0 => m.paused)
    BY <1>4, LoadedPlayer
  <2>2. CASE ShouldBe(pb) < 0 /\ Uncalibrated /\ ApplyLeadIn(pb, m)
    <3>1. baseline' = None /\ awaiting' = FALSE
      BY <2>2 DEF Uncalibrated
    <3> QED BY <1>1, <1>4, <2>1, <2>2, <3>1, AppliedLeadIn
  <2>3. CASE ShouldBe(pb) >= 0 /\ ApplyNow(pb, m, None, FALSE)
    BY <1>1, <1>4, <2>1, <2>3, AppliedNow
  <2> QED BY <2>2, <2>3
<1>5. CASE Renders(pb) /\ Ref(pb) = loaded /\ UNCHANGED <<loaded, faults>>
           /\ ShouldBe(pb) < 0 /\ ApplyLeadIn(pb, held) /\ UNCHANGED syncVars
  <2>1. baseline' = baseline /\ awaiting' = awaiting
    BY <1>5 DEF syncVars
  <2> QED BY <1>1, <1>2, <1>5, <2>1, AppliedLeadIn
<1>6. CASE Renders(pb) /\ Ref(pb) = loaded /\ UNCHANGED <<loaded, faults>>
           /\ ShouldBe(pb) >= 0 /\ ApplyNow(pb, mpv, baseline, awaiting)
  BY <1>1, <1>6, AppliedNow
<1>7. CASE Renders(pb) /\ ApplyFails(pb)
  <2>1. /\ faults' = faults + 1 /\ Ref(pb) # loaded /\ UNCHANGED <<loaded, baseline, awaiting>>
        /\ startAt' = None /\ startCh' = FALSE /\ loose' = loose /\ stray' = (loose # {})
        /\ mpv' = IF ShouldBe(pb) < 0 THEN held ELSE mpv
    BY <1>7 DEF ApplyFails, CancelStart, syncVars, held
  <2>2. faults' \in Nat /\ faults' # 0
    BY <1>1, <2>1
  <2>3. mpv' \in Player /\ Heard(mpv') = Heard(mpv) /\ (ShouldBe(pb) < 0 => mpv'.paused)
    BY <1>1, <1>2, <2>1
  <2> QED BY <1>1, <2>1, <2>2, <2>3 DEF Applied
<1> QED BY <1>3, <1>4, <1>5, <1>6, <1>7 DEF Apply, held

\* An applied state is the agent's, and the start, the player and the drift are its own.
LEMMA AppliedHolds ==
  ASSUME LineInv, NEW pb \in State, Applied(pb), now' = now
  PROVE  LoadedInv' /\ DriftInv' /\ StartInv'
<1>1. /\ cur' = pb /\ ShouldBe(cur)' = ShouldBe(pb) /\ (Renders(cur)' <=> Renders(pb))
  BY DEF Applied, ShouldBe, Renders
<1>2. HeardAt' = Heard(mpv') /\ (Audible(mpv)' <=> Audible(mpv'))
  BY DEF HeardAt, Heard, Audible
<1>3. LoadedInv'
  BY <1>1 DEF LoadedInv, Applied
<1>4. StartInv'
  <2>1. ~startCh' /\ (~stray' => loose' = {})
    BY DEF Applied
  <2>2. /\ pb.playing /\ startAt' # None => pb.position + (startAt' - pb.updatedAt) >= 0
        /\ Renders(pb) /\ pb.playing /\ ShouldBe(pb) < 0 => mpv'.paused
    BY DEF Applied
  <2> QED BY <1>1, <2>1, <2>2 DEF StartInv
<1>5. DriftInv'
  <2>1. baseline' # None => HeardAt' >= 0
    BY <1>2 DEF Applied
  <2>2. Abs(HeardAt - Bias - ShouldBe(cur) - baseline)' = Abs(Heard(mpv') - Bias - ShouldBe(pb) - baseline')
    BY <1>1, <1>2 DEF Abs
  <2> QED BY <1>1, <1>2, <2>1, <2>2 DEF DriftInv, Applied
<1> QED BY <1>3, <1>4, <1>5

AgentInv == AgentType /\ LoadedInv /\ DriftInv

\* A state of the playback is taken from where it waits and applied.
LEMMA ApplyStep ==
  ASSUME LineInv, AgentInv, NEW pb \in State, Apply(pb), now' = now, link' = link,
         events' \in Seq(State \cup {Left}), debounce' \in State \cup {None},
         expiring' \subseteq State, applyCh' \in State \cup {None}
  PROVE  AgentInv' /\ StartInv'
<1>1. Applied(pb)
  BY ApplyKeeps DEF AgentInv
<1>2. LoadedInv' /\ DriftInv' /\ StartInv'
  BY <1>1, AppliedHolds
<1>3. AgentType'
  BY <1>1 DEF AgentInv, AgentType, Applied
<1> QED BY <1>2, <1>3 DEF AgentInv

\* Time goes on, broadcasts come and go, while the loop of the agent rests.
LEMMA LoopRests ==
  ASSUME LineInv, AgentInv, StartInv, now' \in Nat, now <= now', UNCHANGED <<loopVars, mpv, faults>>,
         link' \in {"off", "room", "leaving", "none"}, events' \in Seq(State \cup {Left})
  PROVE  AgentInv' /\ StartInv'
<1>1. UNCHANGED <<cur, loaded, lastApply, debounce, expiring, applyCh, startAt, loose, startCh,
                  stray, baseline, awaiting, mpv, faults>>
  BY DEF loopVars, windowVars, startVars, syncVars
<1>2. AgentType'
  BY <1>1 DEF AgentInv, AgentType
<1>3. LoadedInv'
  BY <1>1 DEF AgentInv, LoadedInv, Renders, Ref
<1>4. DriftInv'
  BY <1>1, TimePassesDrift DEF AgentInv
<1>5. StartInv'
  BY <1>1, TimePassesStart DEF AgentInv
<1> QED BY <1>2, <1>3, <1>4, <1>5 DEF AgentInv

-----------------------------------------------------------------------------
(* The agent: its steps *)

\* What a step of the agent's own loop leaves as it is.
LEMMA LoopStill ==
  ASSUME LineInv, Loop
  PROVE  /\ link # "off" /\ link' = link /\ now' = now /\ now' \in Nat /\ now <= now'
         /\ Tuple' = Tuple
BY DEF Loop, clockVars, LineInv, LineType, Tuple

LEMMA ServerStepKeeps ==
  ASSUME LineInv, LineInv', AgentInv, StartInv, ServerStep
  PROVE  AgentInv' /\ StartInv'
<1>1. now' \in Nat /\ now <= now'
  BY TimeGoesOn DEF ServerStep
<1>2. Tuple' \in State
  <2>1. /\ track' \in 1..Clock!Idle /\ position' \in Int /\ updatedAt' \in Nat /\ playing' \in BOOLEAN
    BY DEF LineInv, LineType
  <2> QED BY <2>1 DEF Tuple, State
<1>3. events \in Seq(State \cup {Left}) /\ link \in {"off", "room", "leaving", "none"}
  BY DEF AgentInv, AgentType
<1>4. Append(events, Tuple') \in Seq(State \cup {Left})
  BY <1>2, <1>3, AppendProperties
<1>5. events' = Append(events, Tuple') \/ events' = events
  BY DEF ServerStep
<1>6. events' \in Seq(State \cup {Left})
  BY <1>3, <1>4, <1>5
<1>7. UNCHANGED <<link, loopVars, mpv, faults>>
  BY DEF ServerStep
<1> QED BY <1>1, <1>3, <1>6, <1>7, LoopRests

LEMMA LinkStepKeeps ==
  ASSUME LineInv, AgentInv, StartInv, Enter \/ Unassign \/ ActorLeaves
  PROVE  AgentInv' /\ StartInv'
<1>1. now' \in Nat /\ now <= now'
  BY DEF Enter, Unassign, ActorLeaves, clockVars, LineInv, LineType
<1>2. events \in Seq(State \cup {Left}) /\ Tuple \in State \cup {Left}
  BY TupleIsState DEF AgentInv, AgentType
<1>3. Append(events, Tuple) \in Seq(State \cup {Left}) /\ Append(events, Left) \in Seq(State \cup {Left})
  BY <1>2, AppendProperties
<1>4. events' = Append(events, Tuple) \/ events' = Append(events, Left) \/ events' = events
  BY DEF Enter, Unassign, ActorLeaves
<1>5. UNCHANGED <<loopVars, mpv, faults>> /\ link' \in {"off", "room", "leaving", "none"}
  BY DEF Enter, Unassign, ActorLeaves
<1> QED BY <1>1, <1>2, <1>3, <1>4, <1>5, LoopRests

LEMMA TakeBroadcastKeeps ==
  ASSUME LineInv, AgentInv, StartInv, TakeBroadcast
  PROVE  AgentInv' /\ StartInv'
<1>1. /\ link' = link /\ now' = now /\ now' \in Nat /\ now <= now'
      /\ link \in {"off", "room", "leaving", "none"}
  BY LoopStill DEF TakeBroadcast, AgentInv, AgentType
<1>2. PICK pb \in ToSet(events) \ {Left} :
        /\ Takes(pb)
        /\ \/ /\ debounce' = Merged(pb)
              /\ UNCHANGED <<cur, loaded, lastApply, startVars, syncVars, mpv, faults>>
           \/ debounce' = None /\ Apply(pb)
  BY DEF TakeBroadcast
<1>3. events' \in Seq(State \cup {Left}) /\ pb \in State
  BY <1>2, TakenEvent DEF Takes, AgentInv, AgentType
<1>4. UNCHANGED <<expiring, applyCh>> /\ expiring' \subseteq State /\ applyCh' \in State \cup {None}
  BY DEF TakeBroadcast, AgentInv, AgentType
<1>5. CASE debounce' = Merged(pb)
           /\ UNCHANGED <<cur, loaded, lastApply, startVars, syncVars, mpv, faults>>
  <2>1. debounce' = pb
           /\ UNCHANGED <<cur, loaded, startAt, loose, startCh, stray,
                          baseline, awaiting, mpv, faults>>
    BY <1>5 DEF Merged, startVars, syncVars
  <2>2. AgentType'
    BY <1>1, <1>3, <1>4, <2>1 DEF AgentInv, AgentType
  <2>3. LoadedInv'
    BY <2>1 DEF AgentInv, LoadedInv, Renders, Ref
  <2>4. DriftInv'
    BY <1>1, <2>1, TimePassesDrift DEF AgentInv
  <2>5. StartInv'
    BY <1>1, <2>1, TimePassesStart DEF AgentInv
  <2> QED BY <2>2, <2>3, <2>4, <2>5 DEF AgentInv
<1>6. CASE debounce' = None /\ Apply(pb)
  BY <1>1, <1>3, <1>4, <1>6, ApplyStep
<1> QED BY <1>2, <1>5, <1>6

LEMMA TakeApplyKeeps ==
  ASSUME LineInv, AgentInv, TakeApply
  PROVE  AgentInv' /\ StartInv'
<1>1. link' = link /\ now' = now
  BY LoopStill DEF TakeApply
<1>2. /\ applyCh \in State /\ applyCh' = None /\ Apply(applyCh)
      /\ debounce' = debounce /\ expiring' = expiring /\ events' = events
  BY DEF TakeApply, AgentInv, AgentType
<1>3. /\ events' \in Seq(State \cup {Left}) /\ debounce' \in State \cup {None}
      /\ expiring' \subseteq State /\ applyCh' \in State \cup {None}
  BY <1>2 DEF AgentInv, AgentType
<1> QED BY <1>1, <1>2, <1>3, ApplyStep

\* A player that was stopped, without a state, needs nothing.
LEMMA StoppedKeeps ==
  ASSUME LineInv, AgentInv, cur' = Nothing, loaded' = 0, baseline' = None, awaiting' = FALSE,
         mpv' = Stopped, faults' = faults, startAt' \in Int \cup {None},
         loose' \subseteq Int, startCh' \in BOOLEAN, link' \in {"off", "room", "leaving", "none"},
         events' \in Seq(State \cup {Left}), debounce' \in State \cup {None},
         expiring' \subseteq State, applyCh' \in State \cup {None}
  PROVE  AgentInv' /\ StartInv' /\ mpv'.file = 0
<1>1. mpv' = [file |-> 0, paused |-> mpv.paused, pos |-> 0, at |-> now]
  BY DEF Stopped
<1>2. mpv' \in Player /\ mpv'.file = 0
  <2>1. mpv.paused \in BOOLEAN /\ now \in Int /\ 0 \in 0..Len(Durations)
    BY LengthIsNat DEF AgentInv, AgentType, Player, LineInv, LineType
  <2> QED BY <1>1, <2>1 DEF Player
<1>3. ~Renders(cur') /\ cur' \in State
  BY StatesAreRecords
<1>4. ~Renders(cur)'
  BY <1>3 DEF Renders
<1>5. AgentType'
  <2>1. loaded' \in Nat
    OBVIOUS
  <2>2. awaiting' \in BOOLEAN
    BY Zenon
  <2> QED BY <1>2, <1>3, <2>1, <2>2 DEF AgentInv, AgentType
<1>6. LoadedInv' /\ StartInv'
  BY <1>4 DEF LoadedInv, StartInv
<1>7. DriftInv'
  BY DEF DriftInv
<1> QED BY <1>2, <1>5, <1>6, <1>7 DEF AgentInv

LEMMA TakeLeftKeeps ==
  ASSUME LineInv, AgentInv, TakeLeft
  PROVE  AgentInv' /\ StartInv' /\ mpv'.file = 0
<1>1. link' = link /\ link \in {"off", "room", "leaving", "none"}
  BY LoopStill DEF TakeLeft, AgentInv, AgentType
<1>2. events' \in Seq(State \cup {Left})
  BY TakenEvent DEF TakeLeft, Takes, AgentInv, AgentType
<1>3. /\ debounce' = None /\ cur' = Nothing /\ loaded' = 0 /\ baseline' = None /\ awaiting' = FALSE
      /\ mpv' = Stopped /\ faults' = faults /\ applyCh' = applyCh /\ expiring' = expiring
      /\ startAt' = None /\ startCh' = FALSE /\ loose' = loose
  BY DEF TakeLeft, ApplyNothing, CancelStart, Uncalibrated
<1>4. /\ applyCh' \in State \cup {None} /\ expiring' \subseteq State /\ loose' \subseteq Int
      /\ startCh' \in BOOLEAN
      /\ startAt' \in Int \cup {None} /\ debounce' \in State \cup {None}
  BY <1>3 DEF AgentInv, AgentType
<1> QED BY <1>1, <1>2, <1>3, <1>4, StoppedKeeps

LEMMA DisconnectKeeps ==
  ASSUME LineInv, AgentInv, Disconnect
  PROVE  AgentInv' /\ StartInv'
<1>1. /\ link' = "off" /\ events' = <<>> /\ cur' = Nothing /\ loaded' = 0 /\ debounce' = None
      /\ applyCh' = None /\ expiring' = {} /\ startAt' = None /\ loose' = {} /\ startCh' = FALSE
      /\ baseline' = None /\ awaiting' = FALSE /\ mpv' = Stopped /\ faults' = faults
  BY DEF Disconnect, Uncalibrated
<1>2. events' \in Seq(State \cup {Left})
  BY <1>1, EmptySeq
<1>3. /\ loose' \subseteq Int /\ startCh' \in BOOLEAN /\ startAt' \in Int \cup {None}
      /\ debounce' \in State \cup {None} /\ expiring' \subseteq State /\ applyCh' \in State \cup {None}
      /\ link' \in {"off", "room", "leaving", "none"}
  BY <1>1
<1> QED BY <1>1, <1>2, <1>3, StoppedKeeps

LEMMA WindowKeeps ==
  ASSUME LineInv, AgentInv, StartInv, DebounceFires \/ DebounceSends
  PROVE  AgentInv' /\ StartInv'
<1>1. /\ applyCh' \in State \cup {None} /\ debounce' \in State \cup {None} /\ expiring' \subseteq State
      /\ UNCHANGED <<now, link, events, cur, loaded, startAt, loose, startCh, stray,
                     baseline, awaiting, mpv, faults>>
  <2>1. CASE DebounceFires
    BY <2>1 DEF DebounceFires, clockVars, linkVars, startVars, syncVars, AgentInv, AgentType
  <2>2. CASE DebounceSends
    BY <2>2 DEF DebounceSends, clockVars, linkVars, startVars, syncVars, AgentInv, AgentType
  <2> QED BY <2>1, <2>2
<1>2. now' \in Nat /\ now <= now'
  BY <1>1 DEF LineInv, LineType
<1>3. AgentType' /\ LoadedInv'
  BY <1>1 DEF AgentInv, AgentType, LoadedInv, Renders, Ref
<1>4. DriftInv'
  BY <1>1, <1>2, TimePassesDrift DEF AgentInv
<1>5. StartInv'
  BY <1>1, <1>2, TimePassesStart DEF AgentInv
<1> QED BY <1>3, <1>4, <1>5 DEF AgentInv

\* The timer of a start never expires before the track's position is 0.
LEMMA StartFiresKeeps ==
  ASSUME LineInv, AgentInv, StartInv, StartFires
  PROVE  AgentInv' /\ StartInv'
<1>1. /\ startAt # None /\ now >= startAt /\ startAt' = None /\ loose' = loose \cup {startAt}
      /\ UNCHANGED <<now, link, events, cur, loaded, debounce, expiring, applyCh, startCh, stray,
                     baseline, awaiting, mpv, faults>>
  BY DEF StartFires, clockVars, linkVars, windowVars, syncVars
<1>2. now' \in Nat /\ now <= now' /\ now \in Nat
  BY <1>1 DEF LineInv, LineType
<1>3. AgentType' /\ LoadedInv'
  BY <1>1 DEF AgentInv, AgentType, LoadedInv, Renders, Ref
<1>4. DriftInv'
  BY <1>1, <1>2, TimePassesDrift DEF AgentInv
<1>5. StartInv'
  <2>1. startAt \in Int /\ cur.position \in Int /\ cur.updatedAt \in Nat
    BY <1>1 DEF AgentInv, AgentType, State
  <2>2. ShouldBe(cur)' = ShouldBe(cur) /\ (Renders(cur)' <=> Renders(cur))
    BY <1>1 DEF ShouldBe, Renders
  <2>3. ~stray /\ Renders(cur) /\ cur.playing => ShouldBe(cur) >= 0
    <3> SUFFICES ASSUME ~stray, Renders(cur), cur.playing PROVE ShouldBe(cur) >= 0
      OBVIOUS
    <3>1. cur.position + (startAt - cur.updatedAt) >= 0
      BY <1>1 DEF StartInv
    <3>2. ShouldBe(cur) = cur.position + (now - cur.updatedAt)
      BY DEF ShouldBe
    <3> QED BY <1>1, <1>2, <2>1, <3>1, <3>2
  <2> QED BY <1>1, <2>2, <2>3 DEF StartInv
<1> QED BY <1>3, <1>4, <1>5 DEF AgentInv

LEMMA StartSignalsKeeps ==
  ASSUME LineInv, AgentInv, StartInv, StartSignals
  PROVE  AgentInv' /\ StartInv'
<1>1. /\ loose # {} /\ loose' \subseteq loose /\ startCh' = TRUE
      /\ UNCHANGED <<now, link, events, cur, loaded, debounce, expiring, applyCh, startAt, stray,
                     baseline, awaiting, mpv, faults>>
  BY DEF StartSignals, clockVars, linkVars, windowVars, syncVars
<1>2. now' \in Nat /\ now <= now'
  BY <1>1 DEF LineInv, LineType
<1>3. AgentType' /\ LoadedInv'
  BY <1>1 DEF AgentInv, AgentType, LoadedInv, Renders, Ref
<1>4. DriftInv'
  BY <1>1, <1>2, TimePassesDrift DEF AgentInv
<1>5. StartInv'
  <2>1. ShouldBe(cur)' = ShouldBe(cur) /\ (Renders(cur)' <=> Renders(cur))
    BY <1>1 DEF ShouldBe, Renders
  <2> QED BY <1>1, <2>1 DEF StartInv
<1> QED BY <1>3, <1>4, <1>5 DEF AgentInv

\* The signal of the start lets a held player go, and forgets its baseline.
LEMMA TakeStartKeeps ==
  ASSUME LineInv, AgentInv, StartInv, TakeStart
  PROVE  /\ AgentInv' /\ StartInv' /\ mpv'.file = mpv.file
<1>1. link' = link /\ now' = now /\ now' \in Nat /\ now <= now'
  BY LoopStill DEF TakeStart
<1>2. /\ startCh /\ startCh' = FALSE /\ startAt' = None /\ loose' = loose \cup ({startAt} \ {None})
      /\ UNCHANGED <<events, cur, loaded, debounce, expiring, applyCh, stray, faults>>
  BY DEF TakeStart, windowVars
<1>3. ShouldBe(cur)' = ShouldBe(cur) /\ (Renders(cur)' <=> Renders(cur))
  BY <1>1, <1>2 DEF ShouldBe, Renders
<1>4. LoadedInv'
  BY <1>2, <1>3 DEF AgentInv, LoadedInv, Ref
<1>5. CASE Renders(cur) /\ cur.playing /\ mpv' = SetPause(FALSE) /\ Uncalibrated
  <2>1. mpv' = [mpv EXCEPT !.paused = FALSE, !.pos = Heard(mpv), !.at = now]
    BY <1>5 DEF SetPause, HeardAt
  <2>2. mpv' \in Player /\ mpv'.file = mpv.file
    BY <2>1, PauseKeeps DEF AgentInv, AgentType
  <2>3. baseline' = None /\ awaiting' = FALSE
    BY <1>5 DEF Uncalibrated
  <2>4. awaiting' \in BOOLEAN /\ startCh' \in BOOLEAN
    BY <1>2, <2>3, Zenon
  <2>5. AgentType'
    BY <1>1, <1>2, <2>2, <2>3, <2>4 DEF AgentInv, AgentType
  <2>6. DriftInv'
    BY <2>3 DEF DriftInv
  <2>7. StartInv'
    <3>1. ~stray => ShouldBe(cur) >= 0
      BY <1>2, <1>5 DEF StartInv
    <3>2. ShouldBe(cur) \in Int
      BY ShouldBeInt DEF AgentInv, AgentType
    <3>3. ~stray => ~(ShouldBe(cur)' < 0) /\ ShouldBe(cur)' >= 0
      BY <1>3, <3>1, <3>2
    <3> QED BY <1>2, <3>3 DEF StartInv
  <2> QED BY <1>4, <2>2, <2>5, <2>6, <2>7 DEF AgentInv
<1>6. CASE UNCHANGED <<mpv, syncVars>>
  <2>1. UNCHANGED <<mpv, baseline, awaiting>>
    BY <1>6 DEF syncVars
  <2>2. startCh' \in BOOLEAN
    BY <1>2, Zenon
  <2>3. AgentType'
    BY <1>1, <1>2, <2>1, <2>2 DEF AgentInv, AgentType
  <2>4. DriftInv'
    BY <1>1, <1>2, <2>1, TimePassesDrift DEF AgentInv
  <2>5. StartInv'
    BY <1>2, <1>3, <2>1 DEF StartInv
  <2> QED BY <1>4, <2>1, <2>3, <2>4, <2>5 DEF AgentInv
<1> QED BY <1>5, <1>6 DEF TakeStart

LEMMA TakeTickKeeps ==
  ASSUME LineInv, AgentInv, StartInv, TakeTick
  PROVE  /\ AgentInv' /\ StartInv' /\ mpv'.file = mpv.file
         /\ baseline # None /\ ~mpv.paused /\ loaded = Ref(cur) => mpv' = mpv
<1>1. link' = link /\ now' = now
  BY LoopStill DEF TakeTick
<1>2. /\ Renders(cur) /\ cur.playing /\ ShouldBe(cur) >= 0
      /\ Correct(mpv, cur, baseline, awaiting)
      /\ UNCHANGED <<events, cur, loaded, debounce, expiring, applyCh, startAt, loose, startCh, stray, faults>>
  BY DEF TakeTick, startVars, windowVars
<1>3. /\ mpv \in Player /\ cur \in State /\ baseline \in Int \cup {None} /\ awaiting \in BOOLEAN
  BY DEF AgentInv, AgentType
<1>4. /\ mpv' \in Player /\ baseline' \in Int \cup {None} /\ awaiting' \in BOOLEAN
      /\ mpv'.file = mpv.file /\ mpv'.paused = mpv.paused
      /\ baseline' # None =>
           /\ mpv' = mpv
           /\ \/ baseline' = baseline /\ ~(ShouldBe(cur) >= 0 /\ Audible(mpv))
              \/ Audible(mpv) /\ Abs(Heard(mpv) - Bias - ShouldBe(cur) - baseline') <= Threshold
      /\ baseline # None /\ (ShouldBe(cur) >= 0 /\ Audible(mpv) =>
           Abs(Heard(mpv) - Bias - ShouldBe(cur) - baseline) <= Threshold) => mpv' = mpv
  BY <1>2, <1>3, CorrectKeeps
<1>5. ShouldBe(cur)' = ShouldBe(cur) /\ (Renders(cur)' <=> Renders(cur))
  BY <1>1, <1>2 DEF ShouldBe, Renders
<1>6. baseline # None /\ ~mpv.paused /\ loaded = Ref(cur) => mpv' = mpv
  <2> SUFFICES ASSUME baseline # None, ~mpv.paused, loaded = Ref(cur) PROVE mpv' = mpv
    OBVIOUS
  <2>1. Audible(mpv) => Abs(Heard(mpv) - Bias - ShouldBe(cur) - baseline) <= Threshold
    BY <1>2 DEF AgentInv, DriftInv, HeardAt
  <2> QED BY <1>4, <2>1
<1>7. AgentType'
  BY <1>1, <1>2, <1>4 DEF AgentInv, AgentType
<1>8. LoadedInv'
  BY <1>2, <1>5 DEF AgentInv, LoadedInv, Ref
<1>9. StartInv'
  BY <1>2, <1>4, <1>5 DEF StartInv
<1>10. DriftInv'
  <2> SUFFICES ASSUME baseline' # None
               PROVE  DriftInv'
    BY DEF DriftInv
  <2>1. mpv' = mpv
    BY <1>4
  <2>2. HeardAt' = Heard(mpv) /\ (Audible(mpv)' <=> Audible(mpv))
    BY <1>1, <2>1 DEF HeardAt, Heard, Audible
  <2>3. Abs(HeardAt - Bias - ShouldBe(cur) - baseline)' = Abs(Heard(mpv) - Bias - ShouldBe(cur) - baseline')
    BY <1>5, <2>2 DEF Abs
  <2>4. Audible(mpv) => Heard(mpv) >= 0
    <3>1. Audible(mpv) => Heard(mpv) \in 0..(Durations[mpv.file] - 1)
      BY DEF Audible
    <3> QED BY <3>1
  <2>5. Heard(mpv) >= 0
    BY <1>4, <2>4 DEF AgentInv, DriftInv, HeardAt
  <2>6. Audible(mpv) => Abs(Heard(mpv) - Bias - ShouldBe(cur) - baseline') <= Threshold
    BY <1>2, <1>4
  <2> QED BY <2>1, <2>2, <2>3, <2>5, <2>6 DEF DriftInv
<1> QED BY <1>4, <1>6, <1>7, <1>8, <1>9, <1>10 DEF AgentInv

LEMMA StepKeeps ==
  ASSUME LineInv, LineInv', AgentInv, StartInv, Next
  PROVE  AgentInv' /\ StartInv'
<1>1. CASE ServerStep
  BY <1>1, ServerStepKeeps
<1>2. CASE TakeBroadcast
  BY <1>2, TakeBroadcastKeeps
<1>3. CASE TakeLeft
  BY <1>3, TakeLeftKeeps
<1>4. CASE DebounceFires \/ DebounceSends
  BY <1>4, WindowKeeps
<1>5. CASE TakeApply
  BY <1>5, TakeApplyKeeps
<1>6. CASE StartFires
  BY <1>6, StartFiresKeeps
<1>7. CASE StartSignals
  BY <1>7, StartSignalsKeeps
<1>8. CASE TakeStart
  BY <1>8, TakeStartKeeps
<1>9. CASE TakeTick
  BY <1>9, TakeTickKeeps
<1>10. CASE Enter \/ Unassign \/ ActorLeaves
  BY <1>10, LinkStepKeeps
<1>11. CASE Disconnect
  BY <1>11, DisconnectKeeps
<1> QED BY <1>1, <1>2, <1>3, <1>4, <1>5, <1>6, <1>7, <1>8, <1>9, <1>10, <1>11 DEF Next

\* A step that changes nothing.
LEMMA StutterKeeps ==
  ASSUME LineInv, AgentInv, StartInv, UNCHANGED vars
  PROVE  AgentInv' /\ StartInv'
<1>1. UNCHANGED <<now, loopVars, mpv, faults, link, events>>
  BY DEF vars, clockVars, linkVars
<1>2. now' \in Nat /\ now <= now' /\ events \in Seq(State \cup {Left})
      /\ link \in {"off", "room", "leaving", "none"}
  BY <1>1 DEF LineInv, LineType, AgentInv, AgentType
<1> QED BY <1>1, <1>2, LoopRests

LEMMA InitAgent ==
  ASSUME Init
  PROVE  AgentInv /\ StartInv
<1>1. LineInv
  BY InitLine
<1>2. /\ cur = Nothing /\ loaded = 0 /\ debounce = None /\ expiring = {} /\ applyCh = None
      /\ startAt = None /\ loose = {} /\ startCh = FALSE
      /\ baseline = None /\ awaiting = FALSE /\ faults = 0
      /\ mpv = [file |-> 0, paused |-> FALSE, pos |-> 0, at |-> 0]
  BY DEF Init
<1>3. cur \in State /\ ~Renders(cur)
  BY <1>2, StatesAreRecords
<1>4. events \in Seq(State \cup {Left}) /\ link \in {"off", "room", "leaving", "none"}
  <2>1. Tuple \in State \cup {Left}
    BY <1>1, TupleIsState
  <2>2. <<Tuple>> \in Seq(State \cup {Left}) /\ <<>> \in Seq(State \cup {Left})
    BY <2>1
  <2> QED BY <2>2 DEF Init
<1>5. mpv \in Player
  <2>1. 0 \in 0..Len(Durations)
    BY LengthIsNat
  <2> QED BY <1>2, <2>1 DEF Player
<1>6. startCh \in BOOLEAN /\ awaiting \in BOOLEAN
  BY <1>2, Zenon
<1>7. loaded \in Nat /\ faults \in Nat
  BY <1>2
<1>8. AgentType
  BY <1>2, <1>3, <1>4, <1>5, <1>6, <1>7 DEF AgentType
<1>9. LoadedInv /\ StartInv /\ DriftInv
  BY <1>2, <1>3 DEF LoadedInv, StartInv, DriftInv
<1> QED BY <1>8, <1>9 DEF AgentInv

\* Types of the agent, what it has loaded, where a calibrated player plays, and the
\* player that waits for its start.
AgentSafe == AgentInv /\ StartInv

THEOREM AgentSafeHolds == Spec => []AgentSafe
<1>1. Init => AgentSafe
  BY InitAgent DEF AgentSafe
<1>2. LineInv /\ LineInv' /\ AgentSafe /\ [Next]_vars => AgentSafe'
  <2> SUFFICES ASSUME LineInv, LineInv', AgentSafe, [Next]_vars PROVE AgentSafe'
    OBVIOUS
  <2>1. AgentInv /\ StartInv
    BY DEF AgentSafe
  <2>2. CASE Next
    BY <2>1, <2>2, StepKeeps DEF AgentSafe
  <2>3. CASE UNCHANGED vars
    BY <2>1, <2>3, StutterKeeps DEF AgentSafe
  <2> QED BY <2>2, <2>3
<1> QED BY <1>1, <1>2, LineInvHolds, PTL DEF Spec

-----------------------------------------------------------------------------
(* The agent: the newest state *)

LEMMA ServerNewest ==
  ASSUME LineInv', AgentInv, NewestInv, ServerStep
  PROVE  NewestInv'
<1>1. UNCHANGED <<link, cur, debounce, expiring, applyCh, overtaken, mpv>>
  BY DEF ServerStep, loopVars, windowVars
<1>2. Tuple' \in State \cup {Left}
  <2>1. /\ track' \in 1..Clock!Idle /\ position' \in Int /\ updatedAt' \in Nat /\ playing' \in BOOLEAN
    BY DEF LineInv, LineType
  <2> QED BY <2>1 DEF Tuple, State
<1>3. events \in Seq(State \cup {Left})
  BY DEF AgentInv, AgentType
<1>4. haunted' = (haunted \/ (link = "leaving" /\ Broadcast))
  BY DEF ServerStep
<1>5. CASE link \in {"room", "leaving"} /\ Broadcast
  <2>1. events' = Append(events, Tuple')
    BY <1>5 DEF ServerStep
  <2>2. events' # <<>> /\ events'[Len(events')] = Tuple'
    BY <1>2, <1>3, <2>1, AppendProperties, LenProperties, EmptySeq
  <2>3. link' = "room" => ~haunted'
    BY <1>1, <1>4 DEF NewestInv
  <2>4. ~SentLeft'
    BY <1>1, <1>4, <1>5 DEF SentLeft
  <2> QED BY <1>1, <1>5, <2>2, <2>3, <2>4 DEF NewestInv
<1>6. CASE ~(link \in {"room", "leaving"} /\ Broadcast)
  <2>1. events' = events /\ (haunted' <=> haunted)
    <3>1. events' = events
      BY <1>6 DEF ServerStep
    <3> QED BY <1>4, <1>6, <3>1
  <2>2. ASSUME SentTuple PROVE Tuple' = Tuple
    <3>1. ~Broadcast
      BY <1>6, <2>2 DEF SentTuple
    <3>2. <<track, position, updatedAt, playing>>' = <<track, position, updatedAt, playing>>
      BY <3>1 DEF Broadcast
    <3> QED BY <3>2 DEF Tuple
  <2>3. (SentTuple' <=> SentTuple) /\ (SentLeft' <=> SentLeft) /\ (Clear' <=> Clear)
    BY <1>1, <2>1 DEF SentTuple, SentLeft, Clear
  <2>4. SentTuple /\ Carried(Tuple) => Carried(Tuple)'
    BY <1>1, <2>2, <2>3 DEF Carried
  <2> QED BY <1>1, <2>1, <2>2, <2>3, <2>4 DEF NewestInv
<1> QED BY <1>5, <1>6

LEMMA LinkNewest ==
  ASSUME LineInv, AgentInv, NewestInv, Enter \/ Unassign \/ ActorLeaves \/ Disconnect
  PROVE  NewestInv'
<1>1. events \in Seq(State \cup {Left}) /\ Tuple \in State \cup {Left}
  BY TupleIsState DEF AgentInv, AgentType
<1>2. CASE Enter
  <2>1. /\ link' = "room" /\ haunted' = FALSE /\ Tuple' = Tuple /\ events' = Append(events, Tuple)
    BY <1>2 DEF Enter, clockVars, Tuple
  <2>2. events' # <<>> /\ events'[Len(events')] = Tuple
    BY <1>1, <2>1, AppendProperties, LenProperties, EmptySeq
  <2>3. ~SentLeft'
    BY <2>1 DEF SentLeft
  <2> QED BY <2>1, <2>2, <2>3 DEF NewestInv
<1>3. CASE Unassign
  <2>1. /\ link' = "leaving" /\ haunted' = FALSE /\ events' = Append(events, Left)
    BY <1>3 DEF Unassign, NewestInv
  <2>2. events' # <<>> /\ events'[Len(events')] = Left
    BY <1>1, <2>1, AppendProperties, LenProperties, EmptySeq
  <2>3. ~SentTuple'
    BY <2>1 DEF SentTuple
  <2> QED BY <2>1, <2>2, <2>3 DEF NewestInv
<1>4. CASE ActorLeaves
  <2>1. /\ link = "leaving" /\ link' = "none"
        /\ UNCHANGED <<events, haunted, cur, debounce, expiring, applyCh, overtaken, mpv>>
    BY <1>4 DEF ActorLeaves, loopVars, windowVars
  <2>2. ~SentTuple' /\ (SentLeft' => SentLeft) /\ (Clear' <=> Clear)
    BY <2>1 DEF SentTuple, SentLeft, Clear
  <2> QED BY <2>1, <2>2 DEF NewestInv
<1>5. CASE Disconnect
  <2>1. link' = "off" /\ events' = <<>>
    BY <1>5 DEF Disconnect
  <2>2. ~SentTuple' /\ ~SentLeft'
    BY <2>1 DEF SentTuple, SentLeft
  <2> QED BY <2>1, <2>2 DEF NewestInv
<1> QED BY <1>2, <1>3, <1>4, <1>5

\* Steps of the agent that take nothing which was sent to it.
LEMMA QuietNewest ==
  ASSUME NewestInv, Tuple' = Tuple, mpv'.file = mpv.file,
         UNCHANGED <<link, haunted, events, cur, debounce, expiring, applyCh, overtaken>>
  PROVE  NewestInv'
BY DEF NewestInv, SentTuple, SentLeft, Carried, Clear

\* The event pb was taken: unless it was overtaken, it is carried on.
LEMMA TakeBroadcastNewest ==
  ASSUME LineInv, AgentInv, NewestInv, TakeBroadcast
  PROVE  NewestInv'
<1>1. link # "off" /\ link' = link /\ Tuple' = Tuple /\ haunted' = haunted
  BY LoopStill DEF TakeBroadcast, Loop
<1>2. PICK pb \in ToSet(events) \ {Left} :
        /\ Takes(pb)
        /\ debounce' = Merged(pb) \/ (debounce' = None /\ Apply(pb))
  BY DEF TakeBroadcast
<1>3. /\ events # <<>> /\ Head(events) = pb /\ events' = Tail(events)
      /\ overtaken' = (applyCh # None \/ expiring # {})
      /\ UNCHANGED <<expiring, applyCh>> /\ pb # Left
  BY <1>2 DEF Takes, TakeBroadcast
<1>4. /\ events' = <<>> => events[Len(events)] = pb
      /\ events' # <<>> => events'[Len(events')] = events[Len(events)]
  BY <1>3, TakenEvent DEF AgentInv, AgentType
<1>5. (SentTuple' <=> SentTuple) /\ (SentLeft' <=> SentLeft)
  BY <1>1 DEF SentTuple, SentLeft
<1>6. ~overtaken' => Carried(pb)'
  <2>1. debounce' = pb \/ (debounce' = None /\ cur' = pb)
    BY <1>2 DEF Merged, Apply
  <2> QED BY <1>3, <2>1 DEF Carried, Clear
<1>7. events' = <<>> => (SentTuple => pb = Tuple) /\ ~SentLeft
  BY <1>3, <1>4 DEF NewestInv
<1>8. events' = <<>> /\ ~overtaken' /\ SentTuple => Carried(Tuple)'
  BY <1>1, <1>6, <1>7 DEF Carried
<1> QED BY <1>1, <1>3, <1>4, <1>5, <1>7, <1>8 DEF NewestInv

LEMMA TakeLeftNewest ==
  ASSUME LineInv, AgentInv, NewestInv, TakeLeft
  PROVE  NewestInv'
<1>1. link # "off" /\ link' = link /\ Tuple' = Tuple /\ haunted' = haunted
  BY LoopStill DEF TakeLeft, Loop
<1>2. /\ events # <<>> /\ Head(events) = Left /\ events' = Tail(events)
      /\ overtaken' = (applyCh # None \/ expiring # {})
      /\ UNCHANGED <<expiring, applyCh>> /\ debounce' = None /\ cur' = Nothing
  BY DEF Takes, TakeLeft
<1>3. /\ events' = <<>> => events[Len(events)] = Left
      /\ events' # <<>> => events'[Len(events')] = events[Len(events)]
  BY <1>2, TakenEvent DEF AgentInv, AgentType
<1>4. (SentTuple' <=> SentTuple) /\ (SentLeft' <=> SentLeft)
  BY <1>1 DEF SentTuple, SentLeft
<1>5. mpv'.file = 0
  BY TakeLeftKeeps
<1>6. ~overtaken' => Clear'
  BY <1>2 DEF Clear
<1>7. events' = <<>> => ~SentTuple
  BY <1>2, <1>3, TupleIsState DEF NewestInv
<1> QED BY <1>1, <1>2, <1>3, <1>4, <1>5, <1>6, <1>7 DEF NewestInv

\* What waits for the loop goes on by one place, or is applied.
LEMMA CarriedOn ==
  ASSUME NewestInv, UNCHANGED <<link, haunted, events, overtaken>>, Tuple' = Tuple,
         ~Clear, Carried(Tuple) => Carried(Tuple)'
  PROVE  NewestInv'
BY DEF NewestInv, SentTuple, SentLeft

LEMMA TakeApplyNewest ==
  ASSUME LineInv, AgentInv, NewestInv, TakeApply
  PROVE  NewestInv'
<1>1. link' = link /\ Tuple' = Tuple /\ haunted' = haunted
  BY LoopStill DEF TakeApply, Loop
<1>2. /\ applyCh # None /\ applyCh' = None /\ cur' = applyCh
      /\ UNCHANGED <<debounce, expiring, overtaken, events>>
  BY DEF TakeApply, Apply
<1>3. ~Clear /\ (Carried(Tuple) => Carried(Tuple)')
  BY <1>1, <1>2 DEF Carried, Clear
<1> QED BY <1>1, <1>2, <1>3, CarriedOn

LEMMA WindowNewest ==
  ASSUME LineInv, NewestInv, DebounceFires \/ DebounceSends
  PROVE  NewestInv'
<1>1. UNCHANGED <<link, haunted, events, overtaken, cur>> /\ Tuple' = Tuple
  BY DEF DebounceFires, DebounceSends, linkVars, clockVars, Tuple
<1>2. Tuple # None
  BY TupleIsState, StatesAreRecords
<1>3. CASE DebounceFires
  <2>1. /\ debounce # None /\ debounce' = None
        /\ expiring' = expiring \cup {debounce} /\ applyCh' = applyCh
    BY <1>3 DEF DebounceFires
  <2>2. ~Clear /\ (Carried(Tuple) => Carried(Tuple)')
    BY <1>1, <1>2, <2>1 DEF Carried, Clear
  <2> QED BY <1>1, <2>2, CarriedOn
<1>4. CASE DebounceSends
  <2>1. PICK pb \in expiring :
          /\ expiring' = expiring \ {pb} /\ debounce' = debounce
          /\ applyCh' = IF applyCh = None THEN pb ELSE applyCh
    BY <1>4 DEF DebounceSends
  <2>2. ~Clear /\ (Carried(Tuple) => Carried(Tuple)')
    BY <1>1, <1>2, <2>1 DEF Carried, Clear
  <2> QED BY <1>1, <2>2, CarriedOn
<1> QED BY <1>3, <1>4

LEMMA StepNewest ==
  ASSUME LineInv, LineInv', AgentSafe, NewestInv, [Next]_vars
  PROVE  NewestInv'
<1>0. AgentInv /\ StartInv
  BY DEF AgentSafe
<1>1. CASE ServerStep
  BY <1>0, <1>1, ServerNewest
<1>2. CASE TakeBroadcast
  BY <1>0, <1>2, TakeBroadcastNewest
<1>3. CASE TakeLeft
  BY <1>0, <1>3, TakeLeftNewest
<1>4. CASE DebounceFires \/ DebounceSends
  BY <1>4, WindowNewest
<1>5. CASE TakeApply
  BY <1>0, <1>5, TakeApplyNewest
<1>6. CASE StartFires \/ StartSignals
  <2>1. /\ UNCHANGED <<link, haunted, events, cur, debounce, expiring, applyCh, overtaken, mpv>>
        /\ Tuple' = Tuple
    BY <1>6 DEF StartFires, StartSignals, linkVars, windowVars, clockVars, Tuple
  <2> QED BY <2>1, QuietNewest
<1>7. CASE TakeStart
  <2>1. UNCHANGED <<link, haunted, events, cur, debounce, expiring, applyCh, overtaken>> /\ Tuple' = Tuple
    BY <1>7, LoopStill DEF TakeStart, Loop, windowVars
  <2>2. mpv'.file = mpv.file
    BY <1>0, <1>7, TakeStartKeeps
  <2> QED BY <2>1, <2>2, QuietNewest
<1>8. CASE TakeTick
  <2>1. UNCHANGED <<link, haunted, events, cur, debounce, expiring, applyCh, overtaken>> /\ Tuple' = Tuple
    BY <1>8, LoopStill DEF TakeTick, Loop, windowVars
  <2>2. mpv'.file = mpv.file
    BY <1>0, <1>8, TakeTickKeeps
  <2> QED BY <2>1, <2>2, QuietNewest
<1>9. CASE Enter \/ Unassign \/ ActorLeaves \/ Disconnect
  BY <1>0, <1>9, LinkNewest
<1>10. CASE UNCHANGED vars
  <2>1. /\ UNCHANGED <<link, haunted, events, cur, debounce, expiring, applyCh, overtaken, mpv>>
        /\ Tuple' = Tuple
    BY <1>10 DEF vars, linkVars, loopVars, windowVars, clockVars, Tuple
  <2> QED BY <2>1, QuietNewest
<1> QED BY <1>1, <1>2, <1>3, <1>4, <1>5, <1>6, <1>7, <1>8, <1>9, <1>10 DEF Next

-----------------------------------------------------------------------------
(* The agent: theorems *)

\* Once nothing is on its way, the agent renders what the room plays, whatever was
\* debounced, applied late or lost with a connection, and nothing once it was taken
\* out (scheduleApply, apply, the arms of the main loop), in every order that select
\* may choose.  An older state is rendered only when the last event was taken while
\* that state was on its way to the loop, and a room that was left only when the
\* actor has broadcast after room.left.
THEOREM AgentRendersTheNewest == Spec => []NewestRendered
<1>1. Init => NewestInv
  <2> SUFFICES ASSUME Init PROVE NewestInv
    OBVIOUS
  <2>1. haunted = FALSE
    BY DEF Init
  <2>2. CASE link = "room" /\ events = <<Tuple>>
    <3>1. events # <<>> /\ events[Len(events)] = Tuple
      BY <2>2
    <3>2. ~SentLeft
      BY <2>2 DEF SentLeft
    <3> QED BY <2>1, <2>2, <3>1, <3>2 DEF NewestInv
  <2>3. CASE link = "off" /\ events = <<>>
    <3>1. ~SentTuple /\ ~SentLeft
      BY <2>3 DEF SentTuple, SentLeft
    <3> QED BY <2>3, <3>1 DEF NewestInv
  <2> QED BY <2>2, <2>3 DEF Init
<1>2. LineInv /\ LineInv' /\ AgentSafe /\ NewestInv /\ [Next]_vars => NewestInv'
  BY StepNewest
<1>3. LineInv /\ AgentSafe /\ NewestInv => NewestRendered
  <2> SUFFICES ASSUME LineInv, AgentSafe, NewestInv, AtRest, ~overtaken PROVE NewestRendered
    BY DEF NewestRendered
  <2>1. ASSUME SentTuple
        PROVE  cur = Tuple /\ (faults = 0 => loaded = IF Renders(cur) THEN Ref(cur) ELSE 0)
    <3>1. Carried(Tuple)
      BY <2>1 DEF NewestInv, AtRest
    <3>2. Tuple # None
      BY TupleIsState, StatesAreRecords
    <3>3. cur = Tuple
      BY <3>1, <3>2 DEF Carried, AtRest
    <3> QED BY <3>3 DEF AgentSafe, AgentInv, LoadedInv
  <2>2. ASSUME SentLeft PROVE cur = Nothing /\ mpv.file = 0
    BY <2>2 DEF NewestInv, AtRest
  <2> QED BY <2>1, <2>2 DEF NewestRendered, SentTuple, SentLeft
<1> QED BY <1>1, <1>2, <1>3, LineInvHolds, AgentSafeHolds, PTL DEF Spec

\* A track whose position 0 lies ahead is held at mpv until the signal of its start
\* comes, over new states, pauses and reconnects (apply, the start timer and its
\* channel), unless the callback of an older start ran, or could not be stopped any
\* more, when its state was applied.
THEOREM LeadInIsSilent == Spec => []SilentBeforeStart
<1>1. AgentSafe => SilentBeforeStart
  BY DEF AgentSafe, StartInv, SilentBeforeStart
<1> QED BY <1>1, AgentSafeHolds, PTL

\* A player that was aligned once is not sought again by the ticker: what its output
\* adds to every reading is in the baseline (correct, the ticker's arm).
THEOREM AlignedPlayersAreLeftAlone == Spec => SoughtOnce
<1>1. LineInv /\ AgentSafe /\ [Next]_vars =>
        [TakeTick /\ baseline # None /\ ~mpv.paused /\ Renders(cur) /\ loaded = Ref(cur) => UNCHANGED mpv]_vars
  <2> SUFFICES ASSUME LineInv, AgentSafe, TakeTick, baseline # None, ~mpv.paused, loaded = Ref(cur)
               PROVE  mpv' = mpv
    OBVIOUS
  <2>1. AgentInv /\ StartInv
    BY DEF AgentSafe
  <2> QED BY <2>1, TakeTickKeeps
<1> QED BY <1>1, LineInvHolds, AgentSafeHolds, PTL DEF Spec, SoughtOnce
=============================================================================

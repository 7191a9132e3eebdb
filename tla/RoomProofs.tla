----------------------------- MODULE RoomProofs -----------------------------
(***************************************************************************)
(* The room actor, for every set of entries, every policy and every number  *)
(* of commands: types; the queue, which is stored as it is played and shown *)
(* and holds no entry twice; the history; radio commands, the end timer and *)
(* the waiting advance; the bound on the queue; and the end of the track    *)
(* that plays.                                                              *)
(***************************************************************************)
EXTENDS Room, SequenceTheorems, WellFoundedInduction, TLAPS

-----------------------------------------------------------------------------
(* Minima *)

\* A set of naturals has a least element, which Min picks.
LEMMA MinNat ==
  ASSUME NEW T, T \subseteq Nat, T # {}
  PROVE  Min(T) \in T /\ \A y \in T : Min(T) <= y
<1> DEFINE R == {ss \in Nat \X Nat : ss[1] < ss[2]}
<1>1. IsWellFoundedOn(R, Nat)
  BY NatLessThanWellFounded DEF OpToRel
<1> HIDE DEF R
<1>2. PICK x \in T : \A y \in T : ~(<<y, x>> \in R)
  BY <1>1, WFMin
<1>3. \A y \in T : x <= y
  <2> TAKE y \in T
  <2>1. x \in Nat /\ y \in Nat /\ ~(<<y, x>> \in R)
    BY <1>2
  <2>2. ~(y < x)
    BY <2>1 DEF R
  <2> QED BY <2>1, <2>2
<1> QED BY <1>3 DEF Min

LEMMA MinPair ==
  ASSUME NEW a \in Int, NEW b \in Int
  PROVE  Min({a, b}) = IF a <= b THEN a ELSE b
BY DEF Min

LEMMA MaxPair ==
  ASSUME NEW a \in Int, NEW b \in Int
  PROVE  Max({a, b}) = IF a >= b THEN a ELSE b
BY DEF Max

-----------------------------------------------------------------------------
(* What an advance takes off a queue *)

LEMMA TakenBounds ==
  ASSUME NEW q \in Seq(Entries)
  PROVE  /\ Taken(q) \in 0..Len(q)
         /\ Playable(q) # {} => Taken(q) \in Playable(q) /\ Taken(q) \in 1..Len(q)
<1>1. DropCap \in Nat /\ Len(q) \in Nat /\ DOMAIN q = 1..Len(q)
  BY ConstantsAssumption, LenProperties
<1>2. CASE Playable(q) = {}
  BY <1>1, <1>2, MinPair DEF Taken
<1>3. CASE Playable(q) # {}
  <2>1. Playable(q) \subseteq 1..Len(q)
    BY <1>1 DEF Playable
  <2>2. Min(Playable(q)) \in Playable(q)
    BY <1>3, <2>1, <1>1, MinNat
  <2> QED BY <1>1, <1>3, <2>1, <2>2 DEF Taken
<1> QED BY <1>2, <1>3

\* The rest of the queue is its tail after the entries taken.
LEMMA RestOfQueue ==
  ASSUME NEW q \in Seq(Entries)
  PROVE  /\ Rest(q) \in Seq(Entries)
         /\ Len(Rest(q)) = Len(q) - Taken(q)
         /\ \A i \in 1..Len(Rest(q)) :
              i + Taken(q) \in 1..Len(q) /\ Rest(q)[i] = q[i + Taken(q)]
<1>1. Taken(q) \in 0..Len(q) /\ Len(q) \in Nat
  BY TakenBounds, LenProperties
<1>2. PICK n : n = Len(q)
  OBVIOUS
<1>3. PICK t : t = Taken(q)
  OBVIOUS
<1>4. t \in 0..n /\ n \in Nat
  BY <1>1, <1>2, <1>3
<1>5. PICK first : first = t + 1
  OBVIOUS
<1>6. first \in Nat /\ first - 1 = t /\ first <= n + 1
  BY <1>4, <1>5
<1>7. \A i \in first..n : q[i] \in Entries
  <2>1. \A i \in 1..n : q[i] \in Entries
    BY <1>2, ElementOfSeq
  <2> QED BY <1>6, <1>4, <2>1
<1>8. PICK rest : rest = SubSeq(q, first, n)
  OBVIOUS
<1>9. /\ rest \in Seq(Entries)
      /\ Len(rest) = IF first <= n THEN n - first + 1 ELSE 0
      /\ \A i \in 1..(n - first + 1) : rest[i] = q[first + i - 1]
  <2>1. first \in Int /\ n \in Int
    BY <1>4, <1>6
  <2> QED BY <1>7, <1>8, <2>1, SubSeqProperties
<1>10. Len(rest) = n - t /\ n - first + 1 = n - t
  BY <1>4, <1>6, <1>9
<1>11. ASSUME NEW i \in 1..Len(rest) PROVE i + t \in 1..n /\ rest[i] = q[i + t]
  <2>1. i + t = first + i - 1 /\ i + t \in 1..n
    BY <1>4, <1>6, <1>10
  <2>2. rest[i] = q[first + i - 1]
    BY <1>9, <1>10
  <2> QED BY <2>1, <2>2
<1>12. rest = Rest(q)
  BY <1>2, <1>3, <1>5, <1>8 DEF Rest
<1> QED BY <1>2, <1>3, <1>9, <1>10, <1>11, <1>12

\* The next track is the last entry taken, and it is playable.
LEMMA NextOfQueue ==
  ASSUME NEW q \in Seq(Entries)
  PROVE  \/ NextOf(q) = None
         \/ /\ NextOf(q) \in Entries \ Poison
            /\ Taken(q) \in 1..Len(q) /\ NextOf(q) = q[Taken(q)]
<1>1. CASE Playable(q) = {}
  BY <1>1 DEF NextOf
<1>2. CASE Playable(q) # {}
  <2>1. Taken(q) \in Playable(q) /\ Taken(q) \in 1..Len(q)
    BY <1>2, TakenBounds
  <2>2. q[Taken(q)] \in Entries
    BY <2>1, ElementOfSeq
  <2>3. q[Taken(q)] \notin Poison
    BY <2>1 DEF Playable
  <2> QED BY <1>2, <2>1, <2>2, <2>3 DEF NextOf
<1> QED BY <1>1, <1>2

\* What may be current: only playable entries are made so.
Currents == (Entries \ Poison) \cup {None}

\* The stored queue as the actor writes it: the row under the cursor comes first.
Rows ==
  {d \in [cursor : Currents, rows : Seq(Entries)] :
     d.cursor # None => d.rows # <<>> /\ Head(d.rows) = d.cursor}

\* The inductive invariant: types, and what loadQueue relies on.
TypeInv == TypeOK /\ current \in Currents /\ db \in Rows

LEMMA PersistedType ==
  ASSUME NEW cur \in Currents, NEW q \in Seq(Entries)
  PROVE  Persisted(cur, q) \in Rows
<1>1. CASE cur = None
  BY <1>1 DEF Persisted, Rows
<1>2. CASE cur # None
  <2>1. cur \in Entries /\ <<cur>> \in Seq(Entries) /\ Len(<<cur>>) = 1
    BY <1>2 DEF Currents
  <2>2. /\ <<cur>> \o q \in Seq(Entries) /\ Len(<<cur>> \o q) = 1 + Len(q)
        /\ \A i \in 1..(1 + Len(q)) : (<<cur>> \o q)[i] = IF i <= 1 THEN <<cur>>[i] ELSE q[i - 1]
    BY <2>1, ConcatProperties
  <2>3. Len(q) \in Nat
    BY LenProperties
  <2>4. (<<cur>> \o q)[1] = cur /\ <<cur>> \o q # <<>>
    BY <2>2, <2>3
  <2>5. Head(<<cur>> \o q) = cur
    BY <2>2, <2>4
  <2> QED BY <1>2, <2>2, <2>4, <2>5 DEF Persisted, Rows
<1> QED BY <1>1, <1>2

-----------------------------------------------------------------------------
(* The building blocks of the handlers *)

\* The values a handler may hand on.
Handled ==
  [queue : Seq(Entries), db : Rows, live : Entries \cup {None},
   checks : SUBSET Entries, radio : 0..MaxPlays, fetching : 0..MaxPlays]

\* The variables that advancing or settling assigns.
PlayOK ==
  /\ queue \in Seq(Entries) /\ db \in Rows
  /\ current \in Currents /\ playing \in BOOLEAN
  /\ timerFor \in Entries \cup {None} /\ liveEnd \in Entries \cup {None}
  /\ staleEnds \subseteq Entries /\ preflights \subseteq Entries
  /\ radio \in 0..MaxPlays
  /\ history \in [Entries -> Seq(Reasons)]

FetchOK == fetching \in 0..MaxPlays /\ fetchLimit \in 0..BatchSize

PendingOK == pendingStart \in BOOLEAN /\ pendingReason \in Reasons

LEMMA Zero ==
  /\ 0 \in 0..MaxPlays /\ 0 \in 0..BatchSize
  /\ <<>> \in Seq(Entries) /\ None \in Currents
  /\ "" \in Reasons /\ FALSE \in BOOLEAN
  /\ [i \in RadioIds |-> <<>>] \in [RadioIds -> Seq(Answers)]
  /\ [e \in Entries |-> <<>>] \in [Entries -> Seq(Reasons)]
BY ConstantsAssumption DEF Currents, Reasons

LEMMA HereType == ASSUME TypeInv PROVE Here \in Handled
BY DEF TypeInv, TypeOK, Here, Handled, Rows

LEMMA CommitType ==
  ASSUME TypeInv, NEW s \in Handled, NEW q \in Seq(Entries)
  PROVE  Commit(s, q) \in Handled
<1>1. Persisted(current, q) \in Rows
  BY PersistedType DEF TypeInv, TypeOK
<1> QED BY <1>1 DEF Commit, Handled

LEMMA MaxQueueType == ASSUME TypeInv PROVE MaxQueue \in Nat
BY ConstantsAssumption DEF TypeInv, TypeOK, MaxQueue

LEMMA IdleType ==
  ASSUME TypeInv, NEW s \in Handled, Idle(s)
  PROVE  FetchOK'
BY ConstantsAssumption DEF TypeInv, TypeOK, Handled, Idle, FetchOK

LEMMA RefillType ==
  ASSUME TypeInv, NEW s \in Handled, Refill(s)
  PROVE  FetchOK'
<1>1. MaxQueue \in Nat /\ Len(s.queue) \in Nat /\ BatchSize \in Nat
  BY MaxQueueType, LenProperties, ConstantsAssumption DEF Handled
<1>2. CASE s.radio # 0 /\ s.fetching = 0 /\ Len(s.queue) < MaxQueue
  <2>1. Min({BatchSize, MaxQueue - Len(s.queue)}) \in 0..BatchSize
    BY <1>1, <1>2, MinPair
  <2> QED BY <1>2, <2>1 DEF Refill, Handled, FetchOK
<1>3. CASE ~(s.radio # 0 /\ s.fetching = 0 /\ Len(s.queue) < MaxQueue)
  BY <1>3, IdleType DEF Refill
<1> QED BY <1>2, <1>3

LEMMA RefillForStartType ==
  ASSUME TypeInv, NEW s \in Handled, NEW reason \in Reasons, RefillForStart(s, reason)
  PROVE  FetchOK' /\ PendingOK'
BY RefillType DEF RefillForStart, TypeInv, TypeOK, PendingOK

LEMMA SettleType ==
  ASSUME TypeInv, NEW s \in Handled, Settle(s)
  PROVE  PlayOK'
BY DEF TypeInv, TypeOK, Handled, Settle, PlayOK

LEMMA ArmTimerType ==
  ASSUME TypeInv, NEW s \in Handled, NEW e \in Entries, ArmTimer(s, e)
  PROVE  timerFor' \in Entries /\ liveEnd' = None /\ staleEnds' \subseteq Entries
BY DEF TypeInv, TypeOK, Handled, ArmTimer

LEMMA StopTimerType ==
  ASSUME TypeInv, NEW s \in Handled, StopTimer(s)
  PROVE  timerFor' = None /\ liveEnd' \in Entries \cup {None} /\ staleEnds' \subseteq Entries
BY DEF TypeInv, TypeOK, Handled, StopTimer

LEMMA FinishCurrentType ==
  ASSUME TypeInv, NEW reason \in Reasons, FinishCurrent(reason)
  PROVE  history' \in [Entries -> Seq(Reasons)]
<1>1. ASSUME current # None, history' = [history EXCEPT ![current] = Append(@, reason)]
      PROVE  history' \in [Entries -> Seq(Reasons)]
  <2>1. current \in Entries /\ history[current] \in Seq(Reasons)
    BY <1>1 DEF TypeInv, TypeOK
  <2>2. Append(history[current], reason) \in Seq(Reasons)
    BY <2>1, AppendProperties
  <2> QED BY <1>1, <2>1, <2>2 DEF TypeInv, TypeOK
<1> QED BY <1>1 DEF FinishCurrent, TypeInv, TypeOK

LEMMA AdvanceReadyType ==
  ASSUME TypeInv, NEW s \in Handled, NEW reason \in Reasons, AdvanceReady(s, reason)
  PROVE  PlayOK' /\ FetchOK'
<1> DEFINE next == NextOf(s.queue)
           rest == Rest(s.queue)
<1>0. s.queue \in Seq(Entries) /\ s.radio \in 0..MaxPlays /\ s.checks \subseteq Entries
  BY DEF Handled
<1>1. next \in Currents /\ rest \in Seq(Entries)
  BY <1>0, NextOfQueue, RestOfQueue DEF Currents
<1>2. Persisted(next, rest) \in Rows
  BY <1>1, PersistedType
<1>3. [s EXCEPT !.queue = rest] \in Handled
  BY <1>1 DEF Handled
<1> HIDE DEF next, rest
<1>4. ASSUME Advanced(s, reason) PROVE PlayOK' /\ FetchOK'
  <2>1. /\ queue' = rest /\ db' = Persisted(next, rest) /\ radio' = s.radio
        /\ current' = next /\ playing' = (next # None)
        /\ FinishCurrent(reason)
    BY <1>4 DEF Advanced, next, rest
  <2>2. history' \in [Entries -> Seq(Reasons)]
    BY <2>1, FinishCurrentType
  <2>3. CASE next = None
    <3>1. StopTimer(s) /\ Idle(s) /\ preflights' = s.checks
      BY <1>4, <2>3 DEF Advanced, next
    <3>2. FetchOK'
      BY <3>1, IdleType
    <3>3. timerFor' = None /\ liveEnd' \in Entries \cup {None} /\ staleEnds' \subseteq Entries
      BY <3>1, StopTimerType
    <3> QED BY <1>0, <1>1, <1>2, <2>1, <2>2, <3>1, <3>2, <3>3 DEF PlayOK
  <2>4. CASE next # None
    <3>1. /\ ArmTimer(s, next) /\ preflights' = s.checks \cup {next}
          /\ Refill([s EXCEPT !.queue = rest]) \/ Idle(s)
      BY <1>4, <2>4 DEF Advanced, next, rest
    <3>2. FetchOK'
      BY <1>3, <3>1, IdleType, RefillType
    <3>3. timerFor' \in Entries /\ liveEnd' = None /\ staleEnds' \subseteq Entries
      BY <1>1, <2>4, <3>1, ArmTimerType DEF Currents
    <3>4. preflights' \subseteq Entries
      BY <1>0, <1>1, <2>4, <3>1 DEF Currents
    <3> QED BY <1>0, <1>1, <1>2, <2>1, <2>2, <3>2, <3>3, <3>4 DEF PlayOK
  <2> QED BY <2>3, <2>4
<1>5. ASSUME Settle(s), Idle(s) PROVE PlayOK' /\ FetchOK'
  BY <1>5, SettleType, IdleType
<1> QED BY <1>4, <1>5 DEF AdvanceReady

LEMMA AdvanceType ==
  ASSUME TypeInv, NEW s \in Handled, NEW reason \in Reasons, Advance(s, reason)
  PROVE  PlayOK' /\ FetchOK' /\ PendingOK'
<1>1. UNCHANGED <<pendingStart, pendingReason>> => PendingOK'
  BY DEF TypeInv, TypeOK, PendingOK
<1>2. CASE Settle(s) /\ Idle(s) /\ UNCHANGED <<pendingStart, pendingReason>>
  BY <1>1, <1>2, SettleType, IdleType
<1>3. CASE Settle(s) /\ RefillForStart(s, reason)
  BY <1>3, SettleType, RefillForStartType
<1>4. CASE AdvanceReady(s, reason) /\ UNCHANGED <<pendingStart, pendingReason>>
  BY <1>1, <1>4, AdvanceReadyType
<1> QED BY <1>2, <1>3, <1>4 DEF Advance

LEMMA CompletePendingStartType ==
  ASSUME TypeInv, NEW s \in Handled, CompletePendingStart(s)
  PROVE  PlayOK' /\ FetchOK' /\ PendingOK'
<1>1. CASE pendingStart' = FALSE /\ pendingReason' = "" /\ AdvanceReady(s, pendingReason)
  <2>1. pendingReason \in Reasons
    BY DEF TypeInv, TypeOK
  <2> QED BY <1>1, <2>1, AdvanceReadyType, Zenon DEF PendingOK, Reasons
<1>2. CASE Settle(s) /\ Idle(s) /\ UNCHANGED <<pendingStart, pendingReason>>
  BY <1>2, SettleType, IdleType DEF TypeInv, TypeOK, PendingOK
<1> QED BY <1>1, <1>2, Zenon DEF CompletePendingStart

\* The rest of the state.
RestOK ==
  /\ up \in BOOLEAN /\ loaded \in BOOLEAN /\ policy \in Policies
  /\ desired \in 0..MaxPlays /\ sourceSeq \in 0..MaxPlays
  /\ building \in 0..MaxPlays /\ queuedSource \in 0..MaxPlays
  /\ reply \in [RadioIds -> Seq(Answers)]
  /\ added \subseteq Entries

LEMMA TypeParts == TypeInv <=> PlayOK /\ FetchOK /\ PendingOK /\ RestOK
BY DEF TypeInv, TypeOK, PlayOK, FetchOK, PendingOK, RestOK, Rows, Currents

LEMMA TypePartsNext == TypeInv' <=> (PlayOK /\ FetchOK /\ PendingOK /\ RestOK)'
BY DEF TypeInv, TypeOK, PlayOK, FetchOK, PendingOK, RestOK, Rows, Currents

-----------------------------------------------------------------------------
(* The actions *)

\* Entries made by a command or a batch are entries.
LEMMA FreshType ==
  ASSUME NEW u, NEW n \in Nat, NEW es \in Fresh(u, n)
  PROVE  es \in Seq(Entries) /\ Len(es) = n /\ ToSet(es) \subseteq Entries \ added
<1>1. es \in [1..n -> Entries \ added]
  BY DEF Fresh
<1>2. es \in Seq(Entries \ added) /\ Len(es) = n /\ DOMAIN es = 1..n
  BY <1>1
<1> QED BY <1>1, <1>2, SeqMonotonic DEF ToSet

LEMMA RemoveAtType ==
  ASSUME NEW q \in Seq(Entries), NEW i \in 1..Len(q)
  PROVE  /\ RemoveAt(q, i) \in Seq(Entries)
         /\ Len(RemoveAt(q, i)) = Len(q) - 1
         /\ \A k \in 1..(Len(q) - 1) :
              RemoveAt(q, i)[k] = q[IF k < i THEN k ELSE k + 1]
<1>1. Len(q) \in Nat /\ \A k \in 1..Len(q) : q[k] \in Entries
  BY LenProperties, ElementOfSeq
<1> DEFINE a == SubSeq(q, 1, i - 1)
           b == SubSeq(q, i + 1, Len(q))
<1>2. a \in Seq(Entries) /\ Len(a) = i - 1 /\ \A k \in 1..(i - 1) : a[k] = q[k]
  BY <1>1, SubSeqProperties
<1>3. b \in Seq(Entries) /\ Len(b) = Len(q) - i /\ \A k \in 1..(Len(q) - i) : b[k] = q[i + k]
  BY <1>1, SubSeqProperties
<1> HIDE DEF a, b
<1>4. /\ a \o b \in Seq(Entries) /\ Len(a \o b) = Len(q) - 1
      /\ \A k \in 1..(Len(q) - 1) : (a \o b)[k] = IF k <= i - 1 THEN a[k] ELSE b[k - (i - 1)]
  <2>1. /\ a \o b \in Seq(Entries) /\ Len(a \o b) = Len(a) + Len(b)
        /\ \A k \in 1..(Len(a) + Len(b)) : (a \o b)[k] = IF k <= Len(a) THEN a[k] ELSE b[k - Len(a)]
    BY <1>2, <1>3, ConcatProperties
  <2>2. Len(a) = i - 1 /\ Len(a) + Len(b) = Len(q) - 1
    BY <1>1, <1>2, <1>3
  <2> QED BY <2>1, <2>2
<1>5. \A k \in 1..(Len(q) - 1) : (a \o b)[k] = q[IF k < i THEN k ELSE k + 1]
  <2> TAKE k \in 1..(Len(q) - 1)
  <2>1. CASE k < i
    BY <1>1, <1>2, <1>4, <2>1
  <2>2. CASE ~(k < i)
    <3>1. k - (i - 1) \in 1..(Len(q) - i) /\ i + (k - (i - 1)) = k + 1 /\ ~(k <= i - 1)
      BY <1>1, <2>2
    <3>2. (a \o b)[k] = b[k - (i - 1)]
      BY <1>4, <3>1
    <3>3. b[k - (i - 1)] = q[i + (k - (i - 1))]
      BY <1>3, <3>1
    <3> QED BY <2>2, <3>1, <3>2, <3>3
  <2> QED BY <2>1, <2>2
<1> QED BY <1>4, <1>5 DEF RemoveAt, a, b

LEMMA InsertAtType ==
  ASSUME NEW q \in Seq(Entries), NEW j \in 1..(Len(q) + 1), NEW e \in Entries
  PROVE  /\ InsertAt(q, j, e) \in Seq(Entries)
         /\ Len(InsertAt(q, j, e)) = Len(q) + 1
         /\ \A k \in 1..(Len(q) + 1) :
              InsertAt(q, j, e)[k] = IF k = j THEN e ELSE q[IF k < j THEN k ELSE k - 1]
<1>1. Len(q) \in Nat /\ \A k \in 1..Len(q) : q[k] \in Entries
  BY LenProperties, ElementOfSeq
<1> DEFINE a == SubSeq(q, 1, j - 1)
           b == SubSeq(q, j, Len(q))
<1>2. a \in Seq(Entries) /\ Len(a) = j - 1 /\ \A k \in 1..(j - 1) : a[k] = q[k]
  BY <1>1, SubSeqProperties
<1>3. /\ b \in Seq(Entries) /\ Len(b) = Len(q) - j + 1
      /\ \A k \in 1..(Len(q) - j + 1) : b[k] = q[j + k - 1]
  BY <1>1, SubSeqProperties
<1> HIDE DEF a, b
<1>4. <<e>> \in Seq(Entries) /\ Len(<<e>>) = 1 /\ <<e>>[1] = e
  OBVIOUS
<1>5. /\ a \o <<e>> \in Seq(Entries) /\ Len(a \o <<e>>) = j
      /\ \A k \in 1..j : (a \o <<e>>)[k] = IF k <= j - 1 THEN a[k] ELSE <<e>>[k - (j - 1)]
  BY <1>2, <1>4, ConcatProperties
<1>6. /\ (a \o <<e>>) \o b \in Seq(Entries) /\ Len((a \o <<e>>) \o b) = Len(q) + 1
      /\ \A k \in 1..(Len(q) + 1) :
           ((a \o <<e>>) \o b)[k] = IF k <= j THEN (a \o <<e>>)[k] ELSE b[k - j]
  <2> DEFINE c == a \o <<e>>
  <2> HIDE DEF c
  <2>1. c \in Seq(Entries) /\ Len(c) = j
    BY <1>5 DEF c
  <2>2. /\ c \o b \in Seq(Entries) /\ Len(c \o b) = Len(c) + Len(b)
        /\ \A k \in 1..(Len(c) + Len(b)) : (c \o b)[k] = IF k <= Len(c) THEN c[k] ELSE b[k - Len(c)]
    BY <1>3, <2>1, ConcatProperties
  <2>3. Len(c) + Len(b) = Len(q) + 1
    BY <1>1, <1>3, <2>1
  <2>4. /\ c \o b \in Seq(Entries) /\ Len(c \o b) = Len(q) + 1
        /\ \A k \in 1..(Len(q) + 1) : (c \o b)[k] = IF k <= j THEN c[k] ELSE b[k - j]
    BY <2>1, <2>2, <2>3
  <2> QED BY <2>4 DEF c
<1>7. \A k \in 1..(Len(q) + 1) :
        ((a \o <<e>>) \o b)[k] = IF k = j THEN e ELSE q[IF k < j THEN k ELSE k - 1]
  <2> TAKE k \in 1..(Len(q) + 1)
  <2>1. CASE k < j
    BY <1>1, <1>2, <1>5, <1>6, <2>1
  <2>2. CASE k = j
    BY <1>1, <1>4, <1>5, <1>6, <2>2
  <2>3. CASE k > j
    <3>1. k - j \in 1..(Len(q) - j + 1) /\ j + (k - j) - 1 = k - 1 /\ ~(k <= j)
      BY <1>1, <2>3
    <3>2. ((a \o <<e>>) \o b)[k] = b[k - j]
      BY <1>6, <3>1
    <3>3. b[k - j] = q[j + (k - j) - 1]
      BY <1>3, <3>1
    <3>4. k # j /\ ~(k < j)
      BY <1>1, <2>3
    <3> QED BY <3>1, <3>2, <3>3, <3>4
  <2>4. k < j \/ k = j \/ k > j
    BY <1>1
  <2> QED BY <2>1, <2>2, <2>3, <2>4
<1> QED BY <1>6, <1>7 DEF InsertAt, a, b

LEMMA AnswerType ==
  ASSUME TypeInv, NEW i \in 0..MaxPlays, NEW a \in Answers, i # 0
  PROVE  Answer(i, a) \in [RadioIds -> Seq(Answers)]
<1>1. i \in RadioIds /\ reply[i] \in Seq(Answers)
  BY ConstantsAssumption DEF TypeInv, TypeOK, RadioIds
<1>2. Append(reply[i], a) \in Seq(Answers)
  BY <1>1, AppendProperties
<1> QED BY <1>1, <1>2 DEF TypeInv, TypeOK, Answer

LEMMA CancelQueuedType ==
  ASSUME TypeInv
  PROVE  CancelQueued \in [RadioIds -> Seq(Answers)]
<1>1. CASE queuedSource = 0
  BY <1>1 DEF CancelQueued, TypeInv, TypeOK
<1>2. CASE queuedSource # 0
  BY <1>2, AnswerType DEF CancelQueued, TypeInv, TypeOK, Answers
<1> QED BY <1>1, <1>2

LEMMA AcceptedType ==
  ASSUME TypeInv, NEW n \in Nat
  PROVE  Accepted(n) \in Nat
<1> DEFINE space == Max({0, MaxQueue - Len(queue)})
<1>1. space \in Nat
  <2>1. MaxQueue \in Nat /\ Len(queue) \in Nat
    BY MaxQueueType, LenProperties DEF TypeInv, TypeOK
  <2> QED BY <2>1, MaxPair
<1>2. fetchLimit \in Nat
  BY ConstantsAssumption DEF TypeInv, TypeOK
<1> HIDE DEF space
<1>3. Min({n, fetchLimit, space}) \in {n, fetchLimit, space}
  BY <1>1, <1>2, MinNat
<1> QED BY <1>1, <1>2, <1>3 DEF Accepted, space

LEMMA QueueCommandType ==
  ASSUME TypeInv, QueueCommand
  PROVE  TypeInv'
<1> USE TypePartsNext
<1>1. ASSUME NEW u \in Users, NEW n \in 1..MaxAdd, NEW es \in Fresh(u, n), Add(u, es)
      PROVE  TypeInv'
  <2>1. es \in Seq(Entries) /\ ToSet(es) \subseteq Entries
    BY ConstantsAssumption, FreshType
  <2>2. queue \o es \in Seq(Entries)
    BY <2>1, ConcatProperties DEF TypeInv, TypeOK
  <2>3. Commit(Here, queue \o es) \in Handled
    BY <2>2, HereType, CommitType
  <2>4. PlayOK' /\ FetchOK' /\ PendingOK'
    <3>1. CASE Advance(Commit(Here, queue \o es), "")
      BY <2>3, <3>1, AdvanceType, Zenon DEF Reasons
    <3>2. CASE /\ Settle(Commit(Here, queue \o es)) /\ Idle(Commit(Here, queue \o es))
               /\ UNCHANGED <<pendingStart, pendingReason>>
      BY <2>3, <3>2, SettleType, IdleType DEF TypeInv, TypeOK, PendingOK
    <3> QED BY <1>1, <3>1, <3>2, Zenon DEF Add
  <2>5. RestOK'
    BY <1>1, <2>1, Zenon DEF Add, Command, TypeInv, TypeOK, RestOK
  <2> QED BY <2>4, <2>5
<1>2. ASSUME NEW q \in Seq(Entries), Edit(q) PROVE TypeInv'
  <2>1. PlayOK'
    BY <1>2, HereType, CommitType, SettleType DEF Edit
  <2>2. FetchOK' /\ PendingOK' /\ RestOK'
    BY <1>2, Zenon DEF Edit, Command, batchVars, TypeInv, TypeOK, FetchOK, PendingOK, RestOK
  <2> QED BY <2>1, <2>2
<1>3. queue \in Seq(Entries) /\ DOMAIN queue = 1..Len(queue) /\ Len(queue) \in Nat
  BY LenProperties DEF TypeInv, TypeOK
<1>4. ASSUME NEW u \in Users, NEW any \in BOOLEAN, NEW i \in 1..Len(queue), RemoveEntry(u, any, i)
      PROVE  TypeInv'
  <2>1. PICK q : q = RemoveAt(queue, i)
    OBVIOUS
  <2>2. q \in Seq(Entries)
    BY <1>3, <2>1, RemoveAtType, Zenon
  <2>3. Edit(q)
    BY ONLY <1>4, <2>1 DEF RemoveEntry
  <2> QED BY ONLY <1>2, <2>2, <2>3, Zenon
<1>5. ASSUME NEW i \in 1..Len(queue), NEW j \in 1..Len(queue), MoveEntry(i, j)
      PROVE  TypeInv'
  <2>1. PICK r : r = RemoveAt(queue, i)
    OBVIOUS
  <2>2. r \in Seq(Entries) /\ Len(r) = Len(queue) - 1
    BY <1>3, <2>1, RemoveAtType, Zenon
  <2>3. j \in 1..(Len(r) + 1) /\ queue[i] \in Entries
    BY <1>3, <2>2, ElementOfSeq
  <2>4. PICK e \in Entries : e = queue[i]
    BY <2>3
  <2>5. PICK q : q = InsertAt(r, j, e)
    OBVIOUS
  <2>6. InsertAt(r, j, e) \in Seq(Entries)
    BY ONLY <2>2, <2>3, <2>4, InsertAtType
  <2>7. Edit(q)
    BY ONLY <1>5, <2>1, <2>4, <2>5 DEF MoveEntry
  <2> QED BY ONLY <1>2, <2>5, <2>6, <2>7
<1>6. ASSUME Clear PROVE TypeInv'
  BY <1>2, <1>6, EmptySeq DEF Clear
<1>7. ASSUME NEW p \in Policies, SetPolicy(p) PROVE TypeInv'
  BY <1>7 DEF SetPolicy, Command, playVars, radioVars, batchVars, TypeInv, TypeOK
<1> QED BY <1>1, <1>3, <1>4, <1>5, <1>6, <1>7 DEF QueueCommand

LEMMA PlaybackStepType ==
  ASSUME TypeInv, PlaybackStep
  PROVE  TypeInv'
<1> USE TypePartsNext
<1>1. ASSUME Pause \/ Resume \/ Seek PROVE TypeInv'
  <2>1. /\ UNCHANGED <<up, loaded, queue, current, preflights, radioVars, batchVars, storeVars>>
        /\ playing' \in BOOLEAN /\ current \in Entries
        /\ StopTimer(Here) \/ ArmTimer(Here, current)
    BY <1>1 DEF Pause, Resume, Seek, Control, Command, TypeInv, TypeOK
  <2>2. timerFor' \in Entries \cup {None} /\ liveEnd' \in Entries \cup {None} /\ staleEnds' \subseteq Entries
    BY <2>1, HereType, StopTimerType, ArmTimerType
  <2> QED BY <2>1, <2>2 DEF radioVars, batchVars, storeVars, TypeInv, TypeOK
<1>2. ASSUME NEW s \in Handled, NEW reason \in Reasons, Advances, Advance(s, reason)
      PROVE  TypeInv'
  <2>1. PlayOK' /\ FetchOK' /\ PendingOK'
    BY <1>2, AdvanceType
  <2>2. RestOK'
    BY <1>2 DEF Advances, Command, TypeInv, TypeOK, RestOK
  <2> QED BY <2>1, <2>2
<1>3. ASSUME Skip PROVE TypeInv'
  BY <1>2, <1>3, HereType, Zenon DEF Skip, Reasons
<1>4. ASSUME TimerFire PROVE TypeInv'
  BY <1>4 DEF TimerFire, radioVars, batchVars, storeVars, TypeInv, TypeOK
<1>5. ASSUME TimerEnd PROVE TypeInv'
  <2>1. [Here EXCEPT !.live = None] \in Handled
    BY HereType DEF Handled
  <2> QED BY <1>2, <1>5, <2>1, Zenon DEF TimerEnd, Reasons
<1>6. ASSUME NEW e \in Entries, StaleTimerEnd(e) \/ PreflightDone(e) PROVE TypeInv'
  BY <1>6 DEF StaleTimerEnd, PreflightDone, Command, radioVars, batchVars, storeVars, TypeInv, TypeOK
<1>7. ASSUME NEW e \in Entries, Unplayable(e) PROVE TypeInv'
  <2>1. [Here EXCEPT !.checks = preflights \ {e}] \in Handled
    BY HereType DEF Handled, TypeInv, TypeOK
  <2> QED BY <1>2, <1>7, <2>1, Zenon DEF Unplayable, Reasons
<1> QED BY <1>1, <1>3, <1>4, <1>5, <1>6, <1>7 DEF PlaybackStep

LEMMA SourceStepType ==
  ASSUME TypeInv, SourceStep
  PROVE  TypeInv'
<1> USE TypePartsNext
<1>1. ASSUME NEW a \in Answers, SourceDone(a), desired' \in 0..MaxPlays PROVE RestOK'
  <2>1. Answer(building, a) \in [RadioIds -> Seq(Answers)]
    BY <1>1, AnswerType DEF SourceDone, TypeInv, TypeOK
  <2>2. /\ UNCHANGED <<up, loaded, policy, added, sourceSeq>>
        /\ reply' = Answer(building, a) /\ building' = queuedSource /\ queuedSource' = 0
    BY ONLY <1>1 DEF SourceDone, Command, storeVars
  <2>3. /\ up \in BOOLEAN /\ loaded \in BOOLEAN /\ policy \in Policies /\ added \subseteq Entries
        /\ sourceSeq \in 0..MaxPlays /\ queuedSource \in 0..MaxPlays
    BY DEF TypeInv, TypeOK
  <2>4. 0 \in 0..MaxPlays
    BY ConstantsAssumption
  <2> QED BY ONLY <1>1, <2>1, <2>2, <2>3, <2>4 DEF RestOK
<1>2. ASSUME NEW a \in Answers, SourceDone(a), radio' \in 0..MaxPlays PROVE PlayOK'
  BY <1>2 DEF SourceDone, storeVars, TypeInv, TypeOK, PlayOK, Rows
<1>3. UNCHANGED batchVars => FetchOK' /\ PendingOK'
  BY DEF batchVars, TypeInv, TypeOK, FetchOK, PendingOK
<1>4. CASE SourceCanceled
  BY <1>1, <1>2, <1>3, <1>4 DEF SourceCanceled, Answers, TypeInv, TypeOK
<1>5. CASE SourceFailed
  BY <1>1, <1>2, <1>3, <1>5 DEF SourceFailed, Answers, TypeInv, TypeOK
<1>6. CASE SourceReady
  <2> DEFINE s == [Here EXCEPT !.radio = building]
  <2>1. s \in Handled
    BY HereType DEF Handled, TypeInv, TypeOK
  <2>2. PlayOK' /\ RestOK'
    BY <1>1, <1>2, <1>6, Zenon DEF SourceReady, Answers, TypeInv, TypeOK
  <2> HIDE DEF s
  <2>3. CASE RefillForStart(s, "")
    BY <2>1, <2>2, <2>3, RefillForStartType, Zenon DEF Reasons
  <2>4. CASE UNCHANGED <<pendingStart, pendingReason>> /\ (Refill(s) \/ Idle(s))
    BY <2>1, <2>2, <2>4, RefillType, IdleType DEF TypeInv, TypeOK, PendingOK
  <2> QED BY <1>6, <2>3, <2>4, Zenon DEF SourceReady, s
<1> QED BY <1>4, <1>5, <1>6 DEF SourceStep

LEMMA NoRadio ==
  ASSUME NEW s \in Handled
  PROVE  [s EXCEPT !.radio = 0] \in Handled
<1>1. 0 \in 0..MaxPlays
  BY ConstantsAssumption
<1> QED BY ONLY <1>1 DEF Handled

LEMMA BatchStepType ==
  ASSUME TypeInv, BatchStep
  PROVE  TypeInv'
<1> USE TypePartsNext
<1>1. ASSUME BatchDone, added' \subseteq Entries PROVE RestOK'
  BY <1>1 DEF BatchDone, Command, TypeInv, TypeOK, RestOK
<1>2. Received \in Handled
  BY HereType, ConstantsAssumption DEF Handled, Received
<1>3. ASSUME NEW s \in Handled PROVE [s EXCEPT !.radio = 0] \in Handled
  BY NoRadio
<1>4. CASE BatchStale
  <2>1. RestOK'
    BY <1>1, <1>4, Zenon DEF BatchStale, TypeInv, TypeOK
  <2>2. PlayOK'
    BY <1>2, <1>4, SettleType, Zenon DEF BatchStale
  <2>3. FetchOK'
    BY <1>2, <1>4, IdleType, RefillType, Zenon DEF BatchStale
  <2>4. PendingOK'
    BY <1>4, Zenon DEF BatchStale, TypeInv, TypeOK, PendingOK, Reasons
  <2> QED BY <2>1, <2>2, <2>3, <2>4
<1>5. CASE BatchFailed
  <2>1. RestOK'
    BY <1>1, <1>5 DEF BatchFailed, TypeInv, TypeOK
  <2>2. PlayOK' /\ FetchOK' /\ PendingOK'
    BY <1>2, <1>3, <1>5, CompletePendingStartType DEF BatchFailed
  <2> QED BY <2>1, <2>2
<1>6. ASSUME NEW n \in 0..(BatchSize + 1), NEW exhausted \in BOOLEAN,
             NEW es \in Fresh(Radio, Accepted(n)), BatchAdded(n, exhausted, es)
      PROVE  TypeInv'
  <2>1. Accepted(n) \in Nat
    BY AcceptedType
  <2>2. es \in Seq(Entries) /\ ToSet(es) \subseteq Entries
    BY <2>1, FreshType
  <2>3. queue \o es \in Seq(Entries)
    BY <2>2, ConcatProperties DEF TypeInv, TypeOK
  <2> DEFINE s == IF es = <<>> THEN Received ELSE Commit(Received, queue \o es)
  <2>4. s \in Handled
    BY <1>2, <2>3, CommitType
  <2> HIDE DEF s
  <2>5. RestOK'
    BY <1>1, <1>6, <2>2 DEF BatchAdded, TypeInv, TypeOK
  <2>6. PICK t \in Handled : CompletePendingStart(t)
    BY <1>3, <1>6, <2>4 DEF BatchAdded, s
  <2>7. PlayOK' /\ FetchOK' /\ PendingOK'
    BY <2>6, CompletePendingStartType
  <2> QED BY <2>5, <2>7
<1> QED BY <1>4, <1>5, <1>6 DEF BatchStep

LEMMA RadioStepType ==
  ASSUME TypeInv, RadioStep
  PROVE  TypeInv'
<1> USE TypePartsNext
<1>1. CASE RadioPlay
  BY <1>1, CancelQueuedType, ConstantsAssumption
     DEF RadioPlay, Command, playVars, batchVars, storeVars, TypeInv, TypeOK
<1>2. CASE RadioStop
  <2>1. [Here EXCEPT !.radio = 0] \in Handled
    BY HereType, NoRadio
  <2>2. PlayOK' /\ FetchOK' /\ PendingOK'
    BY <1>2, <2>1, CompletePendingStartType DEF RadioStop
  <2>3. /\ UNCHANGED <<up, loaded, policy, added, sourceSeq, building>>
        /\ desired' = 0 /\ queuedSource' = 0 /\ reply' = CancelQueued
    BY <1>2 DEF RadioStop, Command
  <2>4. RestOK'
    BY <2>3, CancelQueuedType, Zero, Zenon DEF TypeInv, TypeOK, RestOK
  <2> QED BY <2>2, <2>4
<1> QED BY <1>1, <1>2, SourceStepType, BatchStepType DEF RadioStep

LEMMA LoadedType ==
  ASSUME TypeInv
  PROVE  LoadedCurrent \in Currents /\ LoadedQueue \in Seq(Entries)
BY HeadTailProperties DEF TypeInv, Rows, LoadedCurrent, LoadedQueue

LEMMA LifetimeType ==
  ASSUME TypeInv, Lifetime
  PROVE  TypeInv'
<1> USE TypePartsNext
<1>1. CASE Crash
  <2>1. NextOf(queue) \in Currents /\ Rest(queue) \in Seq(Entries)
    BY NextOfQueue, RestOfQueue DEF TypeInv, TypeOK, Currents
  <2>2. db' \in Rows
    BY <1>1, <2>1, PersistedType DEF Crash, TypeInv
  <2>3. PlayOK'
    BY <1>1, <2>2, Zero, Zenon DEF Crash, Memory, TypeInv, TypeOK, PlayOK
  <2>4. FetchOK' /\ PendingOK'
    BY <1>1, Zero, Zenon DEF Crash, Memory, FetchOK, PendingOK
  <2>5. RestOK'
    BY <1>1, Zero, Zenon DEF Crash, Memory, TypeInv, TypeOK, RestOK
  <2> QED BY <2>3, <2>4, <2>5
<1>2. CASE Restart
  <2> DEFINE s == [Here EXCEPT !.queue = LoadedQueue]
  <2>1. s \in Handled /\ Here \in Handled
    BY LoadedType, HereType DEF Handled
  <2>2. RestOK'
    BY <1>2 DEF Restart, TypeInv, TypeOK, RestOK
  <2>3. UNCHANGED batchVars => FetchOK' /\ PendingOK'
    BY DEF batchVars, TypeInv, TypeOK, FetchOK, PendingOK
  <2>4. CASE /\ LoadedCurrent # None /\ LoadedCurrent \notin Poison
             /\ queue' = LoadedQueue /\ current' = LoadedCurrent /\ playing' = TRUE
             /\ ArmTimer(Here, LoadedCurrent)
             /\ preflights' = {LoadedCurrent}
             /\ UNCHANGED <<db, history, radio, batchVars>>
    <3>1. LoadedCurrent \in Entries
      BY <2>4, LoadedType DEF Currents
    <3>2. timerFor' \in Entries /\ liveEnd' = None /\ staleEnds' \subseteq Entries
      BY <2>1, <2>4, <3>1, ArmTimerType
    <3>3. PlayOK'
      BY <2>4, <3>1, <3>2, LoadedType DEF TypeInv, TypeOK, PlayOK
    <3> QED BY <2>2, <2>3, <2>4, <3>3
  <2> HIDE DEF s
  <2>5. CASE Advance(s, "resume-after-restart")
    BY <2>1, <2>2, <2>5, AdvanceType, Zenon DEF Reasons
  <2>6. CASE Settle(s) /\ UNCHANGED batchVars
    BY <2>1, <2>2, <2>3, <2>6, SettleType
  <2> QED BY <1>2, <2>4, <2>5, <2>6 DEF Restart, s
<1>3. CASE RestartUnread
  BY <1>3 DEF RestartUnread, playVars, radioVars, batchVars, storeVars, TypeInv, TypeOK
<1> QED BY <1>1, <1>2, <1>3 DEF Lifetime

LEMMA InitType == Init => TypeInv
<1> SUFFICES ASSUME Init PROVE TypeInv
  OBVIOUS
<1>1. Persisted(None, <<>>) \in Rows
  BY PersistedType, Zero, Zenon
<1>2. PlayOK
  BY <1>1, Zero, Zenon DEF Init, PlayOK
<1>3. FetchOK /\ PendingOK
  BY Zero, Zenon DEF Init, FetchOK, PendingOK
<1>4. RestOK
  BY Zero, Zenon DEF Init, RestOK
<1> QED BY <1>2, <1>3, <1>4, TypeParts

LEMMA StutterType ==
  ASSUME TypeInv, UNCHANGED vars
  PROVE  TypeInv'
BY DEF vars, playVars, radioVars, batchVars, storeVars, TypeInv, TypeOK

\* Every state of the room has the types that TypeOK says, and moreover the
\* stored rows begin with the row under the cursor and no unplayable entry is
\* current, in memory or in the store: loadQueue never meets anything else.
THEOREM TypeInvHolds == Spec => []TypeInv
<1>1. Init => TypeInv
  BY InitType
<1>2. TypeInv /\ [Next]_vars => TypeInv'
  <2> SUFFICES ASSUME TypeInv, [Next]_vars PROVE TypeInv'
    OBVIOUS
  <2> QED BY QueueCommandType, PlaybackStepType, RadioStepType, LifetimeType, StutterType DEF Next
<1> QED BY <1>1, <1>2, PTL DEF Spec

\* Type correctness of the room actor.
THEOREM TypeCorrect == Spec => []TypeOK
<1>1. TypeInv => TypeOK
  BY DEF TypeInv
<1> QED BY <1>1, TypeInvHolds, PTL

Distinct(q) == \A i, j \in DOMAIN q : q[i] = q[j] => i = j

-----------------------------------------------------------------------------
(* Queues without repetition *)

LEMMA ToSetOfSeq ==
  ASSUME NEW q \in Seq(Entries)
  PROVE  /\ DOMAIN q = 1..Len(q) /\ Len(q) \in Nat
         /\ ToSet(q) \subseteq Entries
         /\ \A i \in 1..Len(q) : q[i] \in ToSet(q)
         /\ \A e \in ToSet(q) : \E i \in 1..Len(q) : q[i] = e
<1>1. DOMAIN q = 1..Len(q) /\ Len(q) \in Nat /\ \A i \in 1..Len(q) : q[i] \in Entries
  BY LenProperties, ElementOfSeq
<1> QED BY <1>1 DEF ToSet

\* A queue all of whose entries come from q, at positions that f tells apart,
\* has no entry that q has not, and no repetition if q has none.
LEMMA Selected ==
  ASSUME NEW q \in Seq(Entries), Distinct(q), NEW r \in Seq(Entries), NEW f,
         \A k \in 1..Len(r) : f[k] \in 1..Len(q) /\ r[k] = q[f[k]],
         \A k, l \in 1..Len(r) : f[k] = f[l] => k = l
  PROVE  Distinct(r) /\ ToSet(r) \subseteq ToSet(q)
<1>1. \A k \in 1..Len(r) : r[k] \in ToSet(q)
  BY ToSetOfSeq
<1>2. ToSet(r) \subseteq ToSet(q)
  BY <1>1, ToSetOfSeq
<1>3. ASSUME NEW k \in DOMAIN r, NEW l \in DOMAIN r, r[k] = r[l] PROVE k = l
  <2>1. k \in 1..Len(r) /\ l \in 1..Len(r) /\ DOMAIN q = 1..Len(q)
    BY ToSetOfSeq
  <2>2. f[k] \in DOMAIN q /\ f[l] \in DOMAIN q /\ q[f[k]] = q[f[l]]
    BY <1>3, <2>1
  <2>3. f[k] = f[l]
    BY <2>2 DEF Distinct
  <2> QED BY <2>1, <2>3
<1>4. Distinct(r)
  BY <1>3 DEF Distinct
<1> QED BY <1>2, <1>4

LEMMA RestDistinct ==
  ASSUME NEW q \in Seq(Entries), Distinct(q)
  PROVE  /\ Distinct(Rest(q)) /\ ToSet(Rest(q)) \subseteq ToSet(q)
         /\ NextOf(q) # None => NextOf(q) \in ToSet(q) \ ToSet(Rest(q))
<1> DEFINE r == Rest(q)
           f == [k \in 1..Len(r) |-> k + Taken(q)]
<1>0. Taken(q) \in 0..Len(q) /\ Len(q) \in Nat
  BY TakenBounds, ToSetOfSeq
<1>1. r \in Seq(Entries) /\ \A k \in 1..Len(r) : k + Taken(q) \in 1..Len(q) /\ r[k] = q[k + Taken(q)]
  BY RestOfQueue
<1> HIDE DEF r
<1>2. Len(r) \in Nat /\ \A k \in 1..Len(r) : f[k] = k + Taken(q)
  BY <1>1, LenProperties
<1>3. \A k \in 1..Len(r) : f[k] \in 1..Len(q) /\ r[k] = q[f[k]]
  BY <1>1, <1>2
<1>4. \A k, l \in 1..Len(r) : f[k] = f[l] => k = l
  BY <1>0, <1>2
<1> HIDE DEF f
<1>5. Distinct(r) /\ ToSet(r) \subseteq ToSet(q)
  BY <1>1, <1>3, <1>4, Selected
<1>6. ASSUME NextOf(q) # None PROVE NextOf(q) \in ToSet(q) \ ToSet(r)
  <2>1. Taken(q) \in 1..Len(q) /\ NextOf(q) = q[Taken(q)]
    BY <1>6, NextOfQueue
  <2>2. NextOf(q) \in ToSet(q)
    BY <2>1, ToSetOfSeq
  <2>3. ASSUME NextOf(q) \in ToSet(r) PROVE FALSE
    <3>1. PICK k \in 1..Len(r) : r[k] = NextOf(q)
      BY <1>1, <2>3, ToSetOfSeq
    <3>2. q[k + Taken(q)] = q[Taken(q)] /\ k + Taken(q) \in DOMAIN q /\ Taken(q) \in DOMAIN q
      BY <1>1, <2>1, <3>1, ToSetOfSeq
    <3>3. k + Taken(q) = Taken(q)
      BY <3>2 DEF Distinct
    <3> QED BY <1>0, <1>2, <3>3
  <2> QED BY <2>2, <2>3
<1> QED BY <1>5, <1>6 DEF r

LEMMA RemoveDistinct ==
  ASSUME NEW q \in Seq(Entries), Distinct(q), NEW i \in 1..Len(q)
  PROVE  /\ Distinct(RemoveAt(q, i))
         /\ ToSet(RemoveAt(q, i)) \subseteq ToSet(q) \ {q[i]}
<1> DEFINE r == RemoveAt(q, i)
           f == [k \in 1..Len(r) |-> IF k < i THEN k ELSE k + 1]
<1>1. /\ r \in Seq(Entries) /\ Len(r) = Len(q) - 1 /\ Len(q) \in Nat
      /\ \A k \in 1..Len(r) : r[k] = q[IF k < i THEN k ELSE k + 1]
  BY RemoveAtType, ToSetOfSeq
<1> HIDE DEF r
<1>2. \A k \in 1..Len(r) : f[k] = IF k < i THEN k ELSE k + 1
  OBVIOUS
<1>3. \A k \in 1..Len(r) : f[k] \in 1..Len(q) /\ f[k] # i /\ r[k] = q[f[k]]
  BY <1>1, <1>2
<1>4. \A k, l \in 1..Len(r) : f[k] = f[l] => k = l
  BY <1>1, <1>2
<1> HIDE DEF f
<1>5. Distinct(r) /\ ToSet(r) \subseteq ToSet(q)
  <2>1. \A k \in 1..Len(r) : f[k] \in 1..Len(q) /\ r[k] = q[f[k]]
    BY <1>3
  <2>2. r \in Seq(Entries)
    BY <1>1
  <2> QED BY ONLY <1>4, <2>1, <2>2, Distinct(q), Selected
<1>6. q[i] \notin ToSet(r)
  <2> SUFFICES ASSUME q[i] \in ToSet(r) PROVE FALSE
    OBVIOUS
  <2>1. PICK k \in 1..Len(r) : r[k] = q[i]
    BY <1>1, ToSetOfSeq
  <2>2. q[f[k]] = q[i] /\ f[k] \in DOMAIN q /\ i \in DOMAIN q /\ f[k] # i
    BY <1>3, <2>1, ToSetOfSeq
  <2> QED BY <2>2 DEF Distinct
<1> QED BY <1>5, <1>6 DEF r

LEMMA ConcatDistinct ==
  ASSUME NEW q \in Seq(Entries), Distinct(q), NEW r \in Seq(Entries), Distinct(r),
         ToSet(q) \cap ToSet(r) = {}
  PROVE  /\ q \o r \in Seq(Entries) /\ Distinct(q \o r)
         /\ ToSet(q \o r) \subseteq ToSet(q) \cup ToSet(r)
<1> DEFINE c == q \o r
<1>1. /\ c \in Seq(Entries) /\ Len(c) = Len(q) + Len(r)
      /\ \A i \in 1..(Len(q) + Len(r)) : c[i] = IF i <= Len(q) THEN q[i] ELSE r[i - Len(q)]
  BY ConcatProperties
<1> HIDE DEF c
<1>2. Len(q) \in Nat /\ Len(r) \in Nat /\ DOMAIN c = 1..Len(c)
  BY <1>1, ToSetOfSeq
<1>3. \A i \in 1..Len(c) : \/ i <= Len(q) /\ i \in 1..Len(q) /\ c[i] = q[i]
                           \/ i > Len(q) /\ i - Len(q) \in 1..Len(r) /\ c[i] = r[i - Len(q)]
  BY <1>1, <1>2
<1>4. \A i \in 1..Len(c) : IF i <= Len(q) THEN c[i] \in ToSet(q) ELSE c[i] \in ToSet(r)
  <2> TAKE i \in 1..Len(c)
  <2>1. CASE i <= Len(q)
    BY <1>2, <1>3, <2>1, ToSetOfSeq
  <2>2. CASE ~(i <= Len(q))
    <3>1. i - Len(q) \in 1..Len(r) /\ c[i] = r[i - Len(q)]
      BY <1>2, <1>3, <2>2
    <3> QED BY <2>2, <3>1, ToSetOfSeq
  <2> QED BY <2>1, <2>2
<1>5. ToSet(c) \subseteq ToSet(q) \cup ToSet(r)
  <2> SUFFICES ASSUME NEW x \in ToSet(c) PROVE x \in ToSet(q) \cup ToSet(r)
    OBVIOUS
  <2>1. PICK i \in 1..Len(c) : c[i] = x
    BY <1>1, ToSetOfSeq
  <2> QED BY ONLY <1>4, <2>1
<1>6. ASSUME NEW i \in DOMAIN c, NEW j \in DOMAIN c, c[i] = c[j] PROVE i = j
  <2>1. (i <= Len(q)) = (j <= Len(q))
    BY <1>2, <1>4, <1>6
  <2>2. CASE i <= Len(q) /\ j <= Len(q)
    <3>1. i \in DOMAIN q /\ j \in DOMAIN q /\ q[i] = q[j]
      BY <1>2, <1>3, <1>6, <2>2, ToSetOfSeq
    <3> QED BY <3>1 DEF Distinct
  <2>3. CASE ~(i <= Len(q)) /\ ~(j <= Len(q))
    <3>1. i - Len(q) \in DOMAIN r /\ j - Len(q) \in DOMAIN r /\ r[i - Len(q)] = r[j - Len(q)]
      BY <1>2, <1>3, <1>6, <2>3, ToSetOfSeq
    <3>2. i - Len(q) = j - Len(q)
      BY <3>1 DEF Distinct
    <3> QED BY <1>2, <3>2
  <2> QED BY <2>1, <2>2, <2>3
<1> QED BY <1>1, <1>5, <1>6 DEF Distinct, c

LEMMA InsertDistinct ==
  ASSUME NEW q \in Seq(Entries), Distinct(q), NEW j \in 1..(Len(q) + 1),
         NEW e \in Entries, e \notin ToSet(q)
  PROVE  /\ InsertAt(q, j, e) \in Seq(Entries) /\ Distinct(InsertAt(q, j, e))
         /\ ToSet(InsertAt(q, j, e)) \subseteq ToSet(q) \cup {e}
<1> DEFINE r == InsertAt(q, j, e)
           at(k) == IF k < j THEN k ELSE k - 1
<1>1. /\ r \in Seq(Entries) /\ Len(r) = Len(q) + 1 /\ Len(q) \in Nat
      /\ \A k \in 1..Len(r) : r[k] = IF k = j THEN e ELSE q[at(k)]
  <2>1. /\ r \in Seq(Entries) /\ Len(r) = Len(q) + 1
        /\ \A k \in 1..(Len(q) + 1) : r[k] = IF k = j THEN e ELSE q[at(k)]
    BY InsertAtType
  <2>2. Len(q) \in Nat
    BY ToSetOfSeq
  <2> HIDE DEF r, at
  <2> QED BY <2>1, <2>2
<1> HIDE DEF r
<1>2. DOMAIN r = 1..Len(r)
  BY <1>1, ToSetOfSeq
<1>3. \A k \in 1..Len(r) : k # j => at(k) \in 1..Len(q)
  BY <1>1
<1>4. \A k \in 1..Len(r) : k # j => r[k] \in ToSet(q)
  <2> TAKE k \in 1..Len(r)
  <2> HAVE k # j
  <2>1. at(k) \in 1..Len(q) /\ r[k] = q[at(k)]
    BY <1>1, <1>3
  <2> HIDE DEF at
  <2> QED BY <2>1, ToSetOfSeq
<1>5. r[j] = e
  BY <1>1
<1>6. ToSet(r) \subseteq ToSet(q) \cup {e}
  BY <1>1, <1>4, <1>5, ToSetOfSeq
<1>7. ASSUME NEW k \in 1..Len(r), NEW l \in 1..Len(r), r[k] = r[l] PROVE k = l
  <2>1. CASE k = j \/ l = j
    BY <1>4, <1>5, <1>7, <2>1
  <2>2. CASE k # j /\ l # j
    <3>1. q[at(k)] = q[at(l)] /\ at(k) \in DOMAIN q /\ at(l) \in DOMAIN q
      BY <1>1, <1>3, <1>7, <2>2, ToSetOfSeq
    <3>2. at(k) = at(l)
      <4> HIDE DEF at
      <4> QED BY <3>1 DEF Distinct
    <3> QED BY <1>1, <2>2, <3>2
  <2> QED BY <2>1, <2>2
<1> QED BY <1>1, <1>2, <1>6, <1>7 DEF Distinct, r

\* What persistQueue writes has no repetition either.
LEMMA PersistedDistinct ==
  ASSUME NEW cur \in Currents, NEW q \in Seq(Entries), Distinct(q), cur \notin ToSet(q)
  PROVE  /\ Distinct(Persisted(cur, q).rows)
         /\ ToSet(Persisted(cur, q).rows) \subseteq ToSet(q) \cup ({cur} \ {None})
<1>1. CASE cur = None
  BY <1>1 DEF Persisted
<1>2. CASE cur # None
  <2>1. <<cur>> \in Seq(Entries) /\ Distinct(<<cur>>) /\ ToSet(<<cur>>) = {cur}
    BY <1>2 DEF Currents, Distinct, ToSet
  <2> DEFINE c == <<cur>>
  <2>2. c \in Seq(Entries) /\ Distinct(c) /\ ToSet(c) = {cur} /\ ToSet(c) \cap ToSet(q) = {}
    BY <2>1
  <2> HIDE DEF c
  <2>3. Distinct(c \o q) /\ ToSet(c \o q) \subseteq ToSet(c) \cup ToSet(q)
    BY <2>2, ConcatDistinct
  <2>4. Persisted(cur, q).rows = c \o q
    BY <1>2 DEF Persisted, c
  <2> QED BY <1>2, <2>2, <2>3, <2>4
<1> QED BY <1>1, <1>2

\* What loadQueue reads is what persistQueue wrote.
LEMMA LoadedPersisted ==
  ASSUME TypeInv
  PROVE  db = Persisted(LoadedCurrent, LoadedQueue)
<1>1. db \in [cursor : Currents, rows : Seq(Entries)]
  BY DEF TypeInv, Rows
<1>2. CASE db.cursor = None
  BY <1>1, <1>2 DEF Persisted, LoadedCurrent, LoadedQueue
<1>3. CASE db.cursor # None
  <2>1. db.rows \in Seq(Entries) /\ db.rows # <<>> /\ Head(db.rows) = db.cursor
    BY <1>1, <1>3 DEF TypeInv, Rows
  <2>2. db.rows = <<db.cursor>> \o Tail(db.rows)
    <3> DEFINE q == db.rows
    <3>1. q \in Seq(Entries) /\ q # <<>> /\ Head(q) = db.cursor
      BY <2>1
    <3> HIDE DEF q
    <3>2. q = <<Head(q)>> \o Tail(q)
      BY <3>1
    <3> QED BY <3>1, <3>2 DEF q
  <2> QED BY <1>1, <1>3, <2>2 DEF Persisted, LoadedCurrent, LoadedQueue
<1> QED BY <1>2, <1>3

LEMMA LoadedDistinct ==
  ASSUME TypeInv, Distinct(db.rows)
  PROVE  /\ LoadedQueue \in Seq(Entries) /\ Distinct(LoadedQueue)
         /\ ToSet(LoadedQueue) \subseteq ToSet(db.rows)
         /\ LoadedCurrent # None => LoadedCurrent \in ToSet(db.rows) \ ToSet(LoadedQueue)
<1>1. db.rows \in Seq(Entries)
  BY DEF TypeInv, Rows
<1>2. CASE db.cursor = None
  BY <1>1, <1>2 DEF LoadedCurrent, LoadedQueue
<1>3. CASE db.cursor # None
  <2> DEFINE q == db.rows
             r == Tail(q)
             f == [k \in 1..Len(r) |-> k + 1]
  <2>1. q \in Seq(Entries) /\ q # <<>> /\ Head(q) = db.cursor
    BY <1>1, <1>3 DEF TypeInv, Rows
  <2> HIDE DEF q
  <2>2. /\ r \in Seq(Entries) /\ Len(r) = Len(q) - 1 /\ \A k \in 1..Len(r) : r[k] = q[k + 1]
        /\ Len(q) \in Nat \ {0} /\ Head(q) = q[1]
    BY <2>1, HeadTailProperties, EmptySeq
  <2> HIDE DEF r
  <2>3. \A k \in 1..Len(r) : f[k] = k + 1
    OBVIOUS
  <2>4. \A k \in 1..Len(r) : f[k] \in 1..Len(q) /\ r[k] = q[f[k]]
    BY <2>2, <2>3
  <2>5. \A k, l \in 1..Len(r) : f[k] = f[l] => k = l
    BY <2>2, <2>3
  <2>6. \A k \in 1..Len(r) : f[k] # 1
    BY <2>2, <2>3
  <2> HIDE DEF f
  <2>7. Distinct(q)
    BY DEF q
  <2>8. Distinct(r) /\ ToSet(r) \subseteq ToSet(q)
    BY <2>1, <2>2, <2>4, <2>5, <2>7, Selected
  <2>9. q[1] \in ToSet(q)
    BY <2>1, <2>2, ToSetOfSeq
  <2>10. ASSUME q[1] \in ToSet(r) PROVE FALSE
    <3>1. PICK k \in 1..Len(r) : r[k] = q[1]
      BY <2>2, <2>10, ToSetOfSeq
    <3>2. q[f[k]] = q[1] /\ f[k] \in DOMAIN q /\ 1 \in DOMAIN q /\ f[k] # 1
      BY <2>1, <2>2, <2>4, <2>6, <3>1, ToSetOfSeq
    <3> QED BY <2>7, <3>2 DEF Distinct
  <2> QED BY <1>3, <2>1, <2>2, <2>8, <2>9, <2>10 DEF LoadedCurrent, LoadedQueue, q, r
<1> QED BY <1>2, <1>3

-----------------------------------------------------------------------------
(* The inductive invariant *)

\* A queue q, a current track cur, stored rows d and a play history h of a room
\* in which the entries A exist: queue and rows have no repetition, and what is
\* pending, current or stored exists and has no history yet.
Sound(q, cur, d, h, A) ==
  LET unplayed == {e \in A : h[e] = <<>>}
  IN /\ Distinct(q) /\ ToSet(q) \subseteq unplayed
     /\ cur # None => cur \in unplayed \ ToSet(q)
     /\ Distinct(d.rows) /\ ToSet(d.rows) \subseteq unplayed
     /\ \A e \in Entries : Len(h[e]) <= 1
     /\ \A e \in Entries \ A : h[e] = <<>>

QueueInv ==
  /\ TypeInv
  /\ Sound(queue, current, db, history, added)
  /\ DurableQueue
  /\ ~up => current = None

\* A step from the values s, with the entries A, keeps the room sound and, when
\* it was, what is stored in step with what is played.
Keeps(s, A) ==
  /\ Sound(queue', current', db', history', A)
  /\ s.db = Persisted(current, s.queue) => db' = Persisted(current', queue')

LEMMA NoneNotQueued ==
  ASSUME NEW q \in Seq(Entries)
  PROVE  None \notin ToSet(q)
BY ToSetOfSeq, ConstantsAssumption

LEMMA SettleKeeps ==
  ASSUME NEW s \in Handled, NEW A, Sound(s.queue, current, s.db, history, A), Settle(s)
  PROVE  Keeps(s, A)
BY DEF Settle, Keeps

LEMMA AdvanceReadyKeeps ==
  ASSUME TypeInv, NEW s \in Handled, NEW reason \in Reasons, NEW A \in SUBSET Entries,
         Sound(s.queue, current, s.db, history, A), AdvanceReady(s, reason)
  PROVE  Keeps(s, A)
<1>1. CASE Settle(s)
  BY <1>1, SettleKeeps
<1>2. CASE Advanced(s, reason)
  <2> DEFINE q == s.queue
             next == NextOf(q)
             rest == Rest(q)
             unplayed == {e \in A : history[e] = <<>>}
             unplayed2 == {e \in A : history'[e] = <<>>}
  <2>1. q \in Seq(Entries) /\ Distinct(q) /\ ToSet(q) \subseteq unplayed
    BY DEF Handled, Sound
  <2>2. /\ queue' = rest /\ db' = Persisted(next, rest) /\ current' = next
        /\ FinishCurrent(reason)
    BY <1>2 DEF Advanced
  <2>3. /\ rest \in Seq(Entries) /\ Distinct(rest) /\ ToSet(rest) \subseteq ToSet(q)
        /\ next # None => next \in ToSet(q) \ ToSet(rest)
        /\ next \in Currents
    BY <2>1, RestOfQueue, RestDistinct, NextOfQueue DEF Currents
  <2>4. current # None => current \in unplayed \ ToSet(q)
    BY DEF Sound
  <2>5. /\ \A e \in Entries : e # current => history'[e] = history[e]
        /\ \A e \in Entries : Len(history'[e]) <= 1
    <3>1. CASE UNCHANGED history
      BY <3>1 DEF Sound
    <3>2. CASE current # None /\ history' = [history EXCEPT ![current] = Append(@, reason)]
      <4>1. current \in Entries /\ history[current] = <<>> /\ history \in [Entries -> Seq(Reasons)]
        BY <2>4, <3>2 DEF TypeInv, TypeOK
      <4>2. history'[current] = Append(<<>>, reason) /\ Len(Append(<<>>, reason)) = 1
        BY <3>2, <4>1
      <4>3. \A e \in Entries : e # current => history'[e] = history[e]
        BY <3>2, <4>1
      <4>4. \A e \in Entries : Len(history[e]) <= 1
        BY DEF Sound
      <4>5. ASSUME NEW e \in Entries PROVE Len(history'[e]) <= 1
        <5>1. CASE e = current
          <6>1. history'[e] = Append(<<>>, reason)
            BY <4>2, <5>1
          <6>2. Len(history'[e]) = 1
            BY <4>2, <6>1, Zenon
          <6> QED BY <6>2
        <5>2. CASE e # current
          BY <4>3, <4>4, <5>2
        <5> QED BY <5>1, <5>2
      <4> QED BY <4>3, <4>5
    <3> QED BY <2>2, <3>1, <3>2 DEF FinishCurrent
  <2> HIDE DEF q, next, rest
  <2>6. ToSet(q) \subseteq unplayed2
    <3> SUFFICES ASSUME NEW e \in ToSet(q) PROVE e \in A /\ history'[e] = <<>>
      OBVIOUS
    <3>1. e \in A /\ e \in Entries /\ history[e] = <<>>
      BY <2>1
    <3>2. e # current
      BY <2>1, <2>4, <3>1, ConstantsAssumption
    <3> QED BY <2>5, <3>1, <3>2
  <2>7. \A e \in Entries \ A : history'[e] = <<>>
    <3> SUFFICES ASSUME NEW e \in Entries, e \notin A PROVE history'[e] = <<>>
      OBVIOUS
    <3>1. history[e] = <<>>
      BY DEF Sound
    <3>2. e # current
      BY <2>4, ConstantsAssumption
    <3> QED BY <2>5, <3>1, <3>2
  <2>8. next \notin ToSet(rest)
    BY <2>3, NoneNotQueued
  <2>9. /\ Distinct(Persisted(next, rest).rows)
        /\ ToSet(Persisted(next, rest).rows) \subseteq ToSet(rest) \cup ({next} \ {None})
    BY <2>3, <2>8, PersistedDistinct
  <2>10. ToSet(rest) \subseteq unplayed2 /\ (next # None => next \in unplayed2)
    BY <2>3, <2>6
  <2> HIDE DEF unplayed2
  <2>11. ToSet(Persisted(next, rest).rows) \subseteq unplayed2
    BY <2>9, <2>10
  <2>12. /\ Distinct(queue') /\ ToSet(queue') \subseteq unplayed2
         /\ current' # None => current' \in unplayed2 \ ToSet(queue')
         /\ Distinct(db'.rows) /\ ToSet(db'.rows) \subseteq unplayed2
    BY <2>2, <2>3, <2>9, <2>10, <2>11
  <2>13. Sound(queue', current', db', history', A)
    BY <2>5, <2>7, <2>12 DEF Sound, unplayed2
  <2> QED BY <2>2, <2>13 DEF Keeps
<1> QED BY <1>1, <1>2 DEF AdvanceReady

LEMMA AdvanceKeeps ==
  ASSUME TypeInv, NEW s \in Handled, NEW reason \in Reasons, NEW A \in SUBSET Entries,
         Sound(s.queue, current, s.db, history, A), Advance(s, reason)
  PROVE  Keeps(s, A)
<1>1. Settle(s) \/ AdvanceReady(s, reason)
  BY DEF Advance
<1> QED BY <1>1, SettleKeeps, AdvanceReadyKeeps

LEMMA CompletePendingStartKeeps ==
  ASSUME TypeInv, NEW s \in Handled, NEW A \in SUBSET Entries,
         Sound(s.queue, current, s.db, history, A), CompletePendingStart(s)
  PROVE  Keeps(s, A)
<1>1. Settle(s) \/ AdvanceReady(s, pendingReason)
  BY Zenon DEF CompletePendingStart
<1>2. pendingReason \in Reasons
  BY DEF TypeInv, TypeOK
<1> QED BY <1>1, <1>2, SettleKeeps, AdvanceReadyKeeps

\* commitQueue of a queue without repetition, of entries the room may have.
LEMMA CommitSound ==
  ASSUME QueueInv, NEW q \in Seq(Entries), Distinct(q), NEW A \in SUBSET Entries,
         added \subseteq A, current \notin ToSet(q),
         ToSet(q) \subseteq ToSet(queue) \cup (A \ added)
  PROVE  Sound(q, current, Persisted(current, q), history, A)
<1> DEFINE unplayed == {e \in A : history[e] = <<>>}
<1>1. ToSet(queue) \subseteq unplayed /\ (current # None => current \in unplayed)
  BY DEF QueueInv, Sound
<1>2. A \ added \subseteq unplayed
  BY DEF QueueInv, Sound
<1>3. current \in Currents
  BY DEF QueueInv, TypeInv
<1>4. /\ Distinct(Persisted(current, q).rows)
      /\ ToSet(Persisted(current, q).rows) \subseteq ToSet(q) \cup ({current} \ {None})
  BY <1>3, PersistedDistinct
<1>5. ToSet(q) \subseteq unplayed
  BY <1>1, <1>2
<1>6. ToSet(Persisted(current, q).rows) \subseteq unplayed
  BY <1>1, <1>4, <1>5
<1>7. \A e \in Entries : Len(history[e]) <= 1
  BY DEF QueueInv, Sound
<1>8. \A e \in Entries \ A : history[e] = <<>>
  BY DEF QueueInv, Sound
<1> HIDE DEF unplayed
<1>9. current # None => current \in unplayed \ ToSet(q)
  BY <1>1
<1> QED BY <1>4, <1>5, <1>6, <1>7, <1>8, <1>9 DEF Sound, unplayed

-----------------------------------------------------------------------------
(* The actions *)

\* A handler that keeps the room sound and runs while the actor is up.
LEMMA HandlerInv ==
  ASSUME QueueInv, TypeInv', up' = up, loaded' = loaded, up,
         NEW s, Keeps(s, added'), up /\ loaded => s.db = Persisted(current, s.queue)
  PROVE  QueueInv'
BY DEF QueueInv, Keeps, DurableQueue

\* A step that leaves queue, track, rows and history alone.
LEMMA QuietInv ==
  ASSUME QueueInv, TypeInv', UNCHANGED <<up, loaded, queue, current, db, history, added>>
  PROVE  QueueInv'
BY DEF QueueInv, DurableQueue, Sound

LEMMA HereSound ==
  ASSUME QueueInv, NEW s \in Handled, s.queue = queue, s.db = db
  PROVE  /\ Sound(s.queue, current, s.db, history, added)
         /\ added \in SUBSET Entries
         /\ up /\ loaded => s.db = Persisted(current, s.queue)
BY DEF QueueInv, DurableQueue, TypeInv, TypeOK

\* Entries that a command or a batch makes join the queue.
LEMMA FreshSound ==
  ASSUME QueueInv, NEW u, NEW n \in Nat, NEW es \in Fresh(u, n)
  PROVE  /\ queue \o es \in Seq(Entries)
         /\ added \cup ToSet(es) \in SUBSET Entries
         /\ Sound(queue \o es, current, Persisted(current, queue \o es), history, added \cup ToSet(es))
<1> DEFINE A == added \cup ToSet(es)
           q == queue \o es
<1>1. es \in Seq(Entries) /\ Len(es) = n /\ ToSet(es) \subseteq Entries \ added
  BY FreshType
<1>2. Distinct(es)
  <2>1. DOMAIN es = 1..n
    BY <1>1, ToSetOfSeq
  <2> QED BY <2>1 DEF Fresh, Distinct
<1>3. /\ queue \in Seq(Entries) /\ Distinct(queue) /\ ToSet(queue) \subseteq added
      /\ added \subseteq Entries
      /\ current # None => current \in added \ ToSet(queue)
  BY DEF QueueInv, TypeInv, TypeOK, Sound
<1>4. ToSet(queue) \cap ToSet(es) = {}
  BY <1>1, <1>3
<1>5. q \in Seq(Entries) /\ Distinct(q) /\ ToSet(q) \subseteq ToSet(queue) \cup ToSet(es)
  BY <1>1, <1>2, <1>3, <1>4, ConcatDistinct
<1> HIDE DEF q
<1>6. current \notin ToSet(q)
  BY <1>1, <1>3, <1>5, NoneNotQueued
<1>7. A \in SUBSET Entries /\ added \subseteq A /\ ToSet(q) \subseteq ToSet(queue) \cup (A \ added)
  BY <1>1, <1>3, <1>5
<1> HIDE DEF A
<1>8. Sound(q, current, Persisted(current, q), history, A)
  BY <1>5, <1>6, <1>7, CommitSound
<1> QED BY <1>5, <1>7, <1>8 DEF q, A

LEMMA CommitFields ==
  ASSUME NEW s \in Handled, NEW q
  PROVE  Commit(s, q).queue = q /\ Commit(s, q).db = Persisted(current, q)
BY DEF Handled, Commit

LEMMA QueueCommandInv ==
  ASSUME QueueInv, QueueCommand
  PROVE  QueueInv'
<1>0. TypeInv /\ TypeInv' /\ Here \in Handled
  BY QueueCommandType, HereType DEF QueueInv
<1>1. ASSUME NEW u \in Users, NEW n \in 1..MaxAdd, NEW es \in Fresh(u, n), Add(u, es)
      PROVE  QueueInv'
  <2> DEFINE s == Commit(Here, queue \o es)
  <2>1. n \in Nat
    BY ConstantsAssumption
  <2>2. /\ queue \o es \in Seq(Entries) /\ added \cup ToSet(es) \in SUBSET Entries
        /\ Sound(queue \o es, current, Persisted(current, queue \o es), history, added \cup ToSet(es))
    BY <2>1, FreshSound
  <2>3. s \in Handled /\ s.queue = queue \o es /\ s.db = Persisted(current, queue \o es)
    BY <1>0, <2>2, CommitType, CommitFields
  <2>4. Settle(s) \/ Advance(s, "")
    BY <1>1, Zenon DEF Add
  <2>5. up /\ up' = up /\ loaded' = loaded /\ added' = added \cup ToSet(es)
    BY <1>1, Zenon DEF Add, Command
  <2> HIDE DEF s
  <2>6. Keeps(s, added')
    BY <1>0, <2>2, <2>3, <2>4, <2>5, SettleKeeps, AdvanceKeeps, Zenon DEF Reasons
  <2> QED BY <1>0, <2>3, <2>5, <2>6, HandlerInv
<1>2. ASSUME NEW q \in Seq(Entries), Distinct(q), ToSet(q) \subseteq ToSet(queue), Edit(q)
      PROVE  QueueInv'
  <2> DEFINE s == Commit(Here, q)
  <2>1. s \in Handled /\ s.queue = q /\ s.db = Persisted(current, q)
    BY <1>0, CommitType, CommitFields
  <2>2. current \notin ToSet(q) /\ added \in SUBSET Entries
    BY <1>2, NoneNotQueued DEF QueueInv, Sound, TypeInv, TypeOK
  <2>3. Sound(q, current, Persisted(current, q), history, added)
    BY <1>2, <2>2, CommitSound
  <2>4. up /\ up' = up /\ loaded' = loaded /\ added' = added /\ Settle(s)
    BY <1>2 DEF Edit, Command
  <2> HIDE DEF s
  <2>5. Keeps(s, added')
    BY <2>1, <2>3, <2>4, SettleKeeps
  <2> QED BY <1>0, <2>1, <2>4, <2>5, HandlerInv
<1>3. queue \in Seq(Entries) /\ Distinct(queue) /\ DOMAIN queue = 1..Len(queue) /\ Len(queue) \in Nat
  BY LenProperties DEF QueueInv, TypeInv, TypeOK, Sound
<1>4. ASSUME NEW u \in Users, NEW any \in BOOLEAN, NEW i \in 1..Len(queue), RemoveEntry(u, any, i)
      PROVE  QueueInv'
  <2>1. PICK q : q = RemoveAt(queue, i)
    OBVIOUS
  <2>2. q \in Seq(Entries)
    BY <1>3, <2>1, RemoveAtType
  <2>3. Distinct(q) /\ ToSet(q) \subseteq ToSet(queue)
    BY <1>3, <2>1, RemoveDistinct
  <2>4. Edit(q)
    BY ONLY <1>4, <2>1 DEF RemoveEntry
  <2> QED BY ONLY <1>2, <2>2, <2>3, <2>4, Zenon
<1>5. ASSUME NEW i \in 1..Len(queue), NEW j \in 1..Len(queue), MoveEntry(i, j)
      PROVE  QueueInv'
  <2> DEFINE r == RemoveAt(queue, i)
             q == InsertAt(r, j, queue[i])
  <2>1. /\ r \in Seq(Entries) /\ Len(r) = Len(queue) - 1
        /\ Distinct(r) /\ ToSet(r) \subseteq ToSet(queue) \ {queue[i]}
    BY <1>3, RemoveAtType, RemoveDistinct, Zenon
  <2>2. j \in 1..(Len(r) + 1) /\ queue[i] \in Entries /\ queue[i] \in ToSet(queue)
    BY <1>3, <2>1, ElementOfSeq, ToSetOfSeq
  <2> HIDE DEF r
  <2>3. q \in Seq(Entries) /\ Distinct(q) /\ ToSet(q) \subseteq ToSet(r) \cup {queue[i]}
    BY <2>1, <2>2, InsertDistinct
  <2>4. Edit(q)
    BY <1>5 DEF MoveEntry, r
  <2> HIDE DEF q
  <2>5. ToSet(q) \subseteq ToSet(queue)
    BY ONLY <2>1, <2>2, <2>3
  <2> QED BY ONLY <1>2, <2>3, <2>4, <2>5, Zenon
<1>6. ASSUME Clear PROVE QueueInv'
  <2>1. <<>> \in Seq(Entries) /\ Distinct(<<>>) /\ ToSet(<<>>) = {}
    BY DEF Distinct, ToSet
  <2> QED BY <1>2, <1>6, <2>1 DEF Clear
<1>7. ASSUME NEW p \in Policies, SetPolicy(p) PROVE QueueInv'
  BY <1>0, <1>7, QuietInv DEF SetPolicy, Command, playVars
<1> QED BY <1>1, <1>3, <1>4, <1>5, <1>6, <1>7 DEF QueueCommand

LEMMA PlaybackStepInv ==
  ASSUME QueueInv, PlaybackStep
  PROVE  QueueInv'
<1>0. TypeInv /\ TypeInv' /\ Here \in Handled /\ Here.queue = queue /\ Here.db = db
  BY PlaybackStepType, HereType DEF QueueInv, Here
<1>1. ASSUME NEW s \in Handled, s.queue = queue, s.db = db,
             NEW reason \in Reasons, Advances, Advance(s, reason)
      PROVE  QueueInv'
  <2>1. up /\ up' = up /\ loaded' = loaded /\ added' = added
    BY <1>1 DEF Advances, Command
  <2>2. Keeps(s, added')
    BY <1>0, <1>1, <2>1, HereSound, AdvanceKeeps
  <2> QED BY <1>0, <1>1, <2>1, <2>2, HereSound, HandlerInv
<1>2. CASE Pause \/ Resume \/ Seek
  BY <1>0, <1>2, QuietInv DEF Pause, Resume, Seek, Control, Command, storeVars
<1>3. CASE Skip
  BY <1>0, <1>1, <1>3, Zenon DEF Skip, Reasons
<1>4. CASE TimerFire
  BY <1>0, <1>4, QuietInv DEF TimerFire, storeVars
<1>5. CASE TimerEnd
  <2> DEFINE s == [Here EXCEPT !.live = None]
  <2>1. s \in Handled /\ s.queue = queue /\ s.db = db
    BY <1>0 DEF Handled
  <2> QED BY <1>1, <1>5, <2>1, Zenon DEF TimerEnd, Reasons
<1>6. ASSUME NEW e \in Entries, StaleTimerEnd(e) \/ PreflightDone(e) PROVE QueueInv'
  BY <1>0, <1>6, QuietInv DEF StaleTimerEnd, PreflightDone, Command, storeVars
<1>7. ASSUME NEW e \in Entries, Unplayable(e) PROVE QueueInv'
  <2> DEFINE s == [Here EXCEPT !.checks = preflights \ {e}]
  <2>1. s \in Handled /\ s.queue = queue /\ s.db = db
    BY <1>0 DEF Handled, TypeInv, TypeOK
  <2> QED BY <1>1, <1>7, <2>1, Zenon DEF Unplayable, Reasons
<1> QED BY <1>2, <1>3, <1>4, <1>5, <1>6, <1>7 DEF PlaybackStep

LEMMA RadioStepInv ==
  ASSUME QueueInv, RadioStep
  PROVE  QueueInv'
<1>0. TypeInv /\ TypeInv' /\ Here \in Handled /\ Here.queue = queue /\ Here.db = db
  BY RadioStepType, HereType DEF QueueInv, Here
<1>1. ASSUME NEW s \in Handled, s.queue = queue, s.db = db, up, up' = up, loaded' = loaded,
             added' = added, Settle(s) \/ CompletePendingStart(s)
      PROVE  QueueInv'
  <2>1. Keeps(s, added')
    BY <1>0, <1>1, HereSound, SettleKeeps, CompletePendingStartKeeps
  <2> QED BY <1>0, <1>1, <2>1, HereSound, HandlerInv
<1>2. CASE RadioPlay
  BY <1>0, <1>2, QuietInv DEF RadioPlay, Command, playVars, storeVars
<1>3. CASE RadioStop
  <2> DEFINE s == [Here EXCEPT !.radio = 0]
  <2>1. s \in Handled /\ s.queue = queue /\ s.db = db
    BY <1>0, Zero, Zenon DEF Handled
  <2> QED BY <1>1, <1>3, <2>1 DEF RadioStop, Command
<1>4. CASE SourceStep
  BY <1>0, <1>4, QuietInv, Zenon
     DEF SourceStep, SourceCanceled, SourceFailed, SourceReady, SourceDone, Command, storeVars
<1>5. Received \in Handled /\ Received.queue = queue /\ Received.db = db
  BY <1>0, Zero, Zenon DEF Handled, Received
<1>6. CASE BatchStale
  BY <1>1, <1>5, <1>6, Zenon DEF BatchStale, BatchDone, Command
<1>7. CASE BatchFailed
  <2> DEFINE s == [Received EXCEPT !.radio = 0]
  <2>1. s \in Handled /\ s.queue = queue /\ s.db = db
    BY <1>5, Zero, Zenon DEF Handled
  <2> QED BY <1>1, <1>7, <2>1 DEF BatchFailed, BatchDone, Command
<1>8. ASSUME NEW n \in 0..(BatchSize + 1), NEW exhausted \in BOOLEAN,
             NEW es \in Fresh(Radio, Accepted(n)), BatchAdded(n, exhausted, es)
      PROVE  QueueInv'
  <2>1. up /\ up' = up /\ loaded' = loaded /\ added' = added \cup ToSet(es)
    BY <1>8 DEF BatchAdded, BatchDone, Command
  <2>2. CASE es = <<>>
    <3>1. added' = added
      BY <2>1, <2>2 DEF ToSet
    <3>2. CompletePendingStart(Received) \/ CompletePendingStart([Received EXCEPT !.radio = 0])
      BY <1>8, <2>2 DEF BatchAdded
    <3> DEFINE s == [Received EXCEPT !.radio = 0]
    <3>3. s \in Handled /\ s.queue = queue /\ s.db = db
      BY <1>5, Zero, Zenon DEF Handled
    <3> QED BY <1>1, <1>5, <2>1, <3>1, <3>2, <3>3
  <2>3. CASE es # <<>>
    <3> DEFINE s == Commit(Received, queue \o es)
    <3>1. Accepted(n) \in Nat
      BY <1>0, AcceptedType, ConstantsAssumption
    <3>2. /\ queue \o es \in Seq(Entries) /\ added \cup ToSet(es) \in SUBSET Entries
          /\ Sound(queue \o es, current, Persisted(current, queue \o es), history, added \cup ToSet(es))
      BY <3>1, FreshSound
    <3>3. s \in Handled /\ s.queue = queue \o es /\ s.db = Persisted(current, queue \o es)
      BY <1>0, <1>5, <3>2, CommitType, CommitFields
    <3>4. CompletePendingStart(s) \/ CompletePendingStart([s EXCEPT !.radio = 0])
      BY <1>8, <2>3 DEF BatchAdded
    <3> HIDE DEF s
    <3> DEFINE t == [s EXCEPT !.radio = 0]
    <3>5. t \in Handled /\ t.queue = queue \o es /\ t.db = Persisted(current, queue \o es)
      BY <3>3, Zero, Zenon DEF Handled
    <3> HIDE DEF t
    <3>6. CompletePendingStart(s) \/ CompletePendingStart(t)
      BY <3>4 DEF t
    <3>7. Keeps(s, added') \/ Keeps(t, added')
      BY <1>0, <2>1, <3>2, <3>3, <3>5, <3>6, CompletePendingStartKeeps
    <3> QED BY <1>0, <2>1, <3>3, <3>5, <3>7, HandlerInv
  <2> QED BY <2>2, <2>3
<1> QED BY <1>2, <1>3, <1>4, <1>6, <1>7, <1>8 DEF RadioStep, BatchStep

LEMMA LifetimeInv ==
  ASSUME QueueInv, Lifetime
  PROVE  QueueInv'
<1>0. /\ TypeInv /\ TypeInv' /\ Here \in Handled
      /\ Sound(queue, current, db, history, added)
      /\ queue \in Seq(Entries) /\ added \in SUBSET Entries
  BY LifetimeType, HereType DEF QueueInv, TypeInv, TypeOK
<1> DEFINE unplayed == {e \in added : history[e] = <<>>}
<1>1. CASE Crash
  <2>1. /\ ~up' /\ queue' = <<>> /\ current' = None /\ UNCHANGED <<history, added>>
        /\ db' = db \/ db' = Persisted(NextOf(queue), Rest(queue))
    BY <1>1, Zenon DEF Crash, Memory
  <2>2. Distinct(<<>>) /\ ToSet(<<>>) = {}
    BY DEF Distinct, ToSet
  <2>3. Distinct(db.rows) /\ ToSet(db.rows) \subseteq unplayed
        /\ Distinct(queue) /\ ToSet(queue) \subseteq unplayed
    BY <1>0 DEF Sound
  <2> DEFINE next == NextOf(queue)
             rest == Rest(queue)
  <2>4. /\ rest \in Seq(Entries) /\ Distinct(rest) /\ ToSet(rest) \subseteq ToSet(queue)
        /\ next # None => next \in ToSet(queue) \ ToSet(rest)
        /\ next \in Currents
    BY <1>0, <2>3, RestOfQueue, RestDistinct, NextOfQueue DEF Currents
  <2> HIDE DEF next, rest
  <2>5. next \notin ToSet(rest)
    BY <2>4, NoneNotQueued
  <2>6. /\ Distinct(Persisted(next, rest).rows)
        /\ ToSet(Persisted(next, rest).rows) \subseteq ToSet(rest) \cup ({next} \ {None})
    BY <2>4, <2>5, PersistedDistinct
  <2>7. Distinct(db'.rows) /\ ToSet(db'.rows) \subseteq unplayed
    BY <2>1, <2>3, <2>4, <2>6 DEF next, rest
  <2>8. Sound(queue', current', db', history', added')
    BY <1>0, <2>1, <2>2, <2>7 DEF Sound
  <2> QED BY <1>0, <2>1, <2>8 DEF QueueInv, DurableQueue
<1>2. CASE Restart
  <2> DEFINE s == [Here EXCEPT !.queue = LoadedQueue]
  <2>1. ~up /\ up' /\ current = None /\ UNCHANGED added
    BY <1>2 DEF Restart, QueueInv
  <2>2. /\ LoadedQueue \in Seq(Entries) /\ Distinct(LoadedQueue)
        /\ ToSet(LoadedQueue) \subseteq ToSet(db.rows)
        /\ LoadedCurrent # None => LoadedCurrent \in ToSet(db.rows) \ ToSet(LoadedQueue)
    BY <1>0, LoadedDistinct DEF Sound
  <2>3. db = Persisted(LoadedCurrent, LoadedQueue) /\ LoadedCurrent \in Currents
    BY <1>0, LoadedPersisted, LoadedType
  <2>4. s \in Handled /\ s.queue = LoadedQueue /\ s.db = db
    BY <1>0, <2>2 DEF Handled, Here
  <2> HIDE DEF s
  <2>5. Distinct(db.rows) /\ ToSet(db.rows) \subseteq unplayed
    BY <1>0 DEF Sound
  <2>6. ASSUME NEW cur, cur # None => cur \in ToSet(db.rows) \ ToSet(LoadedQueue)
        PROVE  Sound(LoadedQueue, cur, db, history, added)
    BY <1>0, <2>2, <2>5, <2>6 DEF Sound
  <2>7. CASE queue' = LoadedQueue /\ current' = LoadedCurrent /\ UNCHANGED <<db, history>>
    BY <1>0, <2>1, <2>2, <2>3, <2>6, <2>7 DEF QueueInv, DurableQueue
  <2>8. CASE LoadedCurrent = None /\ (Settle(s) \/ Advance(s, "resume-after-restart"))
    <3>1. Sound(s.queue, current, s.db, history, added)
      BY <2>1, <2>4, <2>6
    <3>2. Keeps(s, added)
      BY <1>0, <2>4, <2>8, <3>1, SettleKeeps, AdvanceKeeps, Zenon DEF Reasons
    <3>3. s.db = Persisted(current, s.queue)
      BY <2>1, <2>3, <2>4, <2>8
    <3> QED BY <1>0, <2>1, <3>2, <3>3 DEF Keeps, QueueInv, DurableQueue
  <2>9. LoadedCurrent \notin Poison
    BY <2>3, ConstantsAssumption DEF Currents
  <2> QED BY <1>2, <2>7, <2>8, <2>9 DEF Restart, s
<1>3. CASE RestartUnread
  BY <1>0, <1>3 DEF RestartUnread, playVars, storeVars, QueueInv, DurableQueue
<1> QED BY <1>1, <1>2, <1>3 DEF Lifetime

LEMMA InitInv == Init => QueueInv
<1> SUFFICES ASSUME Init PROVE QueueInv
  OBVIOUS
<1>1. Persisted(None, <<>>).rows = <<>>
  BY DEF Persisted
<1>2. Distinct(<<>>) /\ ToSet(<<>>) = {}
  BY DEF Distinct, ToSet
<1>3. Len(<<>>) <= 1 /\ \A e \in Entries : history[e] = <<>>
  <2>1. history = [e \in Entries |-> <<>>]
    BY Zenon DEF Init
  <2>2. \A e \in Entries : history[e] = <<>>
    BY <2>1
  <2>3. Len(<<>>) <= 1
    BY EmptySeq
  <2> QED BY <2>2, <2>3
<1>4. \A e \in Entries : Len(history[e]) <= 1
  BY <1>3
<1>5. Sound(queue, current, db, history, added)
  BY <1>1, <1>2, <1>3, <1>4, Zenon DEF Init, Sound
<1> QED BY <1>5, InitType, Zenon DEF Init, QueueInv, DurableQueue

\* The inductive invariant holds in every reachable state.
THEOREM QueueInvHolds == Spec => []QueueInv
<1>1. Init => QueueInv
  BY InitInv
<1>2. QueueInv /\ [Next]_vars => QueueInv'
  <2> SUFFICES ASSUME QueueInv, [Next]_vars PROVE QueueInv'
    OBVIOUS
  <2>1. CASE UNCHANGED vars
    <3>1. TypeInv'
      BY <2>1, StutterType DEF QueueInv
    <3> QED BY <2>1, <3>1, QuietInv DEF vars, playVars, storeVars
  <2> QED BY <2>1, QueueCommandInv, PlaybackStepInv, RadioStepInv, LifetimeInv DEF Next
<1> QED BY <1>1, <1>2, PTL DEF Spec

\* What is stored is what is played and shown: a restart brings back the current
\* track and the queue, whatever failed before (commitQueueWithCurrent).
THEOREM QueueIsDurable == Spec => []DurableQueue
<1>1. QueueInv => DurableQueue
  BY DEF QueueInv
<1> QED BY <1>1, QueueInvHolds, PTL

\* No entry is in the room twice, in memory or in the rows.
THEOREM QueueHasNoRepetition == Spec => []EntriesUnique
<1>1. QueueInv => EntriesUnique
  <2> SUFFICES ASSUME QueueInv PROVE EntriesUnique
    OBVIOUS
  <2>1. queue \in Seq(Entries) /\ Distinct(queue) /\ Distinct(db.rows)
    BY DEF QueueInv, TypeInv, TypeOK, Sound
  <2>2. current \notin ToSet(queue)
    BY <2>1, NoneNotQueued DEF QueueInv, Sound
  <2> QED BY <2>1, <2>2 DEF EntriesUnique, Distinct
<1> QED BY <1>1, QueueInvHolds, PTL

\* An entry gets at most one play_history row, over failed writes, crashes and
\* the replay after a restart.
THEOREM HistoryIsWrittenOnce == Spec => []HistoryOnce
<1>1. QueueInv => HistoryOnce
  BY DEF QueueInv, Sound, HistoryOnce
<1> QED BY <1>1, QueueInvHolds, PTL

-----------------------------------------------------------------------------
(* Radio commands: building, queuedSource, desired and the answers *)

\* The inductive invariant.  Beyond the two properties: requests are numbered as
\* they come, and a construction nobody waits behind is the wanted one, or the
\* radio was stopped and nothing is bound.
SourceInv ==
  /\ AnsweredOnce
  /\ LastCommandWins
  /\ building <= sourceSeq /\ queuedSource <= sourceSeq
  /\ building # 0 /\ queuedSource = 0 => desired = building \/ (desired = 0 /\ radio = 0)

\* Advancing binds no radio: the one the handler decided on stays.
LEMMA RadioOfHandler ==
  ASSUME NEW s, NEW reason,
         Settle(s) \/ AdvanceReady(s, reason) \/ Advance(s, reason) \/ CompletePendingStart(s)
  PROVE  radio' = s.radio
BY Zenon DEF CompletePendingStart, Advance, AdvanceReady, Advanced, Settle

\* A step that issues and ends no request may at most unbind the radio.
LEMMA SourceQuiet ==
  ASSUME SourceInv, UNCHANGED <<desired, sourceSeq, building, queuedSource, reply>>,
         radio' \in {0, radio}
  PROVE  SourceInv'
BY DEF SourceInv, AnsweredOnce, LastCommandWins

LEMMA HereRadio == Here.radio = radio
BY DEF Here

LEMMA QueueCommandSource ==
  ASSUME SourceInv, QueueCommand
  PROVE  SourceInv'
<1>1. ASSUME NEW q PROVE Commit(Here, q).radio = radio
  BY DEF Commit, Here
<1>2. ASSUME NEW u \in Users, NEW es, Add(u, es) PROVE SourceInv'
  <2>1. Settle(Commit(Here, queue \o es)) \/ Advance(Commit(Here, queue \o es), "")
    BY <1>2, Zenon DEF Add
  <2>2. radio' = radio
    BY <1>1, <2>1, RadioOfHandler, Zenon
  <2> QED BY <1>2, <2>2, SourceQuiet, Zenon DEF Add
<1>3. ASSUME NEW q, Edit(q) PROVE SourceInv'
  <2>1. radio' = radio
    BY <1>1, <1>3, RadioOfHandler DEF Edit
  <2> QED BY <1>3, <2>1, SourceQuiet DEF Edit
<1>4. ASSUME NEW p \in Policies, SetPolicy(p) PROVE SourceInv'
  BY <1>4, SourceQuiet DEF SetPolicy, radioVars
<1> QED BY <1>2, <1>3, <1>4 DEF QueueCommand, RemoveEntry, MoveEntry, Clear

LEMMA PlaybackStepSource ==
  ASSUME SourceInv, PlaybackStep
  PROVE  SourceInv'
<1>1. ASSUME NEW s, s.radio = radio, NEW reason, Advances, Advance(s, reason) PROVE SourceInv'
  <2>1. radio' = radio
    BY <1>1, RadioOfHandler
  <2> QED BY <1>1, <2>1, SourceQuiet DEF Advances
<1>2. CASE Skip
  BY <1>1, <1>2, HereRadio DEF Skip
<1>3. CASE TimerEnd
  <2>1. [Here EXCEPT !.live = None].radio = radio
    BY DEF Here
  <2> QED BY <1>1, <1>3, <2>1 DEF TimerEnd
<1>4. ASSUME NEW e \in Entries, Unplayable(e) PROVE SourceInv'
  <2>1. [Here EXCEPT !.checks = preflights \ {e}].radio = radio
    BY DEF Here
  <2> QED BY <1>1, <1>4, <2>1 DEF Unplayable
<1>5. CASE Pause \/ Resume \/ Seek \/ TimerFire
  BY <1>5, SourceQuiet DEF Pause, Resume, Seek, TimerFire, Control, radioVars
<1>6. ASSUME NEW e \in Entries, StaleTimerEnd(e) \/ PreflightDone(e) PROVE SourceInv'
  BY <1>6, SourceQuiet DEF StaleTimerEnd, PreflightDone, radioVars
<1> QED BY <1>2, <1>3, <1>4, <1>5, <1>6 DEF PlaybackStep

\* One more answer for caller i, none for the others.
LEMMA AnswerCounts ==
  ASSUME TypeInv, NEW i \in RadioIds, NEW a \in Answers
  PROVE  \A j \in RadioIds :
           Len(Answer(i, a)[j]) = IF j = i THEN Len(reply[j]) + 1 ELSE Len(reply[j])
<1>1. reply \in [RadioIds -> Seq(Answers)]
  BY DEF TypeInv, TypeOK
<1>2. Len(Append(reply[i], a)) = Len(reply[i]) + 1
  BY <1>1, AppendProperties
<1> QED BY <1>1, <1>2 DEF Answer

LEMMA CancelQueuedCounts ==
  ASSUME TypeInv
  PROVE  \A j \in RadioIds :
           Len(CancelQueued[j]) = IF j = queuedSource THEN Len(reply[j]) + 1 ELSE Len(reply[j])
<1>0. queuedSource \in 0..MaxPlays /\ MaxPlays \in Nat
  BY ConstantsAssumption DEF TypeInv, TypeOK
<1>1. CASE queuedSource = 0
  BY <1>1 DEF CancelQueued, RadioIds
<1>2. CASE queuedSource # 0
  <2>1. queuedSource \in RadioIds
    BY <1>0, <1>2 DEF RadioIds
  <2> QED BY <1>2, <2>1, AnswerCounts DEF CancelQueued, Answers
<1> QED BY <1>1, <1>2

LEMMA RadioPlaySource ==
  ASSUME TypeInv, SourceInv, RadioPlay
  PROVE  SourceInv'
<1>0. /\ sourceSeq \in Nat /\ sourceSeq' = sourceSeq + 1 /\ desired' = sourceSeq + 1
      /\ radio' = radio /\ building \in Nat /\ queuedSource \in Nat
      /\ building <= sourceSeq /\ queuedSource <= sourceSeq
      /\ queuedSource # 0 => building # queuedSource /\ building # 0
  BY ConstantsAssumption DEF TypeInv, TypeOK, RadioPlay, SourceInv, LastCommandWins
<1>1. \A i \in RadioIds : i \in Nat \ {0}
  BY ConstantsAssumption DEF RadioIds
<1>2. CASE building # 0
  <2>1. reply' = CancelQueued /\ queuedSource' = sourceSeq + 1 /\ building' = building
    BY <1>2 DEF RadioPlay
  <2>2. AnsweredOnce'
    BY <1>0, <1>1, <1>2, <2>1, CancelQueuedCounts DEF AnsweredOnce, SourceInv
  <2> QED BY <1>0, <1>2, <2>1, <2>2 DEF SourceInv, LastCommandWins
<1>3. CASE building = 0
  <2>1. reply' = reply /\ queuedSource' = queuedSource /\ building' = sourceSeq + 1
    BY <1>3 DEF RadioPlay
  <2>2. queuedSource = 0
    BY <1>0, <1>3
  <2>3. AnsweredOnce'
    BY <1>0, <1>1, <1>3, <2>1, <2>2 DEF AnsweredOnce, SourceInv
  <2> QED BY <1>0, <1>3, <2>1, <2>2, <2>3 DEF SourceInv, LastCommandWins
<1> QED BY <1>2, <1>3

LEMMA RadioStopSource ==
  ASSUME TypeInv, SourceInv, RadioStop
  PROVE  SourceInv'
<1>0. /\ sourceSeq \in Nat /\ queuedSource \in Nat /\ queuedSource <= sourceSeq
      /\ queuedSource # 0 => building # queuedSource
  BY ConstantsAssumption DEF TypeInv, TypeOK, SourceInv, LastCommandWins
<1>1. /\ desired' = 0 /\ reply' = CancelQueued /\ queuedSource' = 0
      /\ sourceSeq' = sourceSeq /\ building' = building
  BY DEF RadioStop
<1>2. [Here EXCEPT !.radio = 0].radio = 0
  BY DEF Here
<1>3. radio' = 0
  BY <1>2, RadioOfHandler DEF RadioStop
<1>4. \A i \in RadioIds : i \in Nat \ {0}
  BY ConstantsAssumption DEF RadioIds
<1>5. AnsweredOnce'
  BY <1>0, <1>1, <1>4, CancelQueuedCounts DEF AnsweredOnce, SourceInv
<1> QED BY <1>0, <1>1, <1>3, <1>5 DEF SourceInv, LastCommandWins

\* The end of a construction, up to what it does to the binding.
LEMMA SourceDoneSource ==
  ASSUME TypeInv, SourceInv, NEW a \in Answers, SourceDone(a)
  PROVE  /\ AnsweredOnce'
         /\ building # 0 /\ building' = queuedSource /\ queuedSource' = 0
         /\ building' <= sourceSeq' /\ queuedSource' <= sourceSeq'
<1>0. /\ sourceSeq \in Nat /\ building \in 0..MaxPlays /\ queuedSource \in Nat
      /\ building <= sourceSeq /\ queuedSource <= sourceSeq
      /\ queuedSource # 0 => building # queuedSource
  BY ConstantsAssumption DEF TypeInv, TypeOK, SourceInv, LastCommandWins
<1>1. /\ building # 0 /\ reply' = Answer(building, a)
      /\ building' = queuedSource /\ queuedSource' = 0 /\ sourceSeq' = sourceSeq
  BY DEF SourceDone
<1>2. building \in RadioIds /\ \A i \in RadioIds : i \in Nat \ {0}
  BY <1>0, <1>1, ConstantsAssumption DEF RadioIds
<1>3. AnsweredOnce'
  BY <1>0, <1>1, <1>2, AnswerCounts DEF AnsweredOnce, SourceInv
<1> QED BY <1>0, <1>1, <1>3

LEMMA SourceStepSource ==
  ASSUME TypeInv, SourceInv, SourceStep
  PROVE  SourceInv'
<1>0. "ok" \in Answers /\ "error" \in Answers /\ "canceled" \in Answers
  BY DEF Answers
<1>1. CASE SourceCanceled
  <2>1. desired # building /\ SourceDone("canceled") /\ radio' = radio /\ desired' = desired
    BY <1>1 DEF SourceCanceled
  <2> QED BY <1>0, <2>1, SourceDoneSource DEF SourceInv, LastCommandWins
<1>2. CASE SourceFailed
  <2>1. desired = building /\ SourceDone("error") /\ radio' = radio /\ desired' = radio
    BY <1>2 DEF SourceFailed
  <2> QED BY <1>0, <2>1, SourceDoneSource DEF SourceInv, LastCommandWins
<1>3. CASE SourceReady
  <2>1. desired = building /\ SourceDone("ok") /\ radio' = building /\ desired' = desired
    BY <1>3, Zenon DEF SourceReady
  <2> QED BY <1>0, <2>1, SourceDoneSource DEF SourceInv, LastCommandWins
<1> QED BY <1>1, <1>2, <1>3 DEF SourceStep

LEMMA BatchStepSource ==
  ASSUME SourceInv, BatchStep
  PROVE  SourceInv'
<1>1. ASSUME NEW s, s.radio \in {0, radio}, BatchDone, Settle(s) \/ CompletePendingStart(s)
      PROVE  SourceInv'
  <2>1. radio' = s.radio
    BY <1>1, RadioOfHandler
  <2> QED BY <1>1, <2>1, SourceQuiet DEF BatchDone
<1>2. Received.radio = radio
  BY DEF Received, Here
<1>3. CASE BatchStale
  <2>1. BatchDone /\ Settle(Received)
    BY <1>3, Zenon DEF BatchStale
  <2> QED BY <1>1, <1>2, <2>1
<1>4. CASE BatchFailed
  <2> DEFINE s == [Received EXCEPT !.radio = 0]
  <2>1. s.radio = 0
    BY DEF Received, Here
  <2>2. BatchDone /\ CompletePendingStart(s)
    BY <1>4 DEF BatchFailed
  <2> HIDE DEF s
  <2> QED BY <1>1, <2>1, <2>2
<1>5. ASSUME NEW n, NEW exhausted, NEW es, BatchAdded(n, exhausted, es) PROVE SourceInv'
  <2> DEFINE s == IF es = <<>> THEN Received ELSE Commit(Received, queue \o es)
             t == [s EXCEPT !.radio = 0]
  <2>1. s.radio = radio /\ t.radio = 0
    BY DEF Received, Here, Commit
  <2>2. CompletePendingStart(s) \/ CompletePendingStart(t)
    BY <1>5 DEF BatchAdded
  <2>3. BatchDone
    BY <1>5 DEF BatchAdded
  <2> HIDE DEF s, t
  <2> QED BY <1>1, <2>1, <2>2, <2>3
<1> QED BY <1>3, <1>4, <1>5 DEF BatchStep

LEMMA LifetimeSource ==
  ASSUME SourceInv, Lifetime
  PROVE  SourceInv'
<1>1. CASE Crash
  <2>1. /\ radio' = 0 /\ desired' = 0 /\ sourceSeq' = 0 /\ building' = 0 /\ queuedSource' = 0
        /\ reply' = [i \in RadioIds |-> <<>>]
    BY <1>1, Zenon DEF Crash, Memory
  <2>2. \A i \in RadioIds : i \in Nat \ {0} /\ Len(reply'[i]) = 0
    BY <2>1, EmptySeq, ConstantsAssumption DEF RadioIds
  <2> QED BY <2>1, <2>2 DEF SourceInv, AnsweredOnce, LastCommandWins
<1>2. CASE Restart
  <2> DEFINE s == [Here EXCEPT !.queue = LoadedQueue]
  <2>1. s.radio = radio
    BY DEF Here
  <2>2. radio' = radio \/ Advance(s, "resume-after-restart") \/ Settle(s)
    BY <1>2 DEF Restart
  <2> HIDE DEF s
  <2>3. radio' = radio
    BY <2>1, <2>2, RadioOfHandler
  <2> QED BY <1>2, <2>3, SourceQuiet DEF Restart
<1>3. CASE RestartUnread
  BY <1>3, SourceQuiet DEF RestartUnread, radioVars
<1> QED BY <1>1, <1>2, <1>3 DEF Lifetime

THEOREM SourceInvHolds == Spec => []SourceInv
<1>1. Init => SourceInv
  <2> SUFFICES ASSUME Init PROVE SourceInv
    OBVIOUS
  <2>1. /\ radio = 0 /\ desired = 0 /\ sourceSeq = 0 /\ building = 0 /\ queuedSource = 0
        /\ reply = [i \in RadioIds |-> <<>>]
    BY Zenon DEF Init
  <2>2. \A i \in RadioIds : i \in Nat \ {0} /\ Len(reply[i]) = 0
    BY <2>1, EmptySeq, ConstantsAssumption DEF RadioIds
  <2> QED BY <2>1, <2>2 DEF SourceInv, AnsweredOnce, LastCommandWins
<1>2. TypeInv /\ SourceInv /\ [Next]_vars => SourceInv'
  <2> SUFFICES ASSUME TypeInv, SourceInv, [Next]_vars PROVE SourceInv'
    OBVIOUS
  <2>1. CASE UNCHANGED vars
    BY <2>1, SourceQuiet DEF vars, radioVars
  <2>2. CASE RadioStep
    BY <2>2, RadioPlaySource, RadioStopSource, SourceStepSource, BatchStepSource DEF RadioStep
  <2> QED BY <2>1, <2>2, QueueCommandSource, PlaybackStepSource, LifetimeSource DEF Next
<1> QED BY <1>1, <1>2, TypeInvHolds, PTL DEF Spec

\* Every radio.play command is being built, waits, or was answered exactly once,
\* however many of them supersede each other (actRadioPlay, finishSource).
THEOREM RadioPlayAnsweredOnce == Spec => []AnsweredOnce
<1>1. SourceInv => AnsweredOnce
  BY DEF SourceInv
<1> QED BY <1>1, SourceInvHolds, PTL

\* Once nothing is being built, the room is bound to what the last radio.play or
\* radio.stop asked for, or to nothing.
THEOREM LastRadioCommandWins == Spec => []LastCommandWins
<1>1. SourceInv => LastCommandWins
  BY DEF SourceInv
<1> QED BY <1>1, SourceInvHolds, PTL

-----------------------------------------------------------------------------
(* The end timer and the waiting advance *)

Recorded == {"finished", "skipped", "unplayable"}

\* The inductive invariant.  A waiting advance has a reason to record, or there
\* is nothing to record it for; a stopped process holds none of it.
PlayInv ==
  /\ EndOfCurrent
  /\ PendingStartBound
  /\ history \in [Entries -> Seq(Recorded)]
  /\ pendingStart => current = None \/ pendingReason \in Recorded
  /\ ~up => current = None /\ timerFor = None /\ liveEnd = None /\ ~pendingStart

\* What a handler that ends the current track for a reason leaves behind.
EndsWell(reason) == current = None \/ reason \in Recorded

LEMMA FinishRecorded ==
  ASSUME TypeInv, PlayInv, NEW reason, EndsWell(reason), FinishCurrent(reason)
  PROVE  history' \in [Entries -> Seq(Recorded)]
<1>1. CASE UNCHANGED history
  BY <1>1 DEF PlayInv
<1>2. CASE current # None /\ history' = [history EXCEPT ![current] = Append(@, reason)]
  <2>1. current \in Entries /\ reason \in Recorded /\ history \in [Entries -> Seq(Recorded)]
    BY <1>2 DEF TypeInv, TypeOK, EndsWell, PlayInv
  <2>2. Append(history[current], reason) \in Seq(Recorded)
    BY <2>1, AppendProperties
  <2> QED BY <1>2, <2>1, <2>2
<1> QED BY <1>1, <1>2 DEF FinishCurrent

\* The part of the invariant that a handler's tail settles.
TailInv(r) ==
  /\ EndOfCurrent'
  /\ history' \in [Entries -> Seq(Recorded)]
  /\ radio' = r

LEMMA SettleTail ==
  ASSUME PlayInv, NEW s \in Handled, s.live \in {liveEnd, None}, Settle(s)
  PROVE  TailInv(s.radio) /\ current' = current
BY DEF PlayInv, EndOfCurrent, Settle, TailInv

LEMMA AdvanceReadyTail ==
  ASSUME TypeInv, PlayInv, NEW s \in Handled, s.live \in {liveEnd, None},
         NEW reason, EndsWell(reason), AdvanceReady(s, reason)
  PROVE  TailInv(s.radio)
<1>1. CASE Settle(s)
  BY <1>1, SettleTail
<1>2. CASE Advanced(s, reason)
  <2> DEFINE next == NextOf(s.queue)
  <2>1. /\ radio' = s.radio /\ current' = next /\ playing' = (next # None)
        /\ FinishCurrent(reason)
        /\ \/ next = None /\ StopTimer(s)
           \/ next # None /\ ArmTimer(s, next)
    BY <1>2 DEF Advanced
  <2> HIDE DEF next
  <2>2. history' \in [Entries -> Seq(Recorded)]
    BY <2>1, FinishRecorded
  <2>3. EndOfCurrent'
    BY <2>1 DEF EndOfCurrent, StopTimer, ArmTimer
  <2> QED BY <2>1, <2>2, <2>3 DEF TailInv
<1> QED BY <1>1, <1>2 DEF AdvanceReady

\* An advance of a room that is up.
LEMMA AdvancePlay ==
  ASSUME TypeInv, PlayInv, up', NEW s \in Handled, s.live \in {liveEnd, None}, s.radio = radio,
         NEW reason, EndsWell(reason), Advance(s, reason)
  PROVE  PlayInv'
<1>1. CASE pendingStart /\ Settle(s) /\ UNCHANGED <<pendingStart, pendingReason>>
  BY <1>1, SettleTail DEF TailInv, PlayInv, PendingStartBound
<1>2. CASE ~pendingStart /\ s.radio # 0 /\ Settle(s) /\ RefillForStart(s, reason)
  <2>1. pendingStart' = TRUE /\ pendingReason' = reason
    BY <1>2 DEF RefillForStart
  <2> QED BY <1>2, <2>1, SettleTail DEF TailInv, PlayInv, PendingStartBound, EndsWell
<1>3. CASE ~pendingStart /\ AdvanceReady(s, reason) /\ UNCHANGED <<pendingStart, pendingReason>>
  BY <1>3, AdvanceReadyTail DEF TailInv, PlayInv, PendingStartBound
<1> QED BY <1>1, <1>2, <1>3 DEF Advance

\* A fetch that has ended, or a stop, completes the advance that waits.
LEMMA CompletePlay ==
  ASSUME TypeInv, PlayInv, up', NEW s \in Handled, s.live \in {liveEnd, None},
         CompletePendingStart(s)
  PROVE  PlayInv'
<1>1. CASE pendingStart /\ ~pendingStart' /\ AdvanceReady(s, pendingReason)
  <2>1. EndsWell(pendingReason)
    BY <1>1 DEF PlayInv, EndsWell
  <2> QED BY <1>1, <2>1, AdvanceReadyTail DEF TailInv, PlayInv, PendingStartBound
<1>2. CASE ~pendingStart /\ Settle(s) /\ UNCHANGED <<pendingStart, pendingReason>>
  BY <1>2, SettleTail DEF TailInv, PlayInv, PendingStartBound
<1> QED BY <1>1, <1>2, Zenon DEF CompletePendingStart

\* A step that leaves playback and the waiting advance alone.
LEMMA PlayQuiet ==
  ASSUME PlayInv, UNCHANGED <<up, current, playing, timerFor, liveEnd, history,
                              pendingStart, pendingReason, radio>>
  PROVE  PlayInv'
BY DEF PlayInv, EndOfCurrent, PendingStartBound

LEMMA HereLive == ASSUME TypeInv PROVE Here \in Handled /\ Here.live = liveEnd /\ Here.radio = radio
BY HereType DEF Here

LEMMA QueueCommandPlay ==
  ASSUME TypeInv, PlayInv, QueueCommand
  PROVE  PlayInv'
<1>1. ASSUME NEW q \in Seq(Entries)
      PROVE  /\ Commit(Here, q) \in Handled
             /\ Commit(Here, q).live = liveEnd /\ Commit(Here, q).radio = radio
  BY HereLive, CommitType, Zenon DEF Commit, Here
<1>2. ASSUME NEW q, Settle(Commit(Here, q)), UNCHANGED <<up, pendingStart, pendingReason>>
      PROVE  PlayInv'
  <2>1. radio' = radio /\ liveEnd' = liveEnd
    BY <1>2 DEF Settle, Commit, Here
  <2> QED BY <1>2, <2>1, PlayQuiet DEF Settle
<1>3. ASSUME NEW u \in Users, NEW n \in 1..MaxAdd, NEW es \in Fresh(u, n), Add(u, es)
      PROVE  PlayInv'
  <2>1. queue \o es \in Seq(Entries)
    <3>1. n \in Nat /\ queue \in Seq(Entries)
      BY ConstantsAssumption DEF TypeInv, TypeOK
    <3>2. es \in Seq(Entries)
      BY <3>1, FreshType
    <3> QED BY <3>1, <3>2, ConcatProperties
  <2>2. up /\ up' = up
    BY <1>3, Zenon DEF Add, Command
  <2>3. CASE current = None /\ Advance(Commit(Here, queue \o es), "")
    BY <1>1, <2>1, <2>2, <2>3, AdvancePlay, Zenon DEF EndsWell
  <2>4. CASE Settle(Commit(Here, queue \o es)) /\ UNCHANGED <<pendingStart, pendingReason>>
    BY <1>2, <2>2, <2>4
  <2> QED BY <1>3, <2>3, <2>4, Zenon DEF Add
<1>4. ASSUME NEW q, Edit(q) PROVE PlayInv'
  BY <1>2, <1>4 DEF Edit, Command, batchVars
<1>5. ASSUME NEW p \in Policies, SetPolicy(p) PROVE PlayInv'
  BY <1>5, PlayQuiet DEF SetPolicy, Command, playVars, radioVars, batchVars
<1> QED BY <1>3, <1>4, <1>5 DEF QueueCommand, RemoveEntry, MoveEntry, Clear

LEMMA PlaybackStepPlay ==
  ASSUME TypeInv, PlayInv, PlaybackStep
  PROVE  PlayInv'
<1>0. /\ Here \in Handled /\ Here.live = liveEnd /\ Here.radio = radio
      /\ current \in Entries \cup {None} /\ None \notin Entries
  BY HereLive, ConstantsAssumption DEF TypeInv, TypeOK
<1>1. ASSUME NEW s \in Handled, s.live \in {liveEnd, None}, s.radio = radio,
             NEW reason \in Recorded, Advances, Advance(s, reason)
      PROVE  PlayInv'
  <2>1. up'
    BY <1>1 DEF Advances, Command
  <2> QED BY <1>1, <2>1, AdvancePlay DEF EndsWell
<1>2. CASE Skip
  BY <1>0, <1>1, <1>2 DEF Skip, Recorded
<1>3. CASE TimerEnd
  <2> DEFINE s == [Here EXCEPT !.live = None]
  <2>1. s \in Handled /\ s.live = None /\ s.radio = radio
    BY <1>0 DEF Handled
  <2> QED BY <1>1, <1>3, <2>1 DEF TimerEnd, Recorded
<1>4. ASSUME NEW e \in Entries, Unplayable(e) PROVE PlayInv'
  <2> DEFINE s == [Here EXCEPT !.checks = preflights \ {e}]
  <2>1. s \in Handled /\ s.live = liveEnd /\ s.radio = radio
    BY <1>0 DEF Handled, TypeInv, TypeOK
  <2> QED BY <1>1, <1>4, <2>1 DEF Unplayable, Recorded
<1>5. ASSUME Control, EndOfCurrent' PROVE PlayInv'
  BY <1>5 DEF Control, Command, PlayInv, PendingStartBound, radioVars, batchVars, storeVars
<1>6. CASE Pause
  <2>1. EndOfCurrent'
    BY <1>0, <1>6 DEF Pause, Control, StopTimer, EndOfCurrent, PlayInv
  <2> QED BY <1>5, <1>6, <2>1 DEF Pause
<1>7. CASE Resume
  <2>1. current' = current /\ playing' = TRUE /\ (StopTimer(Here) \/ ArmTimer(Here, current))
    BY <1>7 DEF Resume, Control
  <2>2. EndOfCurrent'
    BY <1>0, <2>1 DEF StopTimer, ArmTimer, EndOfCurrent, PlayInv
  <2> QED BY <1>5, <1>7, <2>2 DEF Resume
<1>8. CASE Seek
  <2>1. current' = current /\ playing' = playing
        /\ (StopTimer(Here) \/ (playing /\ ArmTimer(Here, current)))
    BY <1>8 DEF Seek, Control
  <2>2. EndOfCurrent'
    BY <1>0, <2>1 DEF StopTimer, ArmTimer, EndOfCurrent, PlayInv
  <2> QED BY <1>5, <1>8, <2>2 DEF Seek
<1>9. CASE TimerFire
  BY <1>9 DEF TimerFire, PlayInv, EndOfCurrent, PendingStartBound, radioVars, batchVars, storeVars
<1>10. ASSUME NEW e \in Entries, StaleTimerEnd(e) \/ PreflightDone(e) PROVE PlayInv'
  BY <1>10, PlayQuiet DEF StaleTimerEnd, PreflightDone, Command, radioVars, batchVars, storeVars
<1> QED BY <1>2, <1>3, <1>4, <1>6, <1>7, <1>8, <1>9, <1>10 DEF PlaybackStep

LEMMA SourceStepPlay ==
  ASSUME TypeInv, PlayInv, SourceStep
  PROVE  PlayInv'
<1>1. CASE SourceCanceled \/ SourceFailed
  BY <1>1, PlayQuiet DEF SourceCanceled, SourceFailed, SourceDone, Command, batchVars, storeVars
<1>2. CASE SourceReady
  <2>1. /\ UNCHANGED <<up, current, playing, timerFor, liveEnd, history>>
        /\ radio' = building /\ building # 0
    BY <1>2, Zenon DEF SourceReady, SourceDone, Command, storeVars
  <2>2. current = None \/ UNCHANGED <<pendingStart, pendingReason>>
    BY <1>2, Zenon DEF SourceReady
  <2>3. up
    BY <1>2, Zenon DEF SourceReady, SourceDone, Command
  <2> QED BY <2>1, <2>2, <2>3 DEF PlayInv, EndOfCurrent, PendingStartBound
<1> QED BY <1>1, <1>2 DEF SourceStep

LEMMA BatchStepPlay ==
  ASSUME TypeInv, PlayInv, BatchStep
  PROVE  PlayInv'
<1>1. Received \in Handled /\ Received.live = liveEnd /\ Received.radio = radio
  BY HereLive, Zero, Zenon DEF Received, Handled
<1>2. ASSUME BatchDone PROVE up /\ up' = up
  BY <1>2 DEF BatchDone, Command
<1>3. CASE BatchStale
  <2>1. TailInv(radio) /\ current' = current
    BY <1>1, <1>3, SettleTail, Zenon DEF BatchStale
  <2>2. ~pendingStart' \/ (radio # 0 /\ UNCHANGED <<pendingStart, pendingReason>>)
    BY <1>3, Zenon DEF BatchStale
  <2>3. up /\ up' = up
    BY <1>2, <1>3, Zenon DEF BatchStale
  <2> QED BY <2>1, <2>2, <2>3 DEF TailInv, PlayInv, PendingStartBound
<1>4. CASE BatchFailed
  <2> DEFINE s == [Received EXCEPT !.radio = 0]
  <2>1. s \in Handled /\ s.live = liveEnd
    BY <1>1, Zero, Zenon DEF Handled
  <2>2. BatchDone /\ CompletePendingStart(s)
    BY <1>4 DEF BatchFailed
  <2> HIDE DEF s
  <2> QED BY <1>2, <2>1, <2>2, CompletePlay
<1>5. ASSUME NEW n \in 0..(BatchSize + 1), NEW exhausted \in BOOLEAN,
             NEW es \in Fresh(Radio, Accepted(n)), BatchAdded(n, exhausted, es)
      PROVE  PlayInv'
  <2> DEFINE s == IF es = <<>> THEN Received ELSE Commit(Received, queue \o es)
             t == [s EXCEPT !.radio = 0]
  <2>1. queue \o es \in Seq(Entries)
    <3>1. Accepted(n) \in Nat /\ queue \in Seq(Entries)
      BY AcceptedType, ConstantsAssumption DEF TypeInv, TypeOK
    <3>2. es \in Seq(Entries)
      BY <3>1, FreshType
    <3> QED BY <3>1, <3>2, ConcatProperties
  <2>2. /\ Commit(Received, queue \o es) \in Handled
        /\ Commit(Received, queue \o es).live = liveEnd
    <3>1. Commit(Received, queue \o es) \in Handled
      BY <1>1, <2>1, CommitType
    <3>2. Commit(Received, queue \o es).live = liveEnd
      BY DEF Commit, Received, Here
    <3> QED BY <3>1, <3>2
  <2>3. s \in Handled /\ s.live = liveEnd
    BY <1>1, <2>2
  <2>4. CompletePendingStart(s) \/ CompletePendingStart(t)
    BY <1>5 DEF BatchAdded
  <2>5. up'
    BY <1>2, <1>5 DEF BatchAdded
  <2> HIDE DEF s
  <2>6. t \in Handled /\ t.live = liveEnd
    BY <2>3, Zero, Zenon DEF Handled
  <2> HIDE DEF t
  <2> QED BY <2>3, <2>4, <2>5, <2>6, CompletePlay
<1> QED BY <1>3, <1>4, <1>5 DEF BatchStep

LEMMA RadioStepPlay ==
  ASSUME TypeInv, PlayInv, RadioStep
  PROVE  PlayInv'
<1>1. CASE RadioPlay
  BY <1>1, PlayQuiet DEF RadioPlay, Command, playVars, batchVars, storeVars
<1>2. CASE RadioStop
  <2> DEFINE s == [Here EXCEPT !.radio = 0]
  <2>1. s \in Handled /\ s.live = liveEnd
    BY HereLive, Zero, Zenon DEF Handled
  <2>2. up' /\ CompletePendingStart(s)
    BY <1>2 DEF RadioStop, Command
  <2> HIDE DEF s
  <2> QED BY <2>1, <2>2, CompletePlay
<1> QED BY <1>1, <1>2, SourceStepPlay, BatchStepPlay DEF RadioStep

LEMMA LifetimePlay ==
  ASSUME TypeInv, PlayInv, Lifetime
  PROVE  PlayInv'
<1>1. CASE Crash
  BY <1>1, Zenon DEF Crash, Memory, PlayInv, EndOfCurrent, PendingStartBound
<1>2. CASE Restart
  <2> DEFINE s == [Here EXCEPT !.queue = LoadedQueue]
  <2>1. up' /\ current = None /\ timerFor = None /\ liveEnd = None /\ ~pendingStart
    BY <1>2 DEF Restart, PlayInv
  <2>2. s \in Handled /\ s.live = liveEnd /\ s.radio = radio
    BY HereLive, LoadedType DEF Handled
  <2>3. CASE Advance(s, "resume-after-restart")
    BY <2>1, <2>2, <2>3, AdvancePlay DEF EndsWell
  <2>4. CASE Settle(s) /\ UNCHANGED batchVars
    BY <2>1, <2>2, <2>4, SettleTail DEF TailInv, PlayInv, PendingStartBound, batchVars
  <2>5. CASE /\ current' = LoadedCurrent /\ playing' = TRUE /\ ArmTimer(Here, LoadedCurrent)
             /\ UNCHANGED <<history, radio, batchVars>>
    BY <2>1, <2>5 DEF ArmTimer, PlayInv, EndOfCurrent, PendingStartBound, batchVars
  <2> QED BY <1>2, <2>3, <2>4, <2>5 DEF Restart
<1>3. CASE RestartUnread
  BY <1>3 DEF RestartUnread, PlayInv, EndOfCurrent, PendingStartBound,
              playVars, radioVars, batchVars, storeVars
<1> QED BY <1>1, <1>2, <1>3 DEF Lifetime

THEOREM PlayInvHolds == Spec => []PlayInv
<1>1. Init => PlayInv
  <2> SUFFICES ASSUME Init PROVE PlayInv
    OBVIOUS
  <2>1. up /\ current = None /\ timerFor = None /\ liveEnd = None /\ ~pendingStart
    BY Zenon DEF Init
  <2>2. history = [e \in Entries |-> <<>>]
    BY Zenon DEF Init
  <2>3. history \in [Entries -> Seq(Recorded)]
    BY <2>2
  <2> QED BY <2>1, <2>3 DEF PlayInv, EndOfCurrent, PendingStartBound
<1>2. TypeInv /\ PlayInv /\ [Next]_vars => PlayInv'
  <2> SUFFICES ASSUME TypeInv, PlayInv, [Next]_vars PROVE PlayInv'
    OBVIOUS
  <2>1. CASE UNCHANGED vars
    BY <2>1, PlayQuiet DEF vars, playVars, radioVars, batchVars, storeVars
  <2> QED BY <2>1, QueueCommandPlay, PlaybackStepPlay, RadioStepPlay, LifetimePlay DEF Next
<1> QED BY <1>1, <1>2, TypeInvHolds, PTL DEF Spec

\* An expired timer that is still accepted belongs to the current track, and an
\* armed one to the track that plays (scheduleEnd, timerSeq).
THEOREM TimerEndsItsOwnTrack == Spec => []EndOfCurrent
<1>1. PlayInv => EndOfCurrent
  BY DEF PlayInv
<1> QED BY <1>1, PlayInvHolds, PTL

\* An advance waits only while a radio is bound: radio.stop, a failed batch and
\* the last batch complete it (completePendingStart).
THEOREM WaitingNeedsRadio == Spec => []PendingStartBound
<1>1. PlayInv => PendingStartBound
  BY DEF PlayInv
<1> QED BY <1>1, PlayInvHolds, PTL

\* play_history holds real reasons only, although a waiting advance keeps its
\* reason through any number of commands (refillPendingReason).
THEOREM OnlyRealReasons == Spec => []EndReasons
<1>1. PlayInv => EndReasons
  <2> SUFFICES ASSUME PlayInv, NEW e \in Entries
               PROVE  ToSet(history[e]) \subseteq Recorded
    BY DEF EndReasons, Recorded
  <2>1. history[e] \in Seq(Recorded)
    BY DEF PlayInv
  <2>2. \A i \in DOMAIN history[e] : history[e][i] \in Recorded
    BY <2>1, ElementOfSeq
  <2> QED BY <2>2 DEF ToSet
<1> QED BY <1>1, PlayInvHolds, PTL
-----------------------------------------------------------------------------
(* The bound on the queue *)

\* What a handler hands on is the most that the queue holds afterwards.
NoLonger(s) == Len(queue') <= Len(s.queue)

LEMMA SettleLength ==
  ASSUME NEW s \in Handled, Settle(s)
  PROVE  NoLonger(s)
BY LenProperties DEF Handled, Settle, NoLonger

LEMMA AdvanceReadyLength ==
  ASSUME NEW s \in Handled, NEW reason, AdvanceReady(s, reason)
  PROVE  NoLonger(s)
<1>1. s.queue \in Seq(Entries) /\ Len(s.queue) \in Nat
  BY LenProperties DEF Handled
<1>2. CASE Advanced(s, reason)
  <2>1. queue' = Rest(s.queue)
    BY <1>2 DEF Advanced
  <2>2. Len(Rest(s.queue)) = Len(s.queue) - Taken(s.queue) /\ Taken(s.queue) \in 0..Len(s.queue)
    BY <1>1, RestOfQueue, TakenBounds
  <2> QED BY <1>1, <2>1, <2>2 DEF NoLonger
<1> QED BY <1>2, SettleLength DEF AdvanceReady

LEMMA AdvanceLength ==
  ASSUME NEW s \in Handled, NEW reason, Advance(s, reason)
  PROVE  NoLonger(s)
BY SettleLength, AdvanceReadyLength DEF Advance

LEMMA CompleteLength ==
  ASSUME NEW s \in Handled, CompletePendingStart(s)
  PROVE  NoLonger(s)
BY SettleLength, AdvanceReadyLength, Zenon DEF CompletePendingStart

\* A batch is cut to the room that is left.
LEMMA AcceptedFits ==
  ASSUME TypeInv, NEW n \in Nat
  PROVE  Accepted(n) \in Nat /\ (Accepted(n) > 0 => Len(queue) + Accepted(n) <= MaxQueue)
<1>1. MaxQueue \in Nat /\ Len(queue) \in Nat /\ fetchLimit \in Nat
  BY MaxQueueType, LenProperties, ConstantsAssumption DEF TypeInv, TypeOK
<1> DEFINE space == Max({0, MaxQueue - Len(queue)})
<1>2. space \in Nat /\ (space > 0 => space = MaxQueue - Len(queue))
  BY <1>1, MaxPair
<1> HIDE DEF space
<1>3. /\ Min({n, fetchLimit, space}) \in {n, fetchLimit, space}
      /\ Min({n, fetchLimit, space}) <= space
  BY <1>1, <1>2, MinNat
<1>4. Accepted(n) \in Nat /\ Accepted(n) <= space
  BY <1>1, <1>2, <1>3 DEF Accepted, space
<1> QED BY <1>1, <1>2, <1>4

\* What one step may do to the length of the queue.
Grows == up /\ Len(queue') > Len(queue)
Fits == Grows => Len(queue') <= MaxQueue

LEMMA NoLongerFits ==
  ASSUME TypeInv, NEW s \in Handled, NoLonger(s),
         Len(s.queue) <= Len(queue) \/ Len(s.queue) <= MaxQueue, queue' \in Seq(Entries)
  PROVE  Fits
<1>1. MaxQueue \in Nat /\ Len(queue) \in Nat /\ Len(s.queue) \in Nat /\ Len(queue') \in Nat
  BY MaxQueueType, LenProperties DEF TypeInv, TypeOK, Handled
<1> QED BY <1>1 DEF NoLonger, Fits, Grows

LEMMA HereFits ==
  ASSUME TypeInv, TypeInv', NEW s \in Handled, s.queue = queue, NoLonger(s)
  PROVE  Fits
<1>1. Len(queue) \in Nat /\ queue' \in Seq(Entries)
  BY LenProperties DEF TypeInv, TypeOK
<1> QED BY <1>1, NoLongerFits

LEMMA QueueCommandFits ==
  ASSUME TypeInv, TypeInv', QueueCommand
  PROVE  Fits
<1>1. /\ queue \in Seq(Entries) /\ queue' \in Seq(Entries)
      /\ DOMAIN queue = 1..Len(queue) /\ Len(queue) \in Nat /\ MaxQueue \in Nat
  BY MaxQueueType, LenProperties DEF TypeInv, TypeOK
<1>2. ASSUME NEW q \in Seq(Entries)
      PROVE  Commit(Here, q) \in Handled /\ Commit(Here, q).queue = q
  BY HereType, CommitType, Zenon DEF Commit, Here
<1>3. ASSUME NEW u \in Users, NEW n \in 1..MaxAdd, NEW es \in Fresh(u, n), Add(u, es)
      PROVE  Fits
  <2>1. n \in Nat
    BY ConstantsAssumption
  <2>2. es \in Seq(Entries) /\ Len(es) = n
    BY <2>1, FreshType
  <2>3. queue \o es \in Seq(Entries) /\ Len(queue \o es) = Len(queue) + Len(es)
    BY <1>1, <2>2, ConcatProperties
  <2>4. Len(queue) + Len(es) <= MaxQueue
    BY <1>3, Zenon DEF Add, Admitted
  <2>5. PICK q \in Seq(Entries) : q = queue \o es
    BY <2>3
  <2>6. Len(q) <= MaxQueue
    BY ONLY <2>2, <2>3, <2>4, <2>5
  <2>7. PICK s \in Handled : s = Commit(Here, q) /\ s.queue = q
    BY <1>2
  <2>8. Advance(s, "") \/ Settle(s)
    BY <1>3, <2>5, <2>7, Zenon DEF Add
  <2>9. NoLonger(s)
    BY <2>8, AdvanceLength, SettleLength, Zenon
  <2>10. Len(s.queue) <= MaxQueue /\ queue' \in Seq(Entries)
    BY ONLY <1>1, <2>6, <2>7
  <2> QED BY <2>9, <2>10, NoLongerFits
<1>4. ASSUME NEW q \in Seq(Entries), Len(q) <= Len(queue), Edit(q) PROVE Fits
  <2>1. PICK s \in Handled : s = Commit(Here, q) /\ s.queue = q
    BY <1>2
  <2>2. Settle(s)
    BY ONLY <1>4, <2>1, Zenon DEF Edit
  <2>3. NoLonger(s)
    BY ONLY <2>2, SettleLength
  <2>4. Len(s.queue) <= Len(queue) /\ queue' \in Seq(Entries)
    BY ONLY <1>1, <1>4, <2>1
  <2> QED BY <2>3, <2>4, NoLongerFits
<1>5. ASSUME NEW u \in Users, NEW any \in BOOLEAN, NEW i \in 1..Len(queue), RemoveEntry(u, any, i)
      PROVE  Fits
  <2>1. PICK q : q = RemoveAt(queue, i)
    OBVIOUS
  <2>2. q \in Seq(Entries) /\ Len(q) = Len(queue) - 1
    BY <1>1, <2>1, RemoveAtType, Zenon
  <2>3. Edit(q)
    BY ONLY <1>5, <2>1 DEF RemoveEntry
  <2>4. Len(q) <= Len(queue)
    BY ONLY <1>1, <2>2
  <2> QED BY ONLY <1>4, <2>2, <2>3, <2>4, Zenon
<1>6. ASSUME NEW i \in 1..Len(queue), NEW j \in 1..Len(queue), MoveEntry(i, j) PROVE Fits
  <2> DEFINE left == RemoveAt(queue, i)
  <2>1. left \in Seq(Entries) /\ Len(left) = Len(queue) - 1
    BY <1>1, RemoveAtType, Zenon
  <2>2. j \in 1..(Len(left) + 1) /\ queue[i] \in Entries
    BY <1>1, <2>1, ElementOfSeq
  <2> HIDE DEF left
  <2>3. PICK e \in Entries : e = queue[i]
    BY <2>2
  <2>4. InsertAt(left, j, e) \in Seq(Entries) /\ Len(InsertAt(left, j, e)) = Len(left) + 1
    BY ONLY <2>1, <2>2, <2>3, InsertAtType
  <2>5. PICK q : q = InsertAt(left, j, e)
    OBVIOUS
  <2>6. Edit(q)
    BY ONLY <1>6, <2>3, <2>5 DEF MoveEntry, left
  <2>7. q \in Seq(Entries) /\ Len(q) <= Len(queue)
    BY ONLY <1>1, <2>1, <2>4, <2>5
  <2> QED BY ONLY <1>4, <2>6, <2>7, Zenon
<1>7. ASSUME Clear PROVE Fits
  <2>1. <<>> \in Seq(Entries) /\ Len(<<>>) <= Len(queue)
    BY <1>1, EmptySeq
  <2> QED BY <1>4, <1>7, <2>1 DEF Clear
<1>8. ASSUME NEW p \in Policies, SetPolicy(p) PROVE Fits
  BY <1>1, <1>8 DEF SetPolicy, playVars, Fits, Grows
<1> QED BY <1>1, <1>3, <1>5, <1>6, <1>7, <1>8 DEF QueueCommand

LEMMA PlaybackStepFits ==
  ASSUME TypeInv, TypeInv', PlaybackStep
  PROVE  Fits
<1>1. ASSUME NEW s \in Handled, s.queue = queue, NEW reason, Advance(s, reason) PROVE Fits
  BY <1>1, AdvanceLength, HereFits
<1>2. Here \in Handled /\ Here.queue = queue
  BY HereType DEF Here
<1>3. CASE Skip
  BY <1>1, <1>2, <1>3 DEF Skip
<1>4. CASE TimerEnd
  <2> DEFINE s == [Here EXCEPT !.live = None]
  <2>1. s \in Handled /\ s.queue = queue
    BY <1>2 DEF Handled
  <2> QED BY <1>1, <1>4, <2>1 DEF TimerEnd
<1>5. ASSUME NEW e \in Entries, Unplayable(e) PROVE Fits
  <2> DEFINE s == [Here EXCEPT !.checks = preflights \ {e}]
  <2>1. s \in Handled /\ s.queue = queue
    BY <1>2 DEF Handled, TypeInv, TypeOK
  <2> QED BY <1>1, <1>5, <2>1 DEF Unplayable
<1>6. ASSUME queue' = queue PROVE Fits
  <2>1. Len(queue) \in Nat
    BY LenProperties DEF TypeInv, TypeOK
  <2> QED BY <1>6, <2>1 DEF Fits, Grows
<1>7. CASE Pause \/ Resume \/ Seek \/ TimerFire
  BY <1>6, <1>7 DEF Pause, Resume, Seek, Control, TimerFire
<1>8. ASSUME NEW e \in Entries, StaleTimerEnd(e) \/ PreflightDone(e) PROVE Fits
  BY <1>6, <1>8 DEF StaleTimerEnd, PreflightDone
<1> QED BY <1>3, <1>4, <1>5, <1>7, <1>8 DEF PlaybackStep

LEMMA RadioStepFits ==
  ASSUME TypeInv, TypeInv', RadioStep
  PROVE  Fits
<1>0. /\ Here \in Handled /\ Here.queue = queue
      /\ queue \in Seq(Entries) /\ queue' \in Seq(Entries) /\ Len(queue) \in Nat
  BY HereType, LenProperties DEF Here, TypeInv, TypeOK
<1>1. CASE RadioPlay \/ SourceStep
  <2>1. SourceStep => queue' = queue
    BY Zenon DEF SourceStep, SourceCanceled, SourceFailed, SourceReady, SourceDone
  <2>2. RadioPlay => queue' = queue
    BY DEF RadioPlay, playVars
  <2> QED BY <1>0, <1>1, <2>1, <2>2 DEF Fits, Grows
<1>2. ASSUME NEW s \in Handled, s.queue = queue,
             CompletePendingStart([s EXCEPT !.radio = 0]) \/ CompletePendingStart(s)
      PROVE  Fits
  <2> DEFINE t == [s EXCEPT !.radio = 0]
  <2>1. t \in Handled /\ t.queue = queue
    BY <1>2, Zero, Zenon DEF Handled
  <2> HIDE DEF t
  <2>2. CASE CompletePendingStart(t)
    BY <2>1, <2>2, CompleteLength, HereFits
  <2>3. CASE CompletePendingStart(s)
    BY <1>2, <2>3, CompleteLength, HereFits
  <2> QED BY <1>2, <2>2, <2>3 DEF t
<1>3. CASE RadioStop
  BY <1>0, <1>2, <1>3 DEF RadioStop
<1>4. Received \in Handled /\ Received.queue = queue
  BY <1>0, Zero, Zenon DEF Received, Handled
<1>5. CASE BatchFailed
  BY <1>2, <1>4, <1>5 DEF BatchFailed
<1>6. CASE BatchStale
  BY <1>4, <1>6, SettleLength, HereFits, Zenon DEF BatchStale
<1>7. ASSUME NEW n \in 0..(BatchSize + 1), NEW exhausted \in BOOLEAN,
             NEW es \in Fresh(Radio, Accepted(n)), BatchAdded(n, exhausted, es)
      PROVE  Fits
  <2>1. n \in Nat
    BY ConstantsAssumption
  <2>2. Accepted(n) \in Nat /\ (Accepted(n) > 0 => Len(queue) + Accepted(n) <= MaxQueue)
    BY <2>1, AcceptedFits
  <2>3. es \in Seq(Entries) /\ Len(es) = Accepted(n)
    BY <2>2, FreshType
  <2>4. CASE es = <<>>
    BY <1>2, <1>4, <1>7, <2>4 DEF BatchAdded
  <2>5. CASE es # <<>>
    <3> DEFINE s == Commit(Received, queue \o es)
               t == [s EXCEPT !.radio = 0]
    <3>1. Len(es) > 0
      BY <2>3, <2>5, EmptySeq
    <3>2. queue \o es \in Seq(Entries) /\ Len(queue \o es) <= MaxQueue
      <4>1. queue \o es \in Seq(Entries) /\ Len(queue \o es) = Len(queue) + Len(es)
        BY <1>0, <2>3, ConcatProperties
      <4>2. Len(queue) + Len(es) <= MaxQueue
        BY ONLY <2>2, <2>3, <3>1
      <4> QED BY ONLY <4>1, <4>2
    <3>3. s \in Handled /\ s.queue = queue \o es
      <4>1. s \in Handled
        BY <1>4, <3>2, CommitType
      <4>2. s.queue = queue \o es
        BY DEF Commit, Received, Here
      <4> QED BY <4>1, <4>2
    <3>4. CompletePendingStart(s) \/ CompletePendingStart(t)
      BY <1>7, <2>5 DEF BatchAdded
    <3> HIDE DEF s
    <3>5. t \in Handled /\ t.queue = queue \o es
      BY <3>3, Zero, Zenon DEF Handled
    <3> HIDE DEF t
    <3> QED BY <1>0, <3>2, <3>3, <3>4, <3>5, CompleteLength, NoLongerFits
  <2> QED BY <2>4, <2>5
<1> QED BY <1>1, <1>3, <1>5, <1>6, <1>7 DEF RadioStep, BatchStep

LEMMA LifetimeFits ==
  ASSUME TypeInv, Lifetime
  PROVE  Fits
<1>1. Len(queue) \in Nat
  BY LenProperties DEF TypeInv, TypeOK
<1>2. CASE Crash
  <2>1. queue' = <<>> /\ Len(<<>>) = 0
    BY <1>2, EmptySeq, Zenon DEF Crash, Memory
  <2> QED BY <1>1, <2>1 DEF Fits, Grows
<1> QED BY <1>2 DEF Lifetime, Restart, RestartUnread, Fits, Grows

\* Whatever was pending or fetched when a command or a batch was let in, the
\* queue never grows past the bound of the policy in force (actAdd,
\* refillResults); a bound lowered under its length only stops it from growing.
THEOREM QueueNeverOvergrows == Spec => QueueBounded
<1>1. TypeInv /\ TypeInv' /\ [Next]_vars =>
        [up /\ Len(queue') > Len(queue) => Len(queue') <= MaxQueue]_vars
  BY QueueCommandFits, PlaybackStepFits, RadioStepFits, LifetimeFits DEF Next, Fits, Grows
<1> QED BY <1>1, TypeInvHolds, PTL DEF Spec, QueueBounded

-----------------------------------------------------------------------------
(* The end of what plays *)

\* A step leaves a playing track without its end only as EndKept says.
EndStays ==
  playing' /\ ~EndComing' =>
    /\ playing /\ current' = current
    /\ EndComing =>
         /\ StoreFails
         /\ \/ liveEnd = current /\ liveEnd' = None
            \/ pendingStart /\ ~pendingStart'

\* What an advance starts has its timer.
LEMMA AdvancedKeeps == ASSUME NEW s, NEW reason, Advanced(s, reason) PROVE EndStays
BY DEF Advanced, ArmTimer, EndComing, EndStays

\* A handler that ends without advancing keeps the end that was coming.
LEMMA SettleEnds ==
  ASSUME NEW s, s.live = liveEnd, Settle(s), pendingStart => pendingStart'
  PROVE  EndStays
BY DEF Settle, EndComing, EndStays

\* An advance starts a track, waits for a batch, or is refused by the store.
LEMMA AdvanceEnds ==
  ASSUME NEW s, NEW reason, s.live = liveEnd, Advance(s, reason)
  PROVE  EndStays
<1>1. CASE pendingStart /\ Settle(s) /\ UNCHANGED pendingStart
  BY <1>1, SettleEnds
<1>2. CASE RefillForStart(s, reason)
  BY <1>2 DEF RefillForStart, EndComing, EndStays
<1>3. CASE Advanced(s, reason)
  BY <1>3, AdvancedKeeps
<1>4. CASE Settle(s) /\ UNCHANGED pendingStart
  BY <1>4, SettleEnds
<1> QED BY <1>1, <1>2, <1>3, <1>4 DEF Advance, AdvanceReady

\* The advance of an expired timer: the timer is spent when the store refuses.
LEMMA TimerAdvanceEnds ==
  ASSUME NEW s, NEW reason, s.live = None, liveEnd # None, current \in {liveEnd, None},
         timerFor = None, Advance(s, reason)
  PROVE  EndStays
<1>1. CASE RefillForStart(s, reason) \/ (pendingStart /\ UNCHANGED pendingStart)
  BY <1>1 DEF RefillForStart, EndComing, EndStays
<1>2. CASE Advanced(s, reason)
  BY <1>2, AdvancedKeeps
<1>3. CASE StoreFails /\ Settle(s)
  <2>1. liveEnd' = None /\ playing' = playing /\ current' = current /\ timerFor' = None
    BY <1>3 DEF Settle
  <2>2. CASE current = None
    BY <2>1, <2>2 DEF EndComing, EndStays
  <2>3. CASE current = liveEnd
    BY <1>3, <2>1, <2>3 DEF EndStays
  <2> QED BY <2>2, <2>3
<1> QED BY <1>1, <1>2, <1>3 DEF Advance, AdvanceReady

\* So is the wait for a batch.
LEMMA CompleteEnds ==
  ASSUME NEW s, s.live = liveEnd, CompletePendingStart(s)
  PROVE  EndStays
<1>1. CASE pendingStart /\ Advanced(s, pendingReason)
  BY <1>1, AdvancedKeeps
<1>2. CASE pendingStart /\ ~pendingStart' /\ StoreFails /\ Settle(s)
  BY <1>2 DEF Settle, EndStays
<1>3. CASE ~pendingStart /\ Settle(s)
  BY <1>3, SettleEnds
<1>4. pendingStart => pendingStart' = FALSE
  BY Zenon DEF CompletePendingStart
<1> QED BY <1>1, <1>2, <1>3, <1>4, Zenon DEF CompletePendingStart, AdvanceReady

LEMMA QuietEnds ==
  ASSUME UNCHANGED <<current, playing, timerFor, liveEnd>>, pendingStart => pendingStart'
  PROVE  EndStays
BY DEF EndComing, EndStays

LEMMA QueueCommandEnds ==
  ASSUME QueueCommand
  PROVE  EndStays
<1>1. ASSUME NEW q PROVE Commit(Here, q).live = liveEnd
  BY DEF Commit, Here
<1>2. ASSUME NEW u, NEW es, Add(u, es) PROVE EndStays
  <2> DEFINE s == Commit(Here, queue \o es)
  <2>1. \/ Advance(s, "")
        \/ Settle(s) /\ UNCHANGED <<pendingStart, pendingReason>>
    BY <1>2, Zenon DEF Add
  <2>2. s.live = liveEnd
    BY <1>1
  <2> HIDE DEF s
  <2>3. CASE Advance(s, "")
    BY <2>2, <2>3, AdvanceEnds, Zenon
  <2>4. CASE Settle(s) /\ UNCHANGED <<pendingStart, pendingReason>>
    BY <2>2, <2>4, SettleEnds
  <2> QED BY <2>1, <2>3, <2>4, Zenon
<1>3. ASSUME NEW q, Edit(q) PROVE EndStays
  BY <1>1, <1>3, SettleEnds DEF Edit, batchVars
<1>4. ASSUME NEW p, SetPolicy(p) PROVE EndStays
  BY <1>4, QuietEnds DEF SetPolicy, playVars, batchVars
<1> QED BY <1>2, <1>3, <1>4 DEF QueueCommand, RemoveEntry, MoveEntry, Clear

LEMMA PlaybackStepEnds ==
  ASSUME TypeInv, PlayInv, PlaybackStep
  PROVE  EndStays
<1>1. CASE Skip
  BY <1>1, AdvanceEnds DEF Skip, Here
<1>2. CASE TimerEnd
  <2>1. liveEnd # None /\ current \in {liveEnd, None} /\ timerFor = None
    BY <1>2 DEF TimerEnd, PlayInv, EndOfCurrent
  <2>2. [Here EXCEPT !.live = None].live = None
    BY DEF Here
  <2> QED BY <1>2, <2>1, <2>2, TimerAdvanceEnds DEF TimerEnd
<1>3. ASSUME NEW e, Unplayable(e) PROVE EndStays
  <2>1. [Here EXCEPT !.checks = preflights \ {e}].live = liveEnd
    BY DEF Here
  <2> QED BY <1>3, <2>1, AdvanceEnds DEF Unplayable
<1>4. ASSUME ~playing' \/ (ArmTimer(Here, current) /\ UNCHANGED current) PROVE EndStays
  BY <1>4 DEF ArmTimer, EndComing, EndStays
<1>5. current # None => current \notin Poison
  BY DEF TypeInv, Currents
<1>6. CASE Pause \/ Resume \/ Seek
  BY <1>4, <1>5, <1>6 DEF Pause, Resume, Seek, Control
<1>7. CASE TimerFire
  <2>1. liveEnd' = timerFor /\ timerFor = current /\ UNCHANGED current
    BY <1>7 DEF TimerFire, PlayInv, EndOfCurrent
  <2> QED BY <2>1 DEF EndComing, EndStays
<1>8. ASSUME NEW e, StaleTimerEnd(e) \/ PreflightDone(e) PROVE EndStays
  BY <1>8, QuietEnds DEF StaleTimerEnd, PreflightDone, batchVars
<1> QED BY <1>1, <1>2, <1>3, <1>6, <1>7, <1>8 DEF PlaybackStep

LEMMA RadioStepEnds ==
  ASSUME PlayInv, RadioStep
  PROVE  EndStays
<1>1. CASE RadioPlay \/ SourceCanceled \/ SourceFailed
  BY <1>1, QuietEnds DEF RadioPlay, SourceCanceled, SourceFailed, SourceDone, playVars, batchVars
<1>2. CASE SourceReady
  <2>1. UNCHANGED <<current, playing, timerFor, liveEnd>>
    BY <1>2, Zenon DEF SourceReady, SourceDone
  <2>2. pendingStart' = TRUE \/ UNCHANGED <<pendingStart, pendingReason>>
    BY <1>2, Zenon DEF SourceReady, RefillForStart
  <2> QED BY <2>1, <2>2, QuietEnds
<1>3. CASE RadioStop
  <2>1. [Here EXCEPT !.radio = 0].live = liveEnd
    BY DEF Here
  <2> QED BY <1>3, <2>1, CompleteEnds DEF RadioStop
<1>4. Received.live = liveEnd
  BY DEF Received, Here
<1>5. CASE BatchStale
  <2>1. pendingStart => pendingStart'
    BY <1>5, Zenon DEF BatchStale, PlayInv, PendingStartBound
  <2> QED BY <1>4, <1>5, <2>1, SettleEnds, Zenon DEF BatchStale
<1>6. CASE BatchFailed
  <2>1. [Received EXCEPT !.radio = 0].live = liveEnd
    BY DEF Received, Here
  <2> QED BY <1>6, <2>1, CompleteEnds DEF BatchFailed
<1>7. ASSUME NEW n, NEW exhausted, NEW es, BatchAdded(n, exhausted, es) PROVE EndStays
  <2>1. PICK s : s.live = liveEnd /\ CompletePendingStart(s)
    BY <1>7 DEF BatchAdded, Commit, Received, Here
  <2> QED BY <2>1, CompleteEnds
<1> QED BY <1>1, <1>2, <1>3, <1>5, <1>6, <1>7 DEF RadioStep, SourceStep, BatchStep

LEMMA LifetimeEnds ==
  ASSUME Lifetime
  PROVE  EndStays
<1>1. CASE Crash
  BY <1>1, Zenon DEF Crash, Memory, EndStays
<1>2. CASE Restart
  <2> DEFINE s == [Here EXCEPT !.queue = LoadedQueue]
  <2>1. s.live = liveEnd
    BY DEF Here
  <2>2. \/ current' = LoadedCurrent /\ ArmTimer(Here, LoadedCurrent)
        \/ Advance(s, "resume-after-restart")
        \/ Settle(s) /\ UNCHANGED batchVars
    BY <1>2 DEF Restart
  <2>3. CASE current' = LoadedCurrent /\ ArmTimer(Here, LoadedCurrent)
    BY <2>3 DEF ArmTimer, EndComing, EndStays
  <2> HIDE DEF s
  <2> QED BY <2>1, <2>2, <2>3, AdvanceEnds, SettleEnds DEF batchVars
<1>3. CASE RestartUnread
  BY <1>3, QuietEnds DEF RestartUnread, playVars, batchVars
<1> QED BY <1>1, <1>2, <1>3 DEF Lifetime

\* With writes that fail: no track starts without its end, and a playing track loses
\* its end only to an advance of its own (its timer has expired, or it waited for a
\* batch) that the store refuses; pausing, seeking, skipping, unplayable reports, late
\* timers, radios that come and go, crashes and restarts never cost it (scheduleEnd,
\* refillPendingStart).  An advance that waits counts as an end that is coming.
THEOREM EndIsKept == Spec => EndKept
<1>1. TypeInv /\ PlayInv /\ [Next]_vars => [EndStays]_vars
  BY QueueCommandEnds, PlaybackStepEnds, RadioStepEnds, LifetimeEnds DEF Next
<1>2. [EndStays]_vars => [playing' /\ ~EndComing' =>
                         /\ playing /\ current' = current
                         /\ EndComing =>
                              /\ StoreFails
                              /\ \/ liveEnd = current /\ liveEnd' = None
                                 \/ pendingStart /\ ~pendingStart']_vars
  BY DEF EndStays
<1> QED BY <1>1, <1>2, TypeInvHolds, PlayInvHolds, PTL DEF Spec, EndKept
=============================================================================

--------------------------- MODULE PlaylistsProofs ---------------------------
(***************************************************************************)
(* Proofs about the playlists: the numbers of a playlist have no gap, a    *)
(* bound playlist shows one whole version of its remote playlist and is    *)
(* the only one of it, and a row that names a cover file has one.          *)
(***************************************************************************)
EXTENDS Playlists, FiniteSetTheorems, SequenceTheorems, TLAPS

-----------------------------------------------------------------------------
(* The invariant.                                                          *)

Places == {"home", "create", "sync", "fetch", "replace", "result", "record", "rollback",
           "scan", "add", "remove", "move", "install", "cover", "uncover", "unlink",
           "delete", "detach"}

Ops == {"none", "create", "import", "bind", "sync", "scan", "add", "remove", "move",
        "cover", "uncover", "delete", "detach"}

Row == [remote : Remotes \cup {None}, wait : Nat, path : BOOLEAN]

\* What a handler or the synchroniser holds.
ThreadState ==
  [at : Places, op : Ops, playlist : Nat, gone : BOOLEAN, remote : Remotes \cup {None},
   tracks : Seq(STRING), ord : Nat, to : Nat, path : BOOLEAN, todo : SUBSET Nat]

\* The items are numbered without a gap, from 0 or from 1.
Numbered(list) ==
  \E base \in {0, 1}, n \in Nat : list \in [base..(base + n - 1) -> STRING]

TypeOK ==
  /\ used \in Nat
  /\ DOMAIN rows \subseteq 1..used
  /\ rows \in [DOMAIN rows -> Row]
  /\ items = [p \in Playlists |-> items[p]]
  /\ \A p \in Playlists : Numbered(items[p])
  /\ files \subseteq Nat
  /\ remote \in [Remotes -> Nat]
  /\ \A r \in Remotes : remote[r] # Gone => remote[r] \in DOMAIN Content[r]
  /\ th \in [Actors -> ThreadState]
  /\ synced \subseteq 1..used

\* A playlist that is not made yet has nothing.
Untouched == \A p \in Playlists : p > used => items[p] = << >>

\* The handlers that will make a playlist have an id each.
Creating == {q \in Requests : At(q, "create")}
IdsSuffice == used + Cardinality(Creating) <= MaxPlaylists

Unbound(p) == Exists(p) => rows[p].remote = None

\* What a thread at each place goes by.
Sound(t) ==
  /\ t.at \notin {"home", "create", "scan"} => t.playlist \in 1..used
  /\ t.todo \subseteq 1..used
  /\ t.at = "create" => (t.op = "import" /\ t.remote = None) \/ t.op = "bind"
  /\ t.at \in {"add", "remove", "move"} => Unbound(t.playlist)
  /\ t.at \in {"fetch", "replace"} =>
       /\ t.remote \in Remotes
       /\ Bound(t.playlist) => rows[t.playlist].remote = t.remote
  /\ t.at = "replace" => \E v \in DOMAIN Content[t.remote] : t.tracks = Content[t.remote][v]

ThreadsSound == \A a \in Actors : Sound(th[a])

Covering(t) == t.op \in {"cover", "uncover"}

\* A cover that is uploaded and removed at once is known to be.
Apart(t, u) ==
  t.op = "cover" /\ u.op = "uncover" /\ t.playlist = u.playlist => t.playlist \in raced

CoverThread(t) ==
  /\ t.at \in {"install", "cover"} => t.op = "cover"
  /\ t.at \in {"uncover", "unlink"} => t.op = "uncover"
  /\ t.at = "cover" => t.playlist \in files \cup raced
  /\ t.at = "unlink" /\ Exists(t.playlist) => ~rows[t.playlist].path \/ t.playlist \in raced

CoverInv ==
  /\ \A q \in Requests : CoverThread(th[q])
  /\ \A p, q \in Requests : Apart(th[p], th[q])

PlaylistsInv == TypeOK /\ Untouched /\ IdsSuffice /\ ThreadsSound /\ BoundIsWhole /\ OneBinding

CoversInv == PlaylistsInv /\ CoverInv /\ CoverHasFile
-----------------------------------------------------------------------------
(* Lists of items.                                                         *)

\* The list from base on with n items, for the steps of the proofs.
ListAt(list, base, n) == list \in [base..(base + n - 1) -> STRING]

LEMMA NumberedAt ==
  ASSUME NEW list, NEW base \in {0, 1}, NEW n \in Nat, ListAt(list, base, n)
  PROVE  Numbered(list)
  BY DEF Numbered, ListAt

LEMMA NumberedHas ==
  ASSUME NEW list, Numbered(list)
  PROVE  \E base \in {0, 1}, n \in Nat : ListAt(list, base, n)
  BY DEF Numbered, ListAt

LEMMA EmptyNumbered == Numbered(<< >>)
<1>1. << >> \in [1..0 -> STRING]
  OBVIOUS
<1>2. ListAt(<< >>, 1, 0)
  BY <1>1 DEF ListAt
<1>3. QED
  BY <1>2, NumberedAt

LEMMA EmptyList ==
  ASSUME NEW list, NEW base \in {0, 1}, ListAt(list, base, 0)
  PROVE  list = << >>
<1>1. DOMAIN list = {} /\ list = [x \in DOMAIN list |-> list[x]]
  BY DEF ListAt
<1>2. QED
  BY <1>1

LEMMA OrdsOf ==
  ASSUME NEW list, NEW base \in {0, 1}, NEW n \in Nat, ListAt(list, base, n)
  PROVE  /\ Ords(list) = base..(base + n - 1)
         /\ IsFiniteSet(Ords(list))
         /\ Cardinality(Ords(list)) = n
<1>1. Ords(list) = base..(base + n - 1)
  BY DEF Ords, ListAt
<1>2. base \in Int /\ base + n - 1 \in Int
  OBVIOUS
<1>3. /\ IsFiniteSet(base..(base + n - 1))
      /\ Cardinality(base..(base + n - 1)) = IF base > base + n - 1 THEN 0 ELSE (base + n - 1) - base + 1
  BY <1>2, FS_Interval
<1>4. (IF base > base + n - 1 THEN 0 ELSE (base + n - 1) - base + 1) = n
  OBVIOUS
<1>5. QED
  BY <1>1, <1>3, <1>4

LEMMA GreatestOf ==
  ASSUME NEW base \in {0, 1}, NEW n \in Nat \ {0}
  PROVE  Max(base..(base + n - 1)) = base + n - 1
<1> DEFINE S == base..(base + n - 1)
           Top(x) == x \in S /\ \A y \in S : x >= y
<1>1. Top(base + n - 1)
  OBVIOUS
<1>2. \A x : Top(x) => x = base + n - 1
  OBVIOUS
<1>3. Max(S) = CHOOSE x : Top(x)
  BY DEF Max
<1> HIDE DEF Top
<1>4. Top(CHOOSE x : Top(x))
  BY <1>1
<1>5. QED
  BY <1>2, <1>3, <1>4

\* FromZero numbers from 0.
LEMMA FromZeroNumbers ==
  ASSUME NEW tracks \in Seq(STRING)
  PROVE  Numbered(FromZero(tracks))
<1>1. Len(tracks) \in Nat /\ \A o \in 1..Len(tracks) : tracks[o] \in STRING
  OBVIOUS
<1>2. FromZero(tracks) \in [0..(Len(tracks) - 1) -> STRING]
  BY <1>1 DEF FromZero
<1>3. ListAt(FromZero(tracks), 0, Len(tracks))
  BY <1>1, <1>2 DEF ListAt
<1>4. QED
  BY <1>1, <1>3, NumberedAt

\* Appending continues the numbers.
LEMMA AppendedNumbers ==
  ASSUME NEW list, Numbered(list), NEW tracks \in Seq(STRING)
  PROVE  Numbered(Appended(list, tracks))
<1>1. PICK base \in {0, 1}, n \in Nat : ListAt(list, base, n)
  BY NumberedHas
<1>2. Len(tracks) \in Nat /\ \A o \in 1..Len(tracks) : tracks[o] \in STRING
  OBVIOUS
<1>3. PICK k \in Nat : k = Len(tracks)
  BY <1>2
<1>4. Ords(list) = base..(base + n - 1) /\ \A o \in base..(base + n - 1) : list[o] \in STRING
  BY <1>1, OrdsOf DEF ListAt
<1>5. CASE list = << >>
  <2>1. Ords(list) = {} /\ LastOrd(list) = 0
    BY <1>5 DEF Ords, LastOrd
  <2>2. Appended(list, tracks) \in [1..k -> STRING]
    BY <1>2, <1>3, <2>1 DEF Appended
  <2>3. ListAt(Appended(list, tracks), 1, k)
    BY <2>2 DEF ListAt
  <2>4. QED
    BY <2>3, NumberedAt
<1>6. CASE list # << >>
  <2>1. n # 0
    BY <1>1, <1>6, EmptyList
  <2>2. LastOrd(list) = base + n - 1
    BY <1>4, <1>6, <2>1, GreatestOf DEF LastOrd
  <2>3. Appended(list, tracks) =
          [o \in base..(base + n - 1) \cup (base + n)..(base + n - 1 + k) |->
             IF o \in base..(base + n - 1) THEN list[o] ELSE tracks[o - (base + n - 1)]]
    <3>1. (base + n - 1) + 1 = base + n
      OBVIOUS
    <3>2. QED
      BY <1>3, <1>4, <2>2, <3>1 DEF Appended
  <2>4. base..(base + n - 1) \cup (base + n)..(base + n - 1 + k) = base..(base + (n + k) - 1)
    OBVIOUS
  <2>5. \A o \in base..(base + (n + k) - 1) :
          o \notin base..(base + n - 1) => o - (base + n - 1) \in 1..k
    OBVIOUS
  <2>6. Appended(list, tracks) \in [base..(base + (n + k) - 1) -> STRING]
    BY <1>2, <1>3, <1>4, <2>3, <2>4, <2>5
  <2>7. n + k \in Nat
    OBVIOUS
  <2>8. ListAt(Appended(list, tracks), base, n + k)
    BY <2>6 DEF ListAt
  <2>9. QED
    BY <2>7, <2>8, NumberedAt
<1>7. QED
  BY <1>5, <1>6

\* Deleting closes the gap.
LEMMA ClosedNumbers ==
  ASSUME NEW list, Numbered(list), NEW ord \in Ords(list)
  PROVE  Numbered(Closed(list, ord))
<1>1. PICK base \in {0, 1}, n \in Nat : ListAt(list, base, n)
  BY NumberedHas
<1>2. Ords(list) = base..(base + n - 1) /\ \A o \in base..(base + n - 1) : list[o] \in STRING
  BY <1>1, OrdsOf DEF ListAt
<1>3. n # 0 /\ ord \in base..(base + n - 1)
  BY <1>2
<1> DEFINE kept(o) == IF o > ord THEN o - 1 ELSE o
           D == {kept(k) : k \in Ords(list) \ {ord}}
<1>4. D = base..(base + (n - 1) - 1)
  <2>1. \A k \in (base..(base + n - 1)) \ {ord} : kept(k) \in base..(base + (n - 1) - 1)
    BY <1>3
  <2>2. ASSUME NEW o \in base..(base + (n - 1) - 1)
        PROVE  \E k \in (base..(base + n - 1)) \ {ord} : o = kept(k)
    <3>1. CASE o < ord
      <4>1. o \in (base..(base + n - 1)) \ {ord} /\ o = kept(o)
        BY <1>3, <3>1
      <4>2. QED
        BY <4>1
    <3>2. CASE ~(o < ord)
      <4>1. o + 1 \in (base..(base + n - 1)) \ {ord} /\ o = kept(o + 1)
        BY <1>3, <3>2
      <4>2. QED
        BY <4>1
    <3>3. QED
      BY <3>1, <3>2
  <2> HIDE DEF kept
  <2>3. QED
    BY <1>2, <2>1, <2>2
<1>5. \A o \in base..(base + (n - 1) - 1) : (IF o >= ord THEN list[o + 1] ELSE list[o]) \in STRING
  <2>1. \A o \in base..(base + (n - 1) - 1) :
          o \in base..(base + n - 1) /\ o + 1 \in base..(base + n - 1)
    BY <1>3
  <2>2. QED
    BY <1>2, <2>1
<1>6. Closed(list, ord) = [o \in D |-> IF o >= ord THEN list[o + 1] ELSE list[o]]
  BY DEF Closed
<1> HIDE DEF D
<1>7. Closed(list, ord) \in [base..(base + (n - 1) - 1) -> STRING]
  BY <1>4, <1>5, <1>6
<1>8. n - 1 \in Nat
  BY <1>3
<1>9. ListAt(Closed(list, ord), base, n - 1)
  BY <1>7 DEF ListAt
<1>10. QED
  BY <1>8, <1>9, NumberedAt

\* The items in order are a sequence.
LEMMA ListingIs ==
  ASSUME NEW list, NEW base \in {0, 1}, NEW n \in Nat, ListAt(list, base, n)
  PROVE  Listing(list) \in [1..n -> base..(base + n - 1)]
<1> DEFINE S == base..(base + n - 1)
           Sorted(order) == /\ order \in [1..n -> S]
                            /\ \A i, j \in DOMAIN order : i < j => order[i] < order[j]
<1>1. Ords(list) = S /\ Cardinality(Ords(list)) = n
  BY OrdsOf
<1>2. Listing(list) = CHOOSE order : Sorted(order)
  BY <1>1 DEF Listing
<1>3. Sorted([i \in 1..n |-> base + i - 1])
  OBVIOUS
<1>4. Sorted(CHOOSE order : Sorted(order))
  <2> HIDE DEF Sorted
  <2>1. QED
    BY <1>3
<1>5. QED
  BY <1>2, <1>4

LEMMA RemoveAtIs ==
  ASSUME NEW S, NEW s \in Seq(S), NEW i \in 1..Len(s)
  PROVE  RemoveAt(s, i) \in Seq(S) /\ Len(RemoveAt(s, i)) = Len(s) - 1
<1>1. Len(s) \in Nat /\ \A j \in 1..Len(s) : s[j] \in S
  OBVIOUS
<1>2. /\ SubSeq(s, 1, i - 1) \in Seq(S)
      /\ Len(SubSeq(s, 1, i - 1)) = IF 1 <= i - 1 THEN (i - 1) - 1 + 1 ELSE 0
  <2>1. 1 \in Int /\ i - 1 \in Int /\ \A j \in 1..(i - 1) : s[j] \in S
    BY <1>1
  <2>2. QED
    BY ONLY <2>1, SubSeqProperties
<1>3. /\ SubSeq(s, i + 1, Len(s)) \in Seq(S)
      /\ Len(SubSeq(s, i + 1, Len(s))) = IF i + 1 <= Len(s) THEN Len(s) - (i + 1) + 1 ELSE 0
  <2>1. i + 1 \in Int /\ Len(s) \in Int /\ \A j \in (i + 1)..Len(s) : s[j] \in S
    BY <1>1
  <2>2. QED
    BY ONLY <2>1, SubSeqProperties
<1>4. /\ RemoveAt(s, i) \in Seq(S)
      /\ Len(RemoveAt(s, i)) = Len(SubSeq(s, 1, i - 1)) + Len(SubSeq(s, i + 1, Len(s)))
  BY <1>2, <1>3, ConcatProperties DEF RemoveAt
<1>5. PICK n \in Nat : n = Len(s)
  BY <1>1
<1>6. /\ (IF 1 <= i - 1 THEN (i - 1) - 1 + 1 ELSE 0) = i - 1
      /\ (IF i + 1 <= n THEN n - (i + 1) + 1 ELSE 0) = n - i
  BY <1>5
<1>7. (i - 1) + (n - i) = n - 1
  BY <1>5
<1>8. QED
  BY <1>2, <1>3, <1>4, <1>5, <1>6, <1>7

LEMMA InsertAtIs ==
  ASSUME NEW S, NEW s \in Seq(S), NEW i \in 1..(Len(s) + 1), NEW e \in S
  PROVE  InsertAt(s, i, e) \in Seq(S)
<1>1. Len(s) \in Nat /\ \A j \in 1..Len(s) : s[j] \in S
  OBVIOUS
<1>2. SubSeq(s, 1, i - 1) \in Seq(S)
  <2>1. 1 \in Int /\ i - 1 \in Int /\ \A j \in 1..(i - 1) : s[j] \in S
    BY <1>1
  <2>2. QED
    BY ONLY <2>1, SubSeqProperties
<1>3. SubSeq(s, i, Len(s)) \in Seq(S)
  <2>1. i \in Int /\ Len(s) \in Int /\ \A j \in i..Len(s) : s[j] \in S
    BY <1>1
  <2>2. QED
    BY ONLY <2>1, SubSeqProperties
<1>4. <<e>> \in Seq(S)
  OBVIOUS
<1>5. QED
  BY <1>2, <1>3, <1>4 DEF InsertAt

\* A position is brought into the list.
LEMMA ClampIs ==
  ASSUME NEW list, NEW n \in Nat \ {0}, Cardinality(Ords(list)) = n, NEW to \in Nat
  PROVE  Clamp(to, list) \in 1..n
<1>1. ASSUME NEW a \in Nat, NEW b \in Nat
      PROVE  /\ Min({a, b}) \in {a, b} /\ Min({a, b}) =< b
             /\ Max({a, b}) \in {a, b} /\ Max({a, b}) >= a
  <2> DEFINE Least(x) == x \in {a, b} /\ \A y \in {a, b} : x =< y
             Most(x) == x \in {a, b} /\ \A y \in {a, b} : x >= y
  <2>1. (\E x : Least(x)) /\ (\E x : Most(x))
    <3>1. CASE a =< b
      <4>1. Least(a) /\ Most(b)
        BY <3>1
      <4>2. QED
        BY <4>1
    <3>2. CASE ~(a =< b)
      <4>1. Least(b) /\ Most(a)
        BY <3>2
      <4>2. QED
        BY <4>1
    <3>3. QED
      BY <3>1, <3>2
  <2>2. Min({a, b}) = (CHOOSE x : Least(x)) /\ Max({a, b}) = CHOOSE x : Most(x)
    BY DEF Min, Max
  <2>3. Least(CHOOSE x : Least(x)) /\ Most(CHOOSE x : Most(x))
    <3> HIDE DEF Least, Most
    <3>1. QED
      BY <2>1
  <2>4. QED
    BY <2>2, <2>3
<1>2. PICK low \in Nat : low = Min({to, n}) /\ low =< n
  BY <1>1
<1>3. Max({1, low}) \in {1, low} /\ Max({1, low}) >= 1
  BY <1>1, <1>2
<1>4. Clamp(to, list) = Max({1, low})
  BY <1>2 DEF Clamp
<1>5. QED
  BY <1>2, <1>3, <1>4

\* Moving an item numbers from 1, or changes nothing.
LEMMA MovedNumbers ==
  ASSUME NEW list, Numbered(list), NEW from \in 1..Cardinality(Ords(list)), NEW to \in Nat
  PROVE  Numbered(Moved(list, from, to))
<1>1. PICK base \in {0, 1}, n \in Nat : ListAt(list, base, n)
  BY NumberedHas
<1>2. /\ Ords(list) = base..(base + n - 1)
      /\ Cardinality(Ords(list)) = n
      /\ \A o \in base..(base + n - 1) : list[o] \in STRING
  BY <1>1, OrdsOf DEF ListAt
<1> DEFINE S == base..(base + n - 1)
           order == Listing(list)
           target == InsertAt(RemoveAt(order, from), Clamp(to, list), order[from])
<1>3. order \in [1..n -> S]
  BY <1>1, ListingIs
<1>4. from \in 1..n
  BY <1>2
<1>5. Clamp(to, list) \in 1..n
  BY <1>2, <1>4, ClampIs
<1>6. order \in Seq(S) /\ order[from] \in S /\ Len(order) = n
  <2> HIDE DEF order, S
  <2>1. QED
    BY <1>3, <1>4
<1> HIDE DEF order, S
<1>7. target \in Seq(S)
  <2>1. RemoveAt(order, from) \in Seq(S) /\ Len(RemoveAt(order, from)) = n - 1
    BY <1>4, <1>6, RemoveAtIs
  <2>2. Clamp(to, list) \in 1..(Len(RemoveAt(order, from)) + 1)
    BY <1>5, <2>1
  <2>3. QED
    BY <1>6, <2>1, <2>2, InsertAtIs
<1> HIDE DEF target
<1>8. Len(target) \in Nat /\ \A o \in 1..Len(target) : target[o] \in S
  BY <1>7
<1>9. CASE from = Clamp(to, list)
  BY <1>9 DEF Moved
<1>10. CASE from # Clamp(to, list)
  <2>1. Moved(list, from, to) = [o \in 1..Len(target) |-> list[target[o]]]
    BY <1>10 DEF Moved, target, order
  <2>2. Moved(list, from, to) \in [1..Len(target) -> STRING]
    BY <1>2, <1>8, <2>1 DEF S
  <2>3. ListAt(Moved(list, from, to), 1, Len(target))
    <3>1. 1 + Len(target) - 1 = Len(target)
      BY <1>8
    <3>2. QED
      BY <2>2, <3>1 DEF ListAt
  <2>4. QED
    BY <1>8, <2>3, NumberedAt
<1>11. QED
  BY <1>9, <1>10

\* What has numbers without a gap is contiguous.
LEMMA NumberedContiguous ==
  ASSUME NEW list, Numbered(list)
  PROVE  \E base \in {0, 1} : Ords(list) = base..(base + Cardinality(Ords(list)) - 1)
<1>1. PICK base \in {0, 1}, n \in Nat : ListAt(list, base, n)
  BY NumberedHas
<1>2. QED
  BY <1>1, OrdsOf

-----------------------------------------------------------------------------
(* Steps.                                                                  *)

\* Thread a goes on with t.
Moves(a, t) == th' = [th EXCEPT ![a] = t]

\* No playlist comes, and no row gets a binding.
Follows ==
  /\ used' = used
  /\ DOMAIN rows' \subseteq DOMAIN rows
  /\ rows' \in [DOMAIN rows' -> Row]
  /\ \A p \in DOMAIN rows' : rows'[p].remote \in {rows[p].remote, None}

\* The same of the playlists there are already.
Ages ==
  /\ used' \in {used, used + 1}
  /\ \A p \in 1..used : p \in DOMAIN rows' =>
       p \in DOMAIN rows /\ rows'[p].remote \in {rows[p].remote, None}

\* Items change where playlists are, and keep their numbers.
ItemsSound ==
  /\ items' = [p \in Playlists |-> items'[p]]
  /\ \A p \in Playlists : Numbered(items'[p])
  /\ \A p \in Playlists : p > used => items'[p] = items[p]

\* The items of a bound playlist stay.
WholeStays ==
  /\ synced' = synced
  /\ \A p \in DOMAIN rows' : rows'[p].remote # None => items'[p] = items[p]

RemoteSound ==
  /\ remote' \in [Remotes -> Nat]
  /\ \A r \in Remotes : remote'[r] # Gone => remote'[r] \in DOMAIN Content[r]

LEMMA HomeState == Home \in ThreadState
  BY DEF Home, ThreadState, Places, Ops

LEMMA HomeSound == ASSUME used \in Nat PROVE Sound(Home)
  BY DEF Home, Sound

LEMMA IdsIn ==
  ASSUME TypeOK, IdsSuffice
  PROVE  /\ IsFiniteSet(Creating) /\ Cardinality(Creating) \in Nat
         /\ MaxPlaylists \in Nat /\ used \in Nat /\ used <= MaxPlaylists
         /\ 1..used \subseteq Playlists
<1>1. IsFiniteSet(Creating)
  <2>1. IsFiniteSet(Requests) /\ Creating \in SUBSET Requests
    BY PlaylistsAssumption DEF Creating
  <2>2. QED
    BY <2>1, FS_Subset
<1>2. Cardinality(Creating) \in Nat
  BY <1>1, FS_CardinalityType
<1>3. MaxPlaylists \in Nat /\ used \in Nat
  BY PlaylistsAssumption DEF TypeOK
<1>4. used <= MaxPlaylists
  BY <1>2, <1>3 DEF IdsSuffice
<1>5. QED
  BY <1>1, <1>2, <1>3, <1>4 DEF Playlists

LEMMA FollowsAges == ASSUME TypeOK, Follows PROVE Ages
  BY DEF Follows, Ages, TypeOK

\* What a thread goes by stays true while others act.
LEMMA SoundStays ==
  ASSUME TypeOK, Ages, NEW t \in ThreadState, Sound(t)
  PROVE  Sound(t)'
<1>1. used \in Nat /\ used' \in Nat /\ 1..used \subseteq 1..used'
  BY DEF TypeOK, Ages
<1>2. t.at \notin {"home", "create", "scan"} => t.playlist \in 1..used
  BY DEF Sound
<1>3. ASSUME t.at \in {"add", "remove", "move"} PROVE Unbound(t.playlist)'
  <2>1. t.playlist \in 1..used /\ Unbound(t.playlist)
    BY <1>2, <1>3 DEF Sound
  <2>2. QED
    BY <2>1 DEF Ages, Unbound, Exists
<1>4. ASSUME t.at \in {"fetch", "replace"}
      PROVE  t.remote \in Remotes /\ (Bound(t.playlist)' => rows'[t.playlist].remote = t.remote)
  <2>1. /\ t.playlist \in 1..used /\ t.remote \in Remotes
        /\ Bound(t.playlist) => rows[t.playlist].remote = t.remote
    BY <1>2, <1>4 DEF Sound
  <2>2. QED
    BY <2>1 DEF Ages, Bound, Exists
<1>5. QED
  BY <1>1, <1>2, <1>3, <1>4 DEF Sound

LEMMA MovesTo ==
  ASSUME TypeOK, NEW a \in Actors, NEW t \in ThreadState, Moves(a, t)
  PROVE  /\ th' \in [Actors -> ThreadState]
         /\ th'[a] = t
         /\ \A b \in Actors : b # a => th'[b] = th[b]
  BY DEF TypeOK, Moves

LEMMA ThreadsStay ==
  ASSUME TypeOK, ThreadsSound, Ages, NEW a \in Actors, NEW t \in ThreadState, Moves(a, t),
         Sound(t)'
  PROVE  ThreadsSound'
<1>1. /\ th'[a] = t
      /\ \A b \in Actors : b # a => th'[b] = th[b]
  BY MovesTo
<1>2. ASSUME NEW b \in Actors PROVE Sound(th[b])' \/ b = a
  <2>1. CASE b # a
    <3>1. PICK u \in ThreadState : u = th[b] /\ Sound(u)
      BY DEF TypeOK, ThreadsSound
    <3>2. Sound(u)'
      BY <3>1, SoundStays
    <3>3. u = th'[b]
      BY <1>1, <2>1, <3>1
    <3>4. QED
      BY <3>2, <3>3
  <2>2. QED
    BY <2>1
<1>3. Sound(th[a])'
  BY <1>1
<1>4. QED
  BY <1>2, <1>3 DEF ThreadsSound

\* The ids suffice for those who wait for one.
LEMMA IdsStay ==
  ASSUME TypeOK, IdsSuffice, NEW a \in Actors, NEW t \in ThreadState, Moves(a, t),
         used' = used, t.at = "create" => th[a].at = "create" \/ IdLeft
  PROVE  IdsSuffice'
<1>1. /\ th'[a] = t
      /\ \A b \in Actors : b # a => th'[b] = th[b]
  BY MovesTo
<1>2. /\ IsFiniteSet(Creating) /\ Cardinality(Creating) \in Nat
      /\ MaxPlaylists \in Nat /\ used \in Nat
  BY IdsIn
<1>3. CASE t.at = "create" => th[a].at = "create"
  <2>1. Creating' \in SUBSET Creating
    BY <1>1, <1>3 DEF Creating, At, Actors
  <2>2. Cardinality(Creating') \in Nat /\ Cardinality(Creating') <= Cardinality(Creating)
    BY <1>2, <2>1, FS_Subset, FS_CardinalityType
  <2>3. QED
    BY <1>2, <2>2 DEF IdsSuffice
<1>4. CASE IdLeft
  <2>1. Creating' \in SUBSET (Creating \cup {a})
    BY <1>1 DEF Creating, At, Actors
  <2>2. /\ IsFiniteSet(Creating \cup {a})
        /\ Cardinality(Creating \cup {a}) \in Nat
        /\ Cardinality(Creating \cup {a}) <= Cardinality(Creating) + 1
    <3>1. /\ IsFiniteSet(Creating \cup {a})
          /\ Cardinality(Creating \cup {a}) =
               IF a \in Creating THEN Cardinality(Creating) ELSE Cardinality(Creating) + 1
      BY <1>2, FS_AddElement
    <3>2. QED
      BY <1>2, <3>1
  <2>3. Cardinality(Creating') \in Nat
        /\ Cardinality(Creating') <= Cardinality(Creating \cup {a})
    BY <2>1, <2>2, FS_Subset, FS_CardinalityType
  <2>4. used + Cardinality(Creating) < MaxPlaylists
    BY <1>4 DEF IdLeft, Creating
  <2>5. used' + Cardinality(Creating') <= MaxPlaylists
    BY <1>2, <2>2, <2>3, <2>4
  <2>6. QED
    BY <2>5 DEF IdsSuffice
<1>5. QED
  BY <1>3, <1>4

LEMMA BindingsStay ==
  ASSUME TypeOK, OneBinding, Follows
  PROVE  OneBinding'
<1>1. \A p \in DOMAIN rows' :
        Bound(p)' => p \in DOMAIN rows /\ Bound(p) /\ rows'[p].remote = rows[p].remote
  BY DEF Follows, Bound, Exists
<1>2. ASSUME NEW p \in DOMAIN rows', NEW q \in DOMAIN rows', Bound(p)',
             rows'[p].remote = rows'[q].remote
      PROVE  p = q
  <2>1. Bound(q)'
    BY <1>2 DEF Bound, Exists
  <2>2. QED
    BY <1>1, <1>2, <2>1 DEF OneBinding
<1>3. QED
  BY <1>2 DEF OneBinding

LEMMA WholeStep ==
  ASSUME TypeOK, BoundIsWhole, Follows, WholeStays
  PROVE  BoundIsWhole'
<1>1. ASSUME NEW p \in DOMAIN rows', Bound(p)'
      PROVE  /\ p \in DOMAIN rows /\ Bound(p) /\ rows'[p].remote = rows[p].remote
             /\ items'[p] = items[p] /\ synced' = synced
  BY <1>1 DEF Follows, Bound, Exists, WholeStays
<1>2. QED
  BY <1>1 DEF BoundIsWhole

\* A step of one thread that makes no playlist.
LEMMA ThreadStep ==
  ASSUME PlaylistsInv, NEW a \in Actors, NEW t \in ThreadState, Moves(a, t), Sound(t),
         t.at = "create" => th[a].at = "create" \/ IdLeft,
         Follows, ItemsSound, RemoteSound, files' \subseteq Nat, synced' \subseteq 1..used,
         BoundIsWhole'
  PROVE  PlaylistsInv'
<1> USE DEF PlaylistsInv
<1>1. Ages
  BY FollowsAges
<1>2. TypeOK'
  <2>1. th' \in [Actors -> ThreadState]
    BY MovesTo
  <2>2. used' \in Nat /\ DOMAIN rows' \subseteq 1..used' /\ rows' \in [DOMAIN rows' -> Row]
        /\ used' = used
    BY DEF TypeOK, Follows
  <2>3. QED
    BY <2>1, <2>2 DEF TypeOK, ItemsSound, RemoteSound
<1>3. Untouched'
  BY DEF Untouched, Follows, ItemsSound
<1>4. IdsSuffice'
  BY IdsStay DEF Follows
<1>5. ThreadsSound'
  BY <1>1, SoundStays, ThreadsStay
<1>6. OneBinding'
  BY BindingsStay
<1>7. QED
  BY <1>2, <1>3, <1>4, <1>5, <1>6

\* A step of one thread that leaves the tables as they are.
LEMMA StillStep ==
  ASSUME PlaylistsInv, NEW a \in Actors, NEW t \in ThreadState, Moves(a, t), Sound(t),
         t.at = "create" => th[a].at = "create" \/ IdLeft,
         UNCHANGED <<tables, remote, synced>>
  PROVE  PlaylistsInv'
<1>1. Follows
  BY DEF Follows, tables, PlaylistsInv, TypeOK
<1>2. ItemsSound /\ WholeStays
  BY DEF ItemsSound, WholeStays, tables, PlaylistsInv, TypeOK
<1>3. RemoteSound /\ files' \subseteq Nat /\ synced' \subseteq 1..used
  BY DEF RemoteSound, tables, PlaylistsInv, TypeOK
<1>4. BoundIsWhole'
  BY <1>1, <1>2, WholeStep DEF PlaylistsInv
<1>5. QED
  BY <1>1, <1>2, <1>3, <1>4, ThreadStep

\* A step of one thread that changes rows and lets the items be.
LEMMA RowStep ==
  ASSUME PlaylistsInv, NEW a \in Actors, NEW t \in ThreadState, Moves(a, t), Sound(t),
         t.at # "create", Follows, UNCHANGED <<items, remote, synced>>, files' \subseteq Nat
  PROVE  PlaylistsInv'
<1>2. ItemsSound /\ WholeStays
  BY DEF ItemsSound, WholeStays, PlaylistsInv, TypeOK
<1>3. RemoteSound /\ synced' \subseteq 1..used
  BY DEF RemoteSound, PlaylistsInv, TypeOK
<1>4. BoundIsWhole'
  BY <1>2, WholeStep DEF PlaylistsInv
<1>5. QED
  BY <1>2, <1>3, <1>4, ThreadStep

\* A step of one thread that changes the items of a playlist without binding.
LEMMA ItemStep ==
  ASSUME PlaylistsInv, NEW a \in Actors, NEW t \in ThreadState, Moves(a, t), Sound(t),
         t.at # "create", NEW p \in 1..used, NEW list, Numbered(list),
         items' = [items EXCEPT ![p] = list],
         Follows, p \in DOMAIN rows' => rows'[p].remote = None,
         UNCHANGED <<files, remote, synced>>
  PROVE  PlaylistsInv'
<1>1. p \in Playlists /\ used \in Nat
  BY IdsIn DEF PlaylistsInv
<1>2. items = [q \in Playlists |-> items[q]]
  BY DEF PlaylistsInv, TypeOK
<1>3. /\ items' = [q \in Playlists |-> items'[q]]
      /\ \A q \in Playlists : items'[q] = IF q = p THEN list ELSE items[q]
  BY <1>1, <1>2
<1>4. ItemsSound
  BY <1>1, <1>3 DEF ItemsSound, PlaylistsInv, TypeOK
<1>5. WholeStays
  <2>1. DOMAIN rows' \subseteq Playlists
    BY IdsIn DEF PlaylistsInv, TypeOK, Follows
  <2>2. QED
    BY <1>3, <2>1 DEF WholeStays
<1>6. RemoteSound /\ files' \subseteq Nat /\ synced' \subseteq 1..used
  BY DEF RemoteSound, PlaylistsInv, TypeOK
<1>7. BoundIsWhole'
  BY <1>5, WholeStep DEF PlaylistsInv
<1>8. QED
  BY <1>4, <1>6, <1>7, ThreadStep

\* A playlist comes.
LEMMA InsertStep ==
  ASSUME PlaylistsInv, NEW a \in Requests, NEW t \in ThreadState, Moves(a, t), Sound(t)',
         NEW r \in Remotes \cup {None}, r # None => Bindable(r), Insert(used + 1, r),
         \/ t.at = th[a].at /\ IdLeft
         \/ th[a].at = "create" /\ t.at # "create",
         UNCHANGED <<items, files, remote, synced>>
  PROVE  PlaylistsInv'
<1> USE DEF PlaylistsInv
<1> DEFINE p == used + 1
<1>1. /\ IsFiniteSet(Creating) /\ Cardinality(Creating) \in Nat
      /\ MaxPlaylists \in Nat /\ used \in Nat
  BY IdsIn
<1>2. /\ used' = p /\ p \in Nat /\ p \notin 1..used /\ 1..used \subseteq 1..p
      /\ p \in 1..p /\ p \notin DOMAIN rows
  BY <1>1 DEF Insert, TypeOK
<1>3. /\ DOMAIN rows' = DOMAIN rows \cup {p}
      /\ rows'[p] = [remote |-> r, wait |-> 0, path |-> FALSE]
      /\ \A q \in DOMAIN rows : rows'[q] = rows[q] /\ q # p
      /\ rows' = [q \in DOMAIN rows' |-> rows'[q]]
  <2>1. rows' = [q \in DOMAIN rows \cup {p} |->
                   IF q = p THEN [remote |-> r, wait |-> 0, path |-> FALSE] ELSE rows[q]]
    BY DEF Insert
  <2>2. QED
    BY <1>2, <2>1
<1>4. a \in Actors
  BY DEF Actors
<1>5. /\ th' \in [Actors -> ThreadState]
      /\ th'[a] = t
      /\ \A b \in Actors : b # a => th'[b] = th[b]
  BY <1>4, MovesTo
<1> HIDE DEF p
<1>6. TypeOK'
  <2>1. DOMAIN rows' \subseteq 1..used' /\ used' \in Nat /\ synced' \subseteq 1..used'
    BY <1>2, <1>3 DEF TypeOK
  <2>2. [remote |-> r, wait |-> 0, path |-> FALSE] \in Row
    BY DEF Row
  <2>3. rows' \in [DOMAIN rows' -> Row]
    BY <1>3, <2>2 DEF TypeOK
  <2>4. QED
    BY <1>5, <2>1, <2>3 DEF TypeOK
<1>7. Untouched'
  BY <1>1, <1>2 DEF Untouched, Playlists, p
<1>8. IdsSuffice'
  <2>1. CASE t.at = th[a].at /\ IdLeft
    <3>1. Creating' = Creating
      BY <1>5, <2>1 DEF Creating, At, Actors
    <3>2. used + Cardinality(Creating) < MaxPlaylists
      BY <2>1 DEF IdLeft, Creating
    <3>3. QED
      BY <1>1, <1>2, <3>1, <3>2 DEF IdsSuffice, p
  <2>2. CASE th[a].at = "create" /\ t.at # "create"
    <3>1. Creating' = Creating \ {a} /\ a \in Creating
      BY <1>5, <2>2 DEF Creating, At, Actors
    <3>2. Cardinality(Creating \ {a}) = Cardinality(Creating) - 1
      BY <1>1, <3>1, FS_RemoveElement
    <3>3. used + Cardinality(Creating) <= MaxPlaylists
      BY DEF IdsSuffice
    <3>4. used' + Cardinality(Creating') = used + Cardinality(Creating)
      BY <1>1, <1>2, <3>1, <3>2 DEF p
    <3>5. QED
      BY <3>3, <3>4 DEF IdsSuffice
  <2>3. QED
    BY <2>1, <2>2
<1>9. ThreadsSound'
  <2>1. Ages
    BY <1>2, <1>3 DEF Ages, p
  <2>2. QED
    BY <1>4, <2>1, ThreadsStay
<1>10. BoundIsWhole'
  <2>1. ASSUME NEW q \in DOMAIN rows', Bound(q)', q # p
        PROVE  q \in DOMAIN rows /\ Bound(q) /\ rows'[q] = rows[q]
    BY <1>3, <2>1 DEF Bound, Exists
  <2>2. p \notin synced' /\ items'[p] = << >>
    <3>1. p \in Playlists
      <4>1. p <= MaxPlaylists
        <5>1. CASE IdLeft
          <6>1. used + Cardinality(Creating) < MaxPlaylists
            BY <5>1 DEF IdLeft, Creating
          <6>2. QED
            BY <1>1, <6>1 DEF p
        <5>2. CASE th[a].at = "create"
          <6>1. Creating # {}
            BY <5>2 DEF Creating, At
          <6>2. Cardinality(Creating) # 0
            BY <1>1, <6>1, FS_EmptySet
          <6>3. used + Cardinality(Creating) <= MaxPlaylists
            BY DEF IdsSuffice
          <6>4. QED
            BY <1>1, <6>2, <6>3 DEF p
        <5>3. QED
          BY <5>1, <5>2
      <4>2. QED
        BY <1>1, <4>1 DEF p, Playlists
    <3>2. p > used
      BY <1>1 DEF p
    <3>3. QED
      BY <1>2, <3>1, <3>2 DEF Untouched, TypeOK
  <2>3. QED
    BY <2>1, <2>2 DEF BoundIsWhole
<1>11. OneBinding'
  <2>1. ASSUME NEW q \in DOMAIN rows', NEW u \in DOMAIN rows', Bound(q)',
               rows'[q].remote = rows'[u].remote, q # u
        PROVE  FALSE
    <3>1. CASE q # p /\ u # p
      BY <1>3, <2>1, <3>1 DEF OneBinding, Bound, Exists
    <3>2. CASE q = p
      BY <1>3, <2>1, <3>2 DEF Bindable, Bound, Exists
    <3>3. CASE u = p
      BY <1>3, <2>1, <3>3 DEF Bindable, Bound, Exists
    <3>4. QED
      BY <3>1, <3>2, <3>3
  <2>2. QED
    BY <2>1 DEF OneBinding
<1>12. QED
  BY <1>6, <1>7, <1>8, <1>9, <1>10, <1>11

-----------------------------------------------------------------------------
(* Every action keeps PlaylistsInv.                                        *)

\* The thread of an actor, and the rows, as records.
LEMMA ThreadIs ==
  ASSUME PlaylistsInv, NEW a \in Actors
  PROVE  th[a] \in ThreadState /\ Sound(th[a])
  BY DEF PlaylistsInv, TypeOK, ThreadsSound

LEMMA StaysPut ==
  ASSUME PlaylistsInv, NEW a \in Actors, UNCHANGED th
  PROVE  Moves(a, th[a])
  BY DEF PlaylistsInv, TypeOK, Moves

LEMMA NewThread ==
  ASSUME NEW op \in Ops, NEW at \in Places, NEW p \in Nat
  PROVE  /\ Thread(op, at, p) \in ThreadState
         /\ Thread(op, at, p).at = at
         /\ Thread(op, at, p).op = op
         /\ Thread(op, at, p).playlist = p
         /\ Thread(op, at, p).todo = {}
         /\ Thread(op, at, p).remote = None
<1>1. Home \in ThreadState /\ Home.todo = {} /\ Home.remote = None
  BY HomeState DEF Home
<1>2. QED
  BY <1>1 DEF Thread, ThreadState

LEMMA AnswerStep ==
  ASSUME PlaylistsInv, NEW a \in Actors, Answer(a)
  PROVE  Home \in ThreadState /\ Moves(a, Home) /\ Sound(Home) /\ Home.at # "create"
<1>1. used \in Nat
  BY DEF PlaylistsInv, TypeOK
<1>2. QED
  BY <1>1, HomeState, HomeSound DEF Answer, Moves, Home

\* A thread that only goes to another place.
LEMMA GotoStep ==
  ASSUME PlaylistsInv, NEW a \in Actors, th[a].at \notin {"home", "create", "scan"},
         NEW place \in {"record", "result", "rollback", "cover", "unlink"}, Goto(a, place)
  PROVE  \E t \in ThreadState :
           Moves(a, t) /\ Sound(t) /\ t = [th[a] EXCEPT !.at = place] /\ t.at = place
<1> DEFINE t == [th[a] EXCEPT !.at = place]
<1>1. th[a] \in ThreadState /\ Sound(th[a])
  BY ThreadIs
<1>2. t \in ThreadState /\ t.at = place /\ t.playlist = th[a].playlist /\ t.todo = th[a].todo
  BY <1>1 DEF ThreadState, Places
<1>3. Moves(a, t)
  BY DEF Goto, Moves
<1> HIDE DEF t
<1>4. Sound(t)
  BY <1>1, <1>2 DEF Sound
<1>5. QED
  BY <1>2, <1>3, <1>4 DEF t

LEMMA ArriveKeeps ==
  ASSUME PlaylistsInv, NEW q \in Requests, Arrive(q)
  PROVE  PlaylistsInv'
<1>1. q \in Actors
  BY DEF Actors
<1>2. th[q] \in ThreadState /\ Sound(th[q]) /\ used \in Nat
  BY <1>1, ThreadIs DEF PlaylistsInv, TypeOK
<1>3. CASE CreatePlaylist(q)
  <2>1. Moves(q, th[q])
    BY <1>1, <1>3, StaysPut DEF CreatePlaylist
  <2>2. Insert(used + 1, None) /\ IdLeft /\ UNCHANGED <<items, files, remote, synced>>
    BY <1>3 DEF CreatePlaylist
  <2>3. Ages
    BY <1>2, <2>2 DEF Ages, Insert
  <2>4. Sound(th[q])'
    <3>1. PICK u \in ThreadState : u = th[q] /\ Sound(u)
      BY <1>2
    <3>2. Sound(u)'
      BY <2>3, <3>1, SoundStays DEF PlaylistsInv
    <3>3. u = th'[q]
      BY <1>3, <3>1 DEF CreatePlaylist
    <3>4. QED
      BY <3>2, <3>3
  <2>5. PICK u \in ThreadState : u = th[q] /\ Moves(q, u) /\ Sound(u)'
    <3>1. PICK u \in ThreadState : u = th[q]
      BY <1>2
    <3>2. u = th'[q]
      BY <1>3, <3>1 DEF CreatePlaylist
    <3>3. Sound(u)'
      BY <2>4, <3>2
    <3>4. QED
      BY <2>1, <3>1, <3>3
  <2>6. QED
    BY <2>2, <2>5, InsertStep
<1>4. CASE \E r \in Remotes : ImportPlaylist(q, r)
  <2>1. PICK r \in Remotes : ImportPlaylist(q, r)
    BY <1>4
  <2>2. Content[r][remote[r]] \in Seq(STRING)
    <3>1. remote[r] \in DOMAIN Content[r]
      BY <2>1 DEF ImportPlaylist, PlaylistsInv, TypeOK
    <3>2. QED
      BY <3>1, PlaylistsAssumption
  <2> DEFINE n == Thread("import", "create", 0)
             t == [n EXCEPT !.tracks = Content[r][remote[r]]]
  <2>3. n \in ThreadState /\ n.at = "create" /\ n.op = "import" /\ n.todo = {} /\ n.remote = None
    BY NewThread DEF Ops, Places
  <2>4. Moves(q, t) /\ IdLeft /\ UNCHANGED <<tables, remote, synced>>
    BY <2>1 DEF ImportPlaylist, Moves
  <2> HIDE DEF n
  <2>5. t \in ThreadState /\ t.at = "create" /\ t.op = "import" /\ t.todo = {} /\ t.remote = None
    BY <2>2, <2>3 DEF ThreadState
  <2> HIDE DEF t
  <2>6. Sound(t)
    BY <2>5 DEF Sound
  <2>7. QED
    BY <1>1, <2>4, <2>5, <2>6, StillStep
<1>5. CASE \E r \in Remotes : BindPlaylist(q, r)
  <2>1. PICK r \in Remotes : BindPlaylist(q, r)
    BY <1>5
  <2> DEFINE n == Thread("bind", "create", 0)
             t == [n EXCEPT !.remote = r]
  <2>3. n \in ThreadState /\ n.at = "create" /\ n.op = "bind" /\ n.todo = {}
    BY NewThread DEF Ops, Places
  <2>4. Moves(q, t) /\ IdLeft /\ UNCHANGED <<tables, remote, synced>>
    BY <2>1 DEF BindPlaylist, Moves
  <2> HIDE DEF n
  <2>5. t \in ThreadState /\ t.at = "create" /\ t.op = "bind" /\ t.todo = {}
    BY <2>1, <2>3 DEF ThreadState
  <2> HIDE DEF t
  <2>6. Sound(t)
    BY <2>5 DEF Sound
  <2>7. QED
    BY <1>1, <2>4, <2>5, <2>6, StillStep
<1>6. CASE \E p \in Playlists : SyncPlaylist(q, p)
  <2>1. PICK p \in Playlists : SyncPlaylist(q, p)
    BY <1>6
  <2>2. p \in 1..used /\ p \in Nat
    BY <2>1 DEF SyncPlaylist, Bound, Exists, PlaylistsInv, TypeOK
  <2> DEFINE t == Thread("sync", "sync", p)
  <2>3. t \in ThreadState /\ t.at = "sync" /\ t.playlist = p /\ t.todo = {}
    BY <2>2, NewThread DEF Ops, Places
  <2>4. Moves(q, t) /\ UNCHANGED <<tables, remote, synced>>
    BY <2>1 DEF SyncPlaylist, Moves
  <2> HIDE DEF t
  <2>5. Sound(t)
    BY <2>2, <2>3 DEF Sound
  <2>6. QED
    BY <1>1, <2>3, <2>4, <2>5, StillStep
<1>7. CASE \E p \in Playlists : \E op \in DOMAIN Writes : Manage(q, op, p)
  <2>1. PICK p \in Playlists, op \in DOMAIN Writes : Manage(q, op, p)
    BY <1>7
  <2>2. p \in 1..used /\ p \in Nat /\ rows[p] \in Row
    BY <2>1 DEF Manage, Exists, PlaylistsInv, TypeOK
  <2>3. /\ DOMAIN Writes = {"add", "remove", "move", "cover", "uncover", "delete", "detach"}
        /\ op \in Ops
        /\ Writes[op] \in Places \ {"home", "create", "scan", "fetch", "replace"}
        /\ Writes[op] \in {"add", "remove", "move"} => op \in {"add", "remove", "move"}
    <3>1. DOMAIN Writes = {"add", "remove", "move", "cover", "uncover", "delete", "detach"}
      BY DEF Writes
    <3>2. QED
      BY <3>1 DEF Writes, Ops, Places
  <2> DEFINE n == Thread(op, Writes[op], p)
  <2>4. n \in ThreadState /\ n.at = Writes[op] /\ n.playlist = p /\ n.todo = {}
    BY <2>2, <2>3, NewThread
  <2>5. PICK x \in Tracks, ord \in 0..MaxItems, to \in 1..MaxItems :
          Moves(q, CASE op = "add" -> [n EXCEPT !.tracks = <<x>>]
                     [] op = "remove" -> [n EXCEPT !.ord = ord]
                     [] op = "move" -> [n EXCEPT !.ord = ord, !.to = to]
                     [] op = "uncover" -> [n EXCEPT !.path = rows[p].path]
                     [] OTHER -> n)
    BY <2>1 DEF Manage, Moves
  <2>6. <<x>> \in Seq(STRING) /\ ord \in Nat /\ to \in Nat /\ rows[p].path \in BOOLEAN
    BY <2>2, PlaylistsAssumption DEF Row
  <2> HIDE DEF n
  <2>7. \E t \in ThreadState : Moves(q, t) /\ t.at = n.at /\ t.playlist = n.playlist /\ t.todo = n.todo
    <3>1. CASE op = "add"
      <4>1. [n EXCEPT !.tracks = <<x>>] \in ThreadState
        BY <2>4, <2>6 DEF ThreadState
      <4>2. Moves(q, [n EXCEPT !.tracks = <<x>>])
        BY <2>5, <3>1
      <4>3. QED
        BY <4>1, <4>2, <2>4 DEF ThreadState
    <3>2. CASE op = "remove"
      <4>1. [n EXCEPT !.ord = ord] \in ThreadState
        BY <2>4, <2>6 DEF ThreadState
      <4>2. Moves(q, [n EXCEPT !.ord = ord])
        BY <2>5, <3>2
      <4>3. QED
        BY <4>1, <4>2, <2>4 DEF ThreadState
    <3>3. CASE op = "move"
      <4>1. [n EXCEPT !.ord = ord, !.to = to] \in ThreadState
        BY <2>4, <2>6 DEF ThreadState
      <4>2. Moves(q, [n EXCEPT !.ord = ord, !.to = to])
        BY <2>5, <3>3
      <4>3. QED
        BY <4>1, <4>2, <2>4 DEF ThreadState
    <3>4. CASE op = "uncover"
      <4>1. [n EXCEPT !.path = rows[p].path] \in ThreadState
        BY <2>4, <2>6 DEF ThreadState
      <4>2. Moves(q, [n EXCEPT !.path = rows[p].path])
        BY <2>5, <3>4
      <4>3. QED
        BY <4>1, <4>2, <2>4 DEF ThreadState
    <3>5. CASE op \notin {"add", "remove", "move", "uncover"}
      <4>1. Moves(q, n)
        BY <2>5, <3>5
      <4>2. QED
        BY <4>1, <2>4
    <3>6. QED
      BY <3>1, <3>2, <3>3, <3>4, <3>5
  <2>8. PICK t \in ThreadState : /\ Moves(q, t) /\ t.at = Writes[op]
                                 /\ t.playlist = p /\ t.todo = {}
    BY <2>4, <2>7
  <2>9. t.at \in {"add", "remove", "move"} => Unbound(p)
    <3>1. op \in {"add", "remove", "move"} => Editable(p)
      BY <2>1 DEF Manage
    <3>2. QED
      BY <2>3, <2>8, <3>1 DEF Editable, Unbound
  <2>10. Sound(t)
    BY <2>2, <2>3, <2>8, <2>9 DEF Sound
  <2>11. UNCHANGED <<tables, remote, synced>> /\ t.at # "create"
    BY <2>1, <2>3, <2>8 DEF Manage
  <2>12. QED
    BY <1>1, <2>8, <2>10, <2>11, StillStep
<1>8. QED
  BY <1>3, <1>4, <1>5, <1>6, <1>7 DEF Arrive

LEMMA SameRows == ASSUME PlaylistsInv, UNCHANGED <<used, rows>> PROVE Follows
  BY DEF Follows, PlaylistsInv, TypeOK

LEMMA UpdateFollows ==
  ASSUME PlaylistsInv, NEW p, NEW row \in Row, Update(p, row), used' = used,
         p \in DOMAIN rows => row.remote \in {rows[p].remote, None}
  PROVE  Follows
<1>1. rows' = [q \in DOMAIN rows |-> IF q = p THEN row ELSE rows[q]]
  BY DEF Update
<1>2. \A q \in DOMAIN rows : rows[q] \in Row
  BY DEF PlaylistsInv, TypeOK
<1>3. QED
  BY <1>1, <1>2 DEF Follows

LEMMA EraseFollows ==
  ASSUME PlaylistsInv, NEW p, Erase(p), used' = used
  PROVE  Follows /\ p \notin DOMAIN rows'
<1>1. rows' = [q \in DOMAIN rows \ {p} |-> rows[q]]
  BY DEF Erase, Restrict
<1>2. \A q \in DOMAIN rows : rows[q] \in Row
  BY DEF PlaylistsInv, TypeOK
<1>3. QED
  BY <1>1, <1>2 DEF Follows

\* The playlist a handler works on has an id and a list.
LEMMA WorksOn ==
  ASSUME PlaylistsInv, NEW a \in Actors, th[a].at \notin {"home", "create", "scan"}
  PROVE  /\ th[a].playlist \in 1..used
         /\ th[a].playlist \in Playlists
         /\ Numbered(items[th[a].playlist])
  BY ThreadIs, IdsIn DEF Sound, PlaylistsInv, TypeOK

LEMMA LeaveKeeps ==
  ASSUME PlaylistsInv, NEW q \in Requests, Leave(q)
  PROVE  PlaylistsInv'
<1>1. q \in Actors
  BY DEF Actors
<1>2. th[q] \in ThreadState /\ Sound(th[q])
  BY <1>1, ThreadIs
<1> DEFINE t == [th[q] EXCEPT !.gone = TRUE]
<1>3. /\ t \in ThreadState
      /\ t.at = th[q].at /\ t.op = th[q].op /\ t.playlist = th[q].playlist
      /\ t.todo = th[q].todo /\ t.remote = th[q].remote /\ t.tracks = th[q].tracks
  BY <1>2 DEF ThreadState
<1>4. Moves(q, t) /\ UNCHANGED <<tables, remote, synced>>
  BY DEF Leave, Moves
<1> HIDE DEF t
<1>5. Sound(t)
  BY <1>2, <1>3 DEF Sound
<1>6. QED
  BY <1>1, <1>3, <1>4, <1>5, StillStep

LEMMA CreateKeeps ==
  ASSUME PlaylistsInv, NEW q \in Requests, Create(q)
  PROVE  PlaylistsInv'
<1>1. q \in Actors /\ th[q].at = "create"
  BY DEF Actors, Create, At
<1>2. th[q] \in ThreadState /\ Sound(th[q]) /\ used \in Nat
  BY <1>1, ThreadIs DEF PlaylistsInv, TypeOK
<1>3. CASE th[q].remote = None \/ Bindable(th[q].remote)
  <2> DEFINE place == IF th[q].op = "bind" THEN "sync" ELSE "add"
             t == [th[q] EXCEPT !.playlist = used + 1, !.at = place]
             r == th[q].remote
  <2>1. place \in {"sync", "add"} /\ place \in Places /\ (place = "add" => th[q].op # "bind")
    BY DEF Places
  <2>2. Moves(q, t) /\ Insert(used + 1, r) /\ UNCHANGED <<items, files, remote, synced>>
    <3>1. /\ Insert(used + 1, r) /\ UNCHANGED <<items, files, remote, synced>>
          /\ th' = [th EXCEPT ![q].playlist = used + 1, ![q].at = place]
      BY <1>3 DEF Create
    <3>2. [th EXCEPT ![q].playlist = used + 1, ![q].at = place] = [th EXCEPT ![q] = t]
      BY <1>1, <1>2 DEF PlaylistsInv, TypeOK
    <3>3. QED
      BY <3>1, <3>2 DEF Moves
  <2> HIDE DEF place
  <2>3. used + 1 \in Nat
    BY <1>2
  <2>4. /\ t \in ThreadState /\ t.at = place /\ t.playlist = used + 1
        /\ t.todo = th[q].todo /\ r \in Remotes \cup {None}
    BY <1>2, <2>1, <2>3 DEF ThreadState
  <2>5. t.at = "add" => r = None
    BY <1>1, <1>2, <2>1, <2>4 DEF Sound
  <2>6. PICK u \in ThreadState : u = t
    BY <2>4
  <2>7. used' = used + 1 /\ (u.at = "add" => Unbound(u.playlist)')
    <3>1. used' = used + 1 /\ rows'[used + 1].remote = r
      BY <2>2 DEF Insert
    <3>2. u.at = "add" => rows'[used + 1].remote = None
      BY <2>5, <2>6, <3>1
    <3>3. u.playlist = used + 1
      BY <2>4, <2>6
    <3>4. QED
      BY <3>1, <3>2, <3>3 DEF Unbound
  <2>8. Sound(u)'
    <3>1. u.playlist \in 1..used' /\ u.todo \subseteq 1..used'
      <4>1. th[q].todo \subseteq 1..used
        BY <1>2 DEF Sound
      <4>2. u.playlist = used + 1 /\ u.todo = th[q].todo
        BY <2>4, <2>6
      <4>3. QED
        BY <1>2, <2>7, <4>1, <4>2
    <3>2. u.at \in {"sync", "add"}
      BY <2>1, <2>4, <2>6
    <3>3. u.at = "add" => Unbound(u.playlist)'
      BY <2>7
    <3>4. QED
      BY <3>1, <3>2, <3>3 DEF Sound
  <2>9. u.at # "create" /\ (r # None => Bindable(r))
    BY <1>3, <2>1, <2>4, <2>6
  <2>10. QED
    BY <1>1, <2>2, <2>4, <2>6, <2>8, <2>9, InsertStep
<1>4. CASE ~(th[q].remote = None \/ Bindable(th[q].remote))
  <2>1. Answer(q) /\ UNCHANGED <<tables, remote, synced>>
    BY <1>4 DEF Create, tables
  <2>2. QED
    BY <1>1, <2>1, AnswerStep, StillStep
<1>5. QED
  BY <1>3, <1>4

\* A handler that ends without writing.
LEMMA EndKeeps ==
  ASSUME PlaylistsInv, NEW q \in Requests, CreateFails(q) \/ WriteFails(q)
  PROVE  PlaylistsInv'
<1>1. q \in Actors /\ Answer(q) /\ UNCHANGED <<tables, remote, synced>>
  BY DEF Actors, CreateFails, WriteFails, WriteRefused
<1>2. QED
  BY <1>1, AnswerStep, StillStep

\* The writes of the items of a playlist that can be edited.
LEMMA EditKeeps ==
  ASSUME PlaylistsInv, NEW q \in Requests, AddItems(q) \/ RemoveItem(q) \/ MoveItem(q)
  PROVE  PlaylistsInv'
<1> DEFINE p == th[q].playlist
<1>1. /\ q \in Actors /\ Answer(q) /\ th[q].at \in {"add", "remove", "move"}
      /\ UNCHANGED <<used, rows, files, remote, synced>>
  BY DEF Actors, AddItems, RemoveItem, MoveItem, At
<1>2. th[q] \in ThreadState /\ p \in 1..used /\ Numbered(items[p]) /\ Unbound(p)
  BY <1>1, ThreadIs, WorksOn DEF Sound
<1>3. Follows /\ (p \in DOMAIN rows' => rows'[p].remote = None)
  BY <1>1, <1>2, SameRows DEF Unbound, Exists
<1>4. \A list : Numbered(list) /\ items' = [items EXCEPT ![p] = list] => PlaylistsInv'
  BY <1>1, <1>2, <1>3, AnswerStep, ItemStep
<1>5. items' = items => PlaylistsInv'
  BY <1>1, AnswerStep, StillStep DEF tables
<1>6. CASE AddItems(q)
  <2>1. \/ items' = items
        \/ items' = [items EXCEPT ![p] = Appended(items[p], th[q].tracks)]
    BY <1>6 DEF AddItems
  <2>2. th[q].tracks \in Seq(STRING)
    BY <1>2 DEF ThreadState
  <2>3. QED
    BY <1>2, <1>4, <1>5, <2>1, <2>2, AppendedNumbers
<1>7. CASE RemoveItem(q)
  <2>1. \/ items' = items
        \/ /\ th[q].ord \in Ords(items[p])
           /\ items' = [items EXCEPT ![p] = Closed(items[p], th[q].ord)]
    BY <1>7 DEF RemoveItem
  <2>2. QED
    BY <1>2, <1>4, <1>5, <2>1, ClosedNumbers
<1>8. CASE MoveItem(q)
  <2>1. \/ items' = items
        \/ /\ th[q].ord \in 1..Cardinality(Ords(items[p]))
           /\ items' = [items EXCEPT ![p] = Moved(items[p], th[q].ord, th[q].to)]
    BY <1>8 DEF MoveItem
  <2>2. th[q].to \in Nat
    BY <1>2 DEF ThreadState
  <2>3. QED
    BY <1>2, <1>4, <1>5, <2>1, <2>2, MovedNumbers
<1>9. QED
  BY <1>6, <1>7, <1>8

\* A playlist goes with its items.
LEMMA EraseKeeps ==
  ASSUME PlaylistsInv, NEW q \in Requests, Delete(q) \/ Rollback(q)
  PROVE  PlaylistsInv'
<1> DEFINE p == th[q].playlist
<1>1. /\ q \in Actors /\ Answer(q) /\ th[q].at \in {"delete", "rollback"}
      /\ UNCHANGED <<used, files, remote, synced>>
      /\ Erase(p) \/ UNCHANGED <<rows, items>>
  BY DEF Actors, Delete, Rollback, At
<1>2. p \in 1..used
  BY <1>1, WorksOn
<1>3. CASE Erase(p)
  <2>1. Follows /\ p \notin DOMAIN rows'
    BY <1>1, <1>3, EraseFollows
  <2>2. items' = [items EXCEPT ![p] = << >>]
    BY <1>3 DEF Erase
  <2>3. QED
    BY <1>1, <1>2, <2>1, <2>2, EmptyNumbered, AnswerStep, ItemStep
<1>4. CASE UNCHANGED <<rows, items>>
  BY <1>1, <1>4, AnswerStep, StillStep DEF tables
<1>5. QED
  BY <1>1, <1>3, <1>4

\* The cover and the binding.
LEMMA CoverKeeps ==
  ASSUME PlaylistsInv, NEW q \in Requests,
         Detach(q) \/ InstallCover(q) \/ SetCover(q) \/ ClearCover(q) \/ RemoveCover(q)
  PROVE  PlaylistsInv'
<1> DEFINE p == th[q].playlist
<1>1. /\ q \in Actors /\ th[q].at \in {"detach", "install", "cover", "uncover", "unlink"}
      /\ UNCHANGED <<used, items, remote, synced>>
  BY DEF Actors, Detach, InstallCover, SetCover, ClearCover, RemoveCover, At
<1>2. p \in 1..used /\ p \in Nat /\ files \subseteq Nat
  BY <1>1, WorksOn DEF PlaylistsInv, TypeOK
<1>3. Exists(p) => rows[p] \in Row
  BY DEF Exists, PlaylistsInv, TypeOK
<1>4. Follows
  <2>1. CASE Detach(q)
    <3>1. \/ UNCHANGED rows
          \/ Exists(p) /\ Update(p, [rows[p] EXCEPT !.remote = None, !.wait = 0])
      BY <2>1 DEF Detach
    <3>2. Exists(p) => /\ [rows[p] EXCEPT !.remote = None, !.wait = 0] \in Row
                       /\ [rows[p] EXCEPT !.remote = None, !.wait = 0].remote = None
      BY <1>3 DEF Row
    <3>3. QED
      BY <1>1, <3>1, <3>2, SameRows, UpdateFollows
  <2>2. CASE SetCover(q)
    <3>1. UNCHANGED rows \/ (Exists(p) /\ Update(p, [rows[p] EXCEPT !.path = TRUE]))
      BY <2>2 DEF SetCover
    <3>2. Exists(p) => /\ [rows[p] EXCEPT !.path = TRUE] \in Row
                       /\ [rows[p] EXCEPT !.path = TRUE].remote = rows[p].remote
      BY <1>3 DEF Row
    <3>3. QED
      BY <1>1, <3>1, <3>2, SameRows, UpdateFollows
  <2>3. CASE ClearCover(q)
    <3>1. UNCHANGED rows \/ (Exists(p) /\ Update(p, [rows[p] EXCEPT !.path = FALSE]))
      BY <2>3 DEF ClearCover
    <3>2. Exists(p) => /\ [rows[p] EXCEPT !.path = FALSE] \in Row
                       /\ [rows[p] EXCEPT !.path = FALSE].remote = rows[p].remote
      BY <1>3 DEF Row
    <3>3. QED
      BY <1>1, <3>1, <3>2, SameRows, UpdateFollows
  <2>4. CASE InstallCover(q) \/ RemoveCover(q)
    <3>1. UNCHANGED <<used, rows>>
      BY <2>4 DEF InstallCover, RemoveCover
    <3>2. QED
      BY <3>1, SameRows
  <2>5. QED
    BY <2>1, <2>2, <2>3, <2>4
<1>5. files' \subseteq Nat
  <2>1. files' \in {files, files \cup {p}, files \ {p}}
    BY DEF Detach, InstallCover, SetCover, ClearCover, RemoveCover
  <2>2. QED
    BY <1>2, <2>1
<1>6. \E t \in ThreadState : Moves(q, t) /\ Sound(t) /\ t.at # "create"
  <2>1. CASE Answer(q)
    BY <1>1, <2>1, AnswerStep
  <2>2. CASE Goto(q, "cover") \/ Goto(q, "unlink")
    BY <1>1, <2>2, GotoStep
  <2>3. QED
    BY <2>1, <2>2 DEF Detach, InstallCover, SetCover, ClearCover, RemoveCover
<1>7. PICK t \in ThreadState : Moves(q, t) /\ Sound(t) /\ t.at # "create"
  BY <1>6
<1>8. QED
  BY <1>1, <1>4, <1>5, <1>7, RowStep

\* A synchronisation ends.
LEMMA SyncEndStep ==
  ASSUME PlaylistsInv, NEW a \in Actors, th[a].at \in {"sync", "result", "record"},
         SyncFailed(a) \/ SyncDone(a)
  PROVE  \E t \in ThreadState : Moves(a, t) /\ Sound(t) /\ t.at # "create"
<1>1. th[a] \in ThreadState /\ Sound(th[a]) /\ used \in Nat
  BY ThreadIs DEF PlaylistsInv, TypeOK
<1>2. CASE Moves(a, Home)
  BY <1>1, <1>2, HomeState, HomeSound DEF Home
<1>3. CASE Moves(a, Continue(a))
  <2> DEFINE t == Continue(a)
  <2>1. t \in ThreadState /\ t.at = "scan" /\ t.todo = th[a].todo
    <3>1. Home \in ThreadState
      BY HomeState
    <3>2. QED
      BY <1>1, <3>1 DEF Continue, Scanning, ThreadState, Places, Ops
  <2> HIDE DEF t
  <2>2. Sound(t)
    BY <1>1, <2>1 DEF Sound
  <2>3. QED
    BY <1>3, <2>1, <2>2 DEF t
<1>4. CASE Moves(a, [th[a] EXCEPT !.at = "rollback"])
  <2> DEFINE t == [th[a] EXCEPT !.at = "rollback"]
  <2>1. /\ t \in ThreadState /\ t.at = "rollback"
        /\ t.playlist = th[a].playlist /\ t.todo = th[a].todo
    BY <1>1 DEF ThreadState, Places
  <2> HIDE DEF t
  <2>2. Sound(t)
    BY <1>1, <2>1 DEF Sound
  <2>3. QED
    BY <1>4, <2>1, <2>2 DEF t
<1>5. Moves(a, Home) \/ Moves(a, Continue(a)) \/ Moves(a, [th[a] EXCEPT !.at = "rollback"])
  <2>1. CASE SyncDone(a)
    BY <2>1 DEF SyncDone, Moves
  <2>2. CASE SyncFailed(a)
    <3>1. CASE a = Syncer
      BY <2>2, <3>1 DEF SyncFailed, Moves
    <3>2. CASE a # Syncer /\ th[a].op = "bind"
      BY <2>2, <3>2 DEF SyncFailed, Moves
    <3>3. CASE a # Syncer /\ th[a].op # "bind"
      BY <2>2, <3>3 DEF SyncFailed, Moves
    <3>4. QED
      BY <3>1, <3>2, <3>3
  <2>3. QED
    BY <2>1, <2>2
<1>6. QED
  BY <1>2, <1>3, <1>4, <1>5

\* The steps of a synchronisation before it writes.
LEMMA ReadKeeps ==
  ASSUME PlaylistsInv, NEW a \in Actors,
         \/ SyncRead(a) \/ SyncReadFails(a) \/ Fetch(a) \/ FetchFails(a)
         \/ ReplaceFails(a) \/ ResultFails(a)
  PROVE  PlaylistsInv'
<1>1. th[a] \in ThreadState /\ Sound(th[a])
  BY ThreadIs
<1>2. UNCHANGED <<tables, remote, synced>>
  BY DEF SyncRead, SyncReadFails, Fetch, FetchFails, ReplaceFails, ResultFails
<1>3. \E t \in ThreadState : Moves(a, t) /\ Sound(t) /\ t.at # "create"
  <2>1. CASE At(a, "sync") /\ SyncFailed(a)
    BY <2>1, SyncEndStep DEF At
  <2>2. CASE ResultFails(a)
    BY <2>2, SyncEndStep DEF At, ResultFails
  <2>3. CASE FetchFails(a) \/ ReplaceFails(a)
    <3>1. th[a].at \in {"fetch", "replace"} /\ Goto(a, "record")
      BY <2>3 DEF At, FetchFails, ReplaceFails
    <3>2. QED
      BY <3>1, GotoStep
  <2>4. CASE /\ At(a, "sync") /\ Bound(th[a].playlist)
             /\ th' = [th EXCEPT ![a].remote = rows[th[a].playlist].remote, ![a].at = "fetch"]
    <3> DEFINE p == th[a].playlist
               r == rows[p].remote
               t == [th[a] EXCEPT !.remote = r, !.at = "fetch"]
    <3>1. r \in Remotes /\ p \in 1..used
      <4>1. p \in 1..used
        BY <2>4, WorksOn DEF At
      <4>2. r \in Remotes
        BY <2>4 DEF Bound, Exists, PlaylistsInv, TypeOK, Row
      <4>3. QED
        BY <4>1, <4>2
    <3>2. Moves(a, t)
      <4>1. [th EXCEPT ![a].remote = r, ![a].at = "fetch"] = [th EXCEPT ![a] = t]
        BY <1>1 DEF PlaylistsInv, TypeOK
      <4>2. QED
        BY <2>4, <4>1 DEF Moves
    <3> HIDE DEF r
    <3>3. /\ t \in ThreadState /\ t.at = "fetch" /\ t.playlist = p
          /\ t.todo = th[a].todo /\ t.remote = r
      BY <1>1, <3>1 DEF ThreadState, Places
    <3> HIDE DEF t
    <3>4. Sound(t)
      BY <1>1, <3>1, <3>3 DEF Sound, r
    <3>5. QED
      BY <3>2, <3>3, <3>4
  <2>5. CASE Fetch(a)
    <3> DEFINE r == th[a].remote
               tracks == Content[r][remote[r]]
               t == [th[a] EXCEPT !.tracks = tracks, !.at = "replace"]
    <3>1. /\ r \in Remotes /\ th[a].at = "fetch"
          /\ Bound(th[a].playlist) => rows[th[a].playlist].remote = r
      BY <1>1, <2>5 DEF Fetch, At, Sound
    <3>2. remote[r] \in DOMAIN Content[r] /\ tracks \in Seq(STRING)
      <4>1. remote[r] \in DOMAIN Content[r]
        BY <2>5, <3>1 DEF Fetch, PlaylistsInv, TypeOK
      <4>2. QED
        BY <3>1, <4>1, PlaylistsAssumption
    <3>3. Moves(a, t)
      <4>1. th' = [th EXCEPT ![a].tracks = tracks, ![a].at = "replace"]
        BY <2>5 DEF Fetch
      <4>2. [th EXCEPT ![a].tracks = tracks, ![a].at = "replace"] = [th EXCEPT ![a] = t]
        BY <1>1 DEF PlaylistsInv, TypeOK
      <4>3. QED
        BY <4>1, <4>2 DEF Moves
    <3>4. \E v \in DOMAIN Content[r] : tracks = Content[r][v]
      BY <3>2
    <3> HIDE DEF tracks
    <3>5. /\ t \in ThreadState /\ t.at = "replace" /\ t.playlist = th[a].playlist
          /\ t.todo = th[a].todo /\ t.remote = r /\ t.tracks = tracks
      BY <1>1, <3>1, <3>2 DEF ThreadState, Places
    <3> HIDE DEF t
    <3>6. Sound(t)
      BY <1>1, <3>1, <3>4, <3>5 DEF Sound
    <3>7. QED
      BY <3>3, <3>5, <3>6
  <2>6. QED
    BY <2>1, <2>2, <2>3, <2>4, <2>5 DEF SyncRead, SyncReadFails
<1>4. QED
  BY <1>2, <1>3, StillStep

\* What an attempt leaves in the row.
LEMMA ResultKeeps ==
  ASSUME PlaylistsInv, NEW a \in Actors, Result(a) \/ Record(a)
  PROVE  PlaylistsInv'
<1> DEFINE p == th[a].playlist
<1>1. /\ th[a].at \in {"result", "record"}
      /\ SyncFailed(a) \/ SyncDone(a)
      /\ UNCHANGED <<used, items, files, remote, synced>>
  BY DEF Result, Record, At
<1>2. PICK t \in ThreadState : Moves(a, t) /\ Sound(t) /\ t.at # "create"
  BY <1>1, SyncEndStep
<1>3. Exists(p) => rows[p] \in Row
  BY DEF Exists, PlaylistsInv, TypeOK
<1>4. Follows
  <2>1. \/ UNCHANGED rows
        \/ Exists(p) /\ Update(p, [rows[p] EXCEPT !.wait = 2, !.path = FALSE])
        \/ Exists(p) /\ Update(p, [rows[p] EXCEPT !.wait = 2])
    BY DEF Result, Record
  <2>2. Exists(p) => /\ [rows[p] EXCEPT !.wait = 2, !.path = FALSE] \in Row
                     /\ [rows[p] EXCEPT !.wait = 2, !.path = FALSE].remote = rows[p].remote
                     /\ [rows[p] EXCEPT !.wait = 2] \in Row
                     /\ [rows[p] EXCEPT !.wait = 2].remote = rows[p].remote
    BY <1>3 DEF Row
  <2>3. QED
    BY <1>1, <2>1, <2>2, SameRows, UpdateFollows
<1>5. files' \subseteq Nat
  BY <1>1 DEF PlaylistsInv, TypeOK
<1>6. QED
  BY <1>1, <1>2, <1>4, <1>5, RowStep

\* The new items of a bound playlist are one version of its remote playlist; a
\* playlist that was detached meanwhile takes them too.
LEMMA ReplaceKeeps ==
  ASSUME PlaylistsInv, NEW a \in Actors, Replace(a)
  PROVE  PlaylistsInv'
<1> DEFINE p == th[a].playlist
<1>1. th[a] \in ThreadState /\ Sound(th[a]) /\ th[a].at = "replace"
  BY ThreadIs DEF Replace, At
<1>2. p \in 1..used /\ p \in Playlists /\ used \in Nat
  BY <1>1, WorksOn DEF PlaylistsInv, TypeOK
<1>3. UNCHANGED <<used, rows, files, remote>> /\ Follows
  BY SameRows DEF Replace
<1>4. CASE ~Exists(p)
  <2>1. Goto(a, "record") /\ UNCHANGED <<items, synced>>
    BY <1>4 DEF Replace
  <2>2. PICK t \in ThreadState : Moves(a, t) /\ Sound(t) /\ t.at = "record"
    BY <1>1, <2>1, GotoStep
  <2>3. QED
    BY <1>3, <2>1, <2>2, StillStep DEF tables
<1>5. CASE Exists(p)
  <2> DEFINE list == FromZero(th[a].tracks)
  <2>1. /\ items' = [items EXCEPT ![p] = list]
        /\ synced' = synced \cup {p}
        /\ Goto(a, "result")
    BY <1>5 DEF Replace
  <2>2. PICK t \in ThreadState : Moves(a, t) /\ Sound(t) /\ t.at = "result"
    BY <1>1, <2>1, GotoStep
  <2>3. Numbered(list)
    BY <1>1, FromZeroNumbers DEF ThreadState
  <2> HIDE DEF list
  <2>4. items = [q \in Playlists |-> items[q]]
    BY DEF PlaylistsInv, TypeOK
  <2>5. /\ items' = [q \in Playlists |-> items'[q]]
        /\ \A q \in Playlists : items'[q] = IF q = p THEN list ELSE items[q]
    BY <1>2, <2>1, <2>4
  <2>6. ItemsSound
    BY <1>2, <2>3, <2>5 DEF ItemsSound, PlaylistsInv, TypeOK
  <2>7. RemoteSound /\ files' \subseteq Nat /\ synced' \subseteq 1..used
    BY <1>2, <1>3, <2>1 DEF RemoteSound, PlaylistsInv, TypeOK
  <2>8. BoundIsWhole'
    <3>1. ASSUME NEW q \in DOMAIN rows, Bound(q)
          PROVE  \/ q \notin synced' /\ items'[q] = << >>
                 \/ \E v \in DOMAIN Content[rows[q].remote] :
                      items'[q] = FromZero(Content[rows[q].remote][v])
      <4>1. q \in Playlists
        BY IdsIn DEF PlaylistsInv, TypeOK
      <4>2. CASE q # p
        <5>1. items'[q] = items[q] /\ (q \in synced' <=> q \in synced)
          BY <2>1, <2>5, <4>1, <4>2
        <5>2. QED
          BY <3>1, <5>1 DEF PlaylistsInv, BoundIsWhole
      <4>3. CASE q = p
        <5>1. rows[q].remote = th[a].remote
          BY <1>1, <3>1, <4>3 DEF Sound
        <5>2. \E v \in DOMAIN Content[th[a].remote] : list = FromZero(Content[th[a].remote][v])
          BY <1>1 DEF Sound, list
        <5>3. items'[q] = list
          BY <2>5, <4>1, <4>3
        <5>4. QED
          BY <5>1, <5>2, <5>3
      <4>4. QED
        BY <4>2, <4>3
    <3>2. rows' = rows
      BY <1>3
    <3>3. \A q \in DOMAIN rows : Bound(q)' <=> Bound(q)
      BY <3>2 DEF Bound, Exists
    <3>4. QED
      BY <3>1, <3>2, <3>3 DEF BoundIsWhole
  <2>9. QED
    BY <1>3, <2>2, <2>6, <2>7, <2>8, ThreadStep
<1>6. QED
  BY <1>4, <1>5

\* The tick, the scan and the remote playlists.
LEMMA RunKeeps ==
  ASSUME PlaylistsInv, Tick \/ Scan \/ ScanNext \/ \E r \in Remotes : Change(r)
  PROVE  PlaylistsInv'
<1>1. Syncer \in Actors
  BY DEF Actors
<1>2. th[Syncer] \in ThreadState /\ Sound(th[Syncer]) /\ used \in Nat
  BY <1>1, ThreadIs DEF PlaylistsInv, TypeOK
<1>3. CASE Tick
  <2>1. Moves(Syncer, th[Syncer]) /\ th[Syncer].at = "home"
    BY <1>1, <1>3, StaysPut DEF Tick, At
  <2>2. UNCHANGED <<used, items, files, remote, synced>> /\ files' \subseteq Nat
    BY <1>3 DEF Tick, PlaylistsInv, TypeOK
  <2>3. Follows
    <3>1. rows' = [p \in DOMAIN rows |-> [rows[p] EXCEPT !.wait = Aged(@)]]
      BY <1>3 DEF Tick
    <3>2. \A p \in DOMAIN rows : /\ [rows[p] EXCEPT !.wait = Aged(@)] \in Row
                                 /\ [rows[p] EXCEPT !.wait = Aged(@)].remote = rows[p].remote
      BY DEF Row, Aged, PlaylistsInv, TypeOK
    <3>3. QED
      BY <2>2, <3>1, <3>2 DEF Follows
  <2>4. QED
    BY <1>1, <1>2, <2>1, <2>2, <2>3, RowStep
<1>4. CASE Scan
  <2>1. UNCHANGED <<tables, remote, synced>> /\ th[Syncer].at = "home"
    BY <1>4 DEF Scan, At
  <2> DEFINE due == {p \in DOMAIN rows : Bound(p) /\ rows[p].wait = 0}
  <2>2. UNCHANGED th \/ Moves(Syncer, Scanning(due))
    BY <1>4 DEF Scan, Moves
  <2>3. due \subseteq 1..used /\ due \in SUBSET Nat
    BY DEF PlaylistsInv, TypeOK
  <2> HIDE DEF due
  <2>4. Scanning(due) \in ThreadState /\ Scanning(due).at = "scan" /\ Scanning(due).todo = due
    <3>1. Home \in ThreadState
      BY HomeState
    <3>2. QED
      BY <2>3, <3>1 DEF Scanning, ThreadState, Places, Ops
  <2>5. Sound(Scanning(due))
    <3>1. PICK t : t = Scanning(due)
      OBVIOUS
    <3>2. Sound(t)
      BY <2>3, <2>4, <3>1 DEF Sound
    <3>3. QED
      BY <3>1, <3>2
  <2>6. CASE UNCHANGED th
    BY <1>1, <1>2, <2>1, <2>6, StaysPut, StillStep
  <2>7. CASE Moves(Syncer, Scanning(due))
    BY <1>1, <2>1, <2>4, <2>5, <2>7, StillStep
  <2>8. QED
    BY <2>2, <2>6, <2>7
<1>5. CASE ScanNext
  <2>1. UNCHANGED <<tables, remote, synced>>
    BY <1>5 DEF ScanNext
  <2>2. CASE Answer(Syncer)
    BY <1>1, <2>1, <2>2, AnswerStep, StillStep
  <2>3. CASE \E p \in th[Syncer].todo :
               th' = [th EXCEPT ![Syncer] = [Thread("scan", "sync", p) EXCEPT
                                              !.todo = th[Syncer].todo \ {p}]]
    <3> DEFINE left(p) == th[Syncer].todo \ {p}
               t(p) == [Thread("scan", "sync", p) EXCEPT !.todo = left(p)]
    <3>1. PICK p \in th[Syncer].todo : Moves(Syncer, t(p))
      BY <2>3 DEF Moves
    <3>2. p \in 1..used /\ p \in Nat /\ left(p) \subseteq 1..used /\ left(p) \in SUBSET Nat
      BY <1>2 DEF Sound
    <3> HIDE DEF left
    <3>3. PICK n \in ThreadState : /\ n = Thread("scan", "sync", p)
                                   /\ n.at = "sync" /\ n.playlist = p
      BY <3>2, NewThread DEF Ops, Places
    <3>4. PICK u : u = t(p) /\ u = [n EXCEPT !.todo = left(p)]
      BY <3>3
    <3> HIDE DEF t
    <3>5. u \in ThreadState /\ u.at = "sync" /\ u.playlist = p /\ u.todo = left(p)
      BY <3>2, <3>3, <3>4 DEF ThreadState
    <3>6. Sound(u)
      BY <3>2, <3>5 DEF Sound
    <3>7. Moves(Syncer, u)
      BY <3>1, <3>4
    <3>8. QED
      BY <1>1, <2>1, <3>5, <3>6, <3>7, StillStep
  <2>4. QED
    BY <1>5, <2>2, <2>3 DEF ScanNext
<1>6. CASE \E r \in Remotes : Change(r)
  <2>1. PICK r \in Remotes : Change(r)
    BY <1>6
  <2>2. UNCHANGED <<tables, th, synced>>
    BY <2>1 DEF Change
  <2>3. RemoteSound
    <3>1. /\ remote \in [Remotes -> Nat] /\ remote[r] # Gone /\ remote[r] \in DOMAIN Content[r]
          /\ \A s \in Remotes : remote[s] # Gone => remote[s] \in DOMAIN Content[s]
      BY <2>1 DEF Change, PlaylistsInv, TypeOK
    <3>2. Content[r] \in Seq(Seq(STRING) \ {<<>>})
      BY PlaylistsAssumption
    <3>3. PICK n \in Nat : n = Len(Content[r]) /\ DOMAIN Content[r] = 1..n
      BY <3>2
    <3>4. PICK v \in Nat : /\ remote' = [remote EXCEPT ![r] = v]
                           /\ v = Gone \/ v \in 1..n
      <4>1. CASE remote[r] < Len(Content[r]) /\ remote' = [remote EXCEPT ![r] = @ + 1]
        <5>1. remote[r] + 1 \in Nat /\ remote[r] + 1 \in 1..n
          BY <3>1, <3>3, <4>1
        <5>2. QED
          BY <4>1, <5>1
      <4>2. CASE remote' = [remote EXCEPT ![r] = Gone]
        BY <4>2 DEF Gone
      <4>3. QED
        BY <2>1, <4>1, <4>2 DEF Change
    <3>5. QED
      BY <3>1, <3>3, <3>4 DEF RemoteSound
  <2>4. Follows /\ ItemsSound /\ WholeStays
    BY <2>2 DEF Follows, ItemsSound, WholeStays, tables, PlaylistsInv, TypeOK
  <2>5. files' \subseteq Nat /\ synced' \subseteq 1..used
    BY <2>2 DEF tables, PlaylistsInv, TypeOK
  <2>6. BoundIsWhole'
    BY <2>4, WholeStep DEF PlaylistsInv
  <2>7. Moves(Syncer, th[Syncer])
    BY <1>1, <2>2, StaysPut
  <2>8. QED
    BY <1>1, <1>2, <2>3, <2>4, <2>5, <2>6, <2>7, ThreadStep
<1>7. QED
  BY <1>3, <1>4, <1>5, <1>6

\* After a crash nobody is at work, and the tables are as they were.
LEMMA CrashKeeps ==
  ASSUME PlaylistsInv, Crash
  PROVE  PlaylistsInv'
<1> USE DEF PlaylistsInv
<1>1. UNCHANGED <<used, items, files, remote, synced>> /\ th' = [a \in Actors |-> Home]
  BY DEF Crash
<1>2. used \in Nat
  BY DEF TypeOK
<1>3. Follows
  <2>1. PICK ticks \in 0..2 :
          rows' = [p \in DOMAIN rows |-> [rows[p] EXCEPT !.wait = IF @ < ticks THEN 0 ELSE @ - ticks]]
    BY DEF Crash
  <2>2. \A p \in DOMAIN rows :
          /\ [rows[p] EXCEPT !.wait = IF @ < ticks THEN 0 ELSE @ - ticks] \in Row
          /\ [rows[p] EXCEPT !.wait = IF @ < ticks THEN 0 ELSE @ - ticks].remote = rows[p].remote
    BY DEF Row, TypeOK
  <2>3. QED
    BY <1>1, <2>1, <2>2 DEF Follows
<1>4. TypeOK'
  <2>1. th' \in [Actors -> ThreadState]
    BY <1>1, HomeState
  <2>2. used' \in Nat /\ DOMAIN rows' \subseteq 1..used' /\ rows' \in [DOMAIN rows' -> Row]
    BY <1>3 DEF TypeOK, Follows
  <2>3. QED
    BY <1>1, <2>1, <2>2 DEF TypeOK
<1>5. Untouched'
  BY <1>1 DEF Untouched
<1>6. IdsSuffice'
  <2>1. Creating' = {}
    BY <1>1 DEF Creating, At, Actors, Home
  <2>2. Cardinality(Creating') = 0
    BY <2>1, FS_EmptySet
  <2>3. used + 0 <= MaxPlaylists
    BY IdsIn
  <2>4. QED
    BY <1>1, <2>2, <2>3 DEF IdsSuffice
<1>7. ThreadsSound'
  <2>1. Sound(Home)
    BY <1>2, HomeSound
  <2>2. PICK h \in ThreadState : h = Home /\ Sound(h)
    BY <2>1, HomeState
  <2>3. Sound(h)'
    BY <1>3, <2>2, FollowsAges, SoundStays
  <2>4. \A a \in Actors : th'[a] = h
    BY <1>1, <2>2
  <2>5. QED
    BY <2>3, <2>4 DEF ThreadsSound
<1>8. BoundIsWhole' /\ OneBinding'
  <2>1. WholeStays
    BY <1>1 DEF WholeStays
  <2>2. QED
    BY <1>3, <2>1, WholeStep, BindingsStay
<1>9. QED
  BY <1>4, <1>5, <1>6, <1>7, <1>8

LEMMA PlaylistsInit == Init => PlaylistsInv
<1> SUFFICES ASSUME Init PROVE PlaylistsInv
  OBVIOUS
<1> USE DEF Init
<1>1. TypeOK
  <2>1. th \in [Actors -> ThreadState]
    BY HomeState
  <2>2. \A p \in Playlists : Numbered(items[p])
    BY EmptyNumbered
  <2>3. remote \in [Remotes -> Nat] /\ \A r \in Remotes : remote[r] \in DOMAIN Content[r]
    <3>1. ASSUME NEW r \in Remotes PROVE 1 \in DOMAIN Content[r]
      <4>1. Content[r] \in Seq(Seq(STRING) \ {<<>>}) /\ Content[r] # << >>
        BY PlaylistsAssumption
      <4>2. QED
        BY <4>1
    <3>2. QED
      BY <3>1
  <2>4. DOMAIN rows = {} /\ rows \in [DOMAIN rows -> Row]
    OBVIOUS
  <2>5. QED
    BY <2>1, <2>2, <2>3, <2>4 DEF TypeOK
<1>2. Untouched
  BY DEF Untouched
<1>3. IdsSuffice
  <2>1. Creating = {}
    BY DEF Creating, At, Actors, Home
  <2>2. Cardinality(Creating) = 0
    BY <2>1, FS_EmptySet
  <2>3. QED
    BY <2>2, PlaylistsAssumption DEF IdsSuffice
<1>4. ThreadsSound
  BY HomeSound DEF ThreadsSound
<1>5. BoundIsWhole /\ OneBinding
  BY DEF BoundIsWhole, OneBinding
<1>6. QED
  BY <1>1, <1>2, <1>3, <1>4, <1>5 DEF PlaylistsInv

LEMMA PlaylistsStutter == PlaylistsInv /\ UNCHANGED vars => PlaylistsInv'
<1> SUFFICES ASSUME PlaylistsInv, UNCHANGED vars PROVE PlaylistsInv'
  OBVIOUS
<1>1. Syncer \in Actors /\ UNCHANGED <<tables, remote, synced, th>>
  BY DEF Actors, vars
<1>2. QED
  BY <1>1, ThreadIs, StaysPut, StillStep

LEMMA PlaylistsStep == PlaylistsInv /\ [Next]_vars => PlaylistsInv'
<1> SUFFICES ASSUME PlaylistsInv, [Next]_vars PROVE PlaylistsInv'
  OBVIOUS
<1>1. ASSUME NEW q \in Requests, Arrive(q) PROVE PlaylistsInv'
  BY <1>1, ArriveKeeps
<1>2. ASSUME NEW q \in Requests, Leave(q) PROVE PlaylistsInv'
  BY <1>2, LeaveKeeps
<1>3. ASSUME NEW q \in Requests, Write(q) PROVE PlaylistsInv'
  <2>1. CASE Create(q)
    BY <2>1, CreateKeeps
  <2>2. CASE CreateFails(q) \/ WriteFails(q)
    BY <2>2, EndKeeps
  <2>3. CASE AddItems(q) \/ RemoveItem(q) \/ MoveItem(q)
    BY <2>3, EditKeeps
  <2>4. CASE Delete(q) \/ Rollback(q)
    BY <2>4, EraseKeeps
  <2>5. CASE Detach(q) \/ InstallCover(q) \/ SetCover(q) \/ ClearCover(q) \/ RemoveCover(q)
    BY <2>5, CoverKeeps
  <2>6. QED
    BY <1>3, <2>1, <2>2, <2>3, <2>4, <2>5 DEF Write
<1>4. ASSUME NEW a \in Actors, SyncOne(a) PROVE PlaylistsInv'
  <2>1. CASE Replace(a)
    BY <2>1, ReplaceKeeps
  <2>2. CASE Result(a) \/ Record(a)
    BY <2>2, ResultKeeps
  <2>3. QED
    BY <1>4, <2>1, <2>2, ReadKeeps DEF SyncOne
<1>5. CASE Next
  BY <1>1, <1>2, <1>3, <1>4, <1>5, RunKeeps, CrashKeeps DEF Next
<1>6. CASE UNCHANGED vars
  BY <1>6, PlaylistsStutter
<1>7. QED
  BY <1>5, <1>6

\* The numbers of a playlist have no gap, whatever mixture of synchronisation, append,
\* delete and move made them.
THEOREM NumbersHaveNoGap == Spec => []Contiguous
<1>1. PlaylistsInv => Contiguous
  BY NumberedContiguous DEF PlaylistsInv, TypeOK, Contiguous
<1>2. QED
  BY <1>1, PlaylistsInit, PlaylistsStep, PTL DEF Spec

\* A bound playlist shows one whole version of its remote playlist, and no other
\* playlist is bound to that: after failed imports, late handlers, crashes, clients that
\* went away and two requests that bind at once.
THEOREM BindingsAreTrue == Spec => [](BoundIsWhole /\ OneBinding)
<1>1. PlaylistsInv => BoundIsWhole /\ OneBinding
  BY DEF PlaylistsInv
<1>2. QED
  BY <1>1, PlaylistsInit, PlaylistsStep, PTL DEF Spec

-----------------------------------------------------------------------------
(* The covers: unless an upload and a removal overlap, a handler finds what   *)
(* its last step left.                                                        *)

\* No row gets a cover, and no file goes.
Paths ==
  /\ \A p \in DOMAIN rows' : rows'[p].path => p \in DOMAIN rows /\ rows[p].path
  /\ files \subseteq files'

\* What a handler of a cover goes by is still so.
CoverStays(t) ==
  /\ t.at = "cover" => t.playlist \in files' \cup raced'
  /\ t.at = "unlink" /\ t.playlist \in DOMAIN rows' =>
       ~rows'[t.playlist].path \/ t.playlist \in raced'

StaysApart(t, u) ==
  t.op = "cover" /\ u.op = "uncover" /\ t.playlist = u.playlist => t.playlist \in raced'

\* A thread goes on without touching a cover.
Resumes(a, t) ==
  /\ Moves(a, t)
  /\ \/ /\ t.at \notin {"install", "cover", "uncover", "unlink"}
        /\ ~Covering(t) \/ (t.op = th[a].op /\ t.playlist = th[a].playlist)
     \/ t.at = th[a].at /\ t.op = th[a].op /\ t.playlist = th[a].playlist

Leaves(a) == Paths /\ \E t \in ThreadState : Resumes(a, t)

LEMMA PathsStay ==
  ASSUME CoverHasFile, Paths, UNCHANGED raced
  PROVE  CoverHasFile' /\ \A t \in ThreadState : CoverThread(t) => CoverStays(t)
<1>1. CoverHasFile'
  BY DEF CoverHasFile, Paths
<1>2. ASSUME NEW t \in ThreadState, CoverThread(t) PROVE CoverStays(t)
  BY <1>2 DEF Paths, CoverThread, CoverStays, Exists
<1>3. QED
  BY <1>1, <1>2

\* A step of one thread, when the others keep what they go by.
LEMMA CoverStep ==
  ASSUME PlaylistsInv, CoverInv, NEW a \in Actors, NEW t \in ThreadState, Moves(a, t),
         t.at \in {"install", "cover"} => t.op = "cover",
         t.at \in {"uncover", "unlink"} => t.op = "uncover",
         CoverStays(t),
         \A q \in Requests : q # a => /\ CoverStays(th[q])
                                      /\ StaysApart(t, th[q]) /\ StaysApart(th[q], t),
         \A p, q \in Requests : p # a /\ q # a => StaysApart(th[p], th[q])
  PROVE  CoverInv'
<1>1. /\ th'[a] = t
      /\ \A b \in Actors : b # a => th'[b] = th[b]
  BY MovesTo DEF PlaylistsInv
<1>2. ASSUME NEW q \in Requests PROVE CoverThread(th[q])'
  <2>1. CASE q = a
    BY <1>1, <2>1 DEF CoverThread, CoverStays, Exists
  <2>2. CASE q # a
    <3>1. th'[q] = th[q] /\ CoverThread(th[q]) /\ CoverStays(th[q])
      BY <1>1, <2>2 DEF CoverInv, Actors
    <3>2. QED
      BY <3>1 DEF CoverThread, CoverStays, Exists
  <2>3. QED
    BY <2>1, <2>2
<1>3. ASSUME NEW p \in Requests, NEW q \in Requests PROVE StaysApart(th'[p], th'[q])
  <2>1. p \in Actors /\ q \in Actors
    BY DEF Actors
  <2>2. CASE p # a /\ q # a
    BY <1>1, <2>1, <2>2
  <2>3. CASE p = a /\ q # a
    BY <1>1, <2>1, <2>3
  <2>4. CASE p # a /\ q = a
    BY <1>1, <2>1, <2>4
  <2>5. CASE p = a /\ q = a
    BY <2>5 DEF StaysApart
  <2>6. QED
    BY <2>2, <2>3, <2>4, <2>5
<1>4. \A p, q \in Requests : Apart(th[p], th[q])'
  BY <1>3 DEF Apart, StaysApart
<1>5. QED
  BY <1>2, <1>4 DEF CoverInv

LEMMA LeavesCovers ==
  ASSUME CoversInv, PlaylistsInv', UNCHANGED raced,
         NEW a \in Actors, Leaves(a), a = Syncer \/ a \in Requests
  PROVE  CoversInv'
<1> USE DEF CoversInv
<1>1. PICK t \in ThreadState : Resumes(a, t)
  BY DEF Leaves
<1>2. CoverHasFile' /\ \A u \in ThreadState : CoverThread(u) => CoverStays(u)
  BY PathsStay DEF Leaves
<1>3. \A q \in Requests : CoverStays(th[q])
  <2>1. \A q \in Requests : th[q] \in ThreadState /\ CoverThread(th[q])
    BY DEF CoverInv, PlaylistsInv, TypeOK, Actors
  <2>2. QED
    BY <1>2, <2>1
<1>4. \A p, q \in Requests : StaysApart(th[p], th[q])
  BY DEF CoverInv, Apart, StaysApart
<1>5. CASE a \in Requests
  <2>1. CoverThread(th[a]) /\ CoverStays(th[a])
    BY <1>3, <1>5 DEF CoverInv
  <2>2. /\ t.at \in {"install", "cover"} => t.op = "cover"
        /\ t.at \in {"uncover", "unlink"} => t.op = "uncover"
        /\ CoverStays(t)
    BY <1>1, <2>1 DEF Resumes, CoverThread, CoverStays
  <2>3. Moves(a, t)
    BY <1>1 DEF Resumes
  <2>4. ASSUME NEW q \in Requests PROVE StaysApart(t, th[q]) /\ StaysApart(th[q], t)
    <3>1. ~Covering(t) \/ (t.op = th[a].op /\ t.playlist = th[a].playlist)
      BY <1>1 DEF Resumes
    <3>2. StaysApart(th[a], th[q]) /\ StaysApart(th[q], th[a])
      BY <1>4, <1>5
    <3>3. QED
      BY <3>1, <3>2 DEF StaysApart, Covering
  <2>5. CoverInv'
    BY <1>3, <1>4, <2>2, <2>3, <2>4, CoverStep
  <2>6. QED
    BY <1>2, <2>5
<1>6. CASE a = Syncer
  <2>1. \A q \in Requests : th'[q] = th[q]
    <3>1. \A q \in Requests : q \in Actors /\ q # a
      BY <1>6, PlaylistsAssumption DEF Actors
    <3>2. QED
      BY <1>1, <3>1, MovesTo DEF Resumes, PlaylistsInv
  <2>2. CoverInv'
    <3>1. ASSUME NEW q \in Requests PROVE CoverThread(th[q])'
      <4>1. CoverThread(th[q]) /\ CoverStays(th[q]) /\ th'[q] = th[q]
        BY <1>3, <2>1 DEF CoverInv
      <4>2. QED
        BY <4>1 DEF CoverThread, CoverStays, Exists
    <3>2. \A p, q \in Requests : Apart(th[p], th[q])'
      BY <1>4, <2>1 DEF Apart, StaysApart
    <3>3. QED
      BY <3>1, <3>2 DEF CoverInv
  <2>3. QED
    BY <1>2, <2>2
<1>7. QED
  BY <1>5, <1>6

\* The rows and files of a step.
LEMMA SamePaths == ASSUME UNCHANGED <<rows, files>> PROVE Paths
  BY DEF Paths

LEMMA InsertPaths ==
  ASSUME NEW p, NEW r, p \notin DOMAIN rows, Insert(p, r), UNCHANGED files
  PROVE  Paths
<1>1. rows' = [q \in DOMAIN rows \cup {p} |->
                 IF q = p THEN [remote |-> r, wait |-> 0, path |-> FALSE] ELSE rows[q]]
  BY DEF Insert
<1>2. /\ DOMAIN rows' = DOMAIN rows \cup {p}
      /\ \A q \in DOMAIN rows : rows'[q] = rows[q]
      /\ rows'[p] = [remote |-> r, wait |-> 0, path |-> FALSE]
  BY <1>1
<1>3. ~rows'[p].path
  BY <1>2
<1>4. QED
  BY <1>2, <1>3 DEF Paths

LEMMA UpdatePaths ==
  ASSUME NEW p, NEW row, p \in DOMAIN rows, row.path => rows[p].path, Update(p, row),
         files \subseteq files'
  PROVE  Paths
<1>1. rows' = [q \in DOMAIN rows |-> IF q = p THEN row ELSE rows[q]]
  BY DEF Update
<1>2. DOMAIN rows' = DOMAIN rows /\ \A q \in DOMAIN rows : rows'[q] = IF q = p THEN row ELSE rows[q]
  BY <1>1
<1>3. QED
  BY <1>2 DEF Paths

LEMMA ErasePaths == ASSUME NEW p, Erase(p), UNCHANGED files PROVE Paths
  BY DEF Erase, Restrict, Paths

\* The threads of a step.
LEMMA StaysResumes ==
  ASSUME PlaylistsInv, NEW a \in Actors, UNCHANGED th
  PROVE  \E t \in ThreadState : Resumes(a, t)
<1>1. th[a] \in ThreadState /\ Moves(a, th[a])
  BY ThreadIs, StaysPut
<1>2. QED
  BY <1>1 DEF Resumes

LEMMA AnswerResumes ==
  ASSUME NEW a \in Actors, Answer(a)
  PROVE  \E t \in ThreadState : Resumes(a, t)
<1>1. Home \in ThreadState /\ Home.at = "home" /\ Home.op = "none"
  BY HomeState DEF Home
<1>2. Moves(a, Home)
  BY DEF Answer, Moves
<1>3. QED
  BY <1>1, <1>2 DEF Resumes, Covering

LEMMA GotoResumes ==
  ASSUME PlaylistsInv, NEW a \in Actors, NEW place \in {"record", "result"}, Goto(a, place)
  PROVE  \E t \in ThreadState : Resumes(a, t)
<1> DEFINE t == [th[a] EXCEPT !.at = place]
<1>1. th[a] \in ThreadState
  BY ThreadIs
<1>2. t \in ThreadState /\ t.at = place /\ t.op = th[a].op /\ t.playlist = th[a].playlist
  BY <1>1 DEF ThreadState, Places
<1>3. Moves(a, t)
  BY DEF Goto, Moves
<1>4. QED
  BY <1>2, <1>3 DEF Resumes, Covering

LEMMA SyncEndResumes ==
  ASSUME PlaylistsInv, NEW a \in Actors, SyncFailed(a) \/ SyncDone(a)
  PROVE  \E t \in ThreadState : Resumes(a, t)
<1>1. th[a] \in ThreadState
  BY ThreadIs
<1>2. CASE Moves(a, Home)
  BY <1>2, AnswerResumes DEF Moves, Answer
<1>3. CASE Moves(a, Continue(a))
  <2>1. Home \in ThreadState
    BY HomeState
  <2>2. Continue(a) \in ThreadState /\ Continue(a).at = "scan" /\ Continue(a).op = "scan"
    BY <1>1, <2>1 DEF Continue, Scanning, ThreadState, Places, Ops
  <2>3. QED
    BY <1>3, <2>2 DEF Resumes, Covering
<1>4. CASE Moves(a, [th[a] EXCEPT !.at = "rollback"])
  <2> DEFINE t == [th[a] EXCEPT !.at = "rollback"]
  <2>1. t \in ThreadState /\ t.at = "rollback" /\ t.op = th[a].op /\ t.playlist = th[a].playlist
    BY <1>1 DEF ThreadState, Places
  <2>2. QED
    BY <1>4, <2>1 DEF Resumes, Covering
<1>5. Moves(a, Home) \/ Moves(a, Continue(a)) \/ Moves(a, [th[a] EXCEPT !.at = "rollback"])
  BY DEF SyncDone, SyncFailed, Moves
<1>6. QED
  BY <1>2, <1>3, <1>4, <1>5

LEMMA ArriveCovers ==
  ASSUME PlaylistsInv, NEW q \in Requests,
         \/ CreatePlaylist(q)
         \/ \E r \in Remotes : ImportPlaylist(q, r) \/ BindPlaylist(q, r)
         \/ \E p \in Playlists : SyncPlaylist(q, p)
  PROVE  Leaves(q)
<1>1. q \in Actors
  BY DEF Actors
<1>2. CASE CreatePlaylist(q)
  <2>1. used + 1 \notin DOMAIN rows
    BY DEF PlaylistsInv, TypeOK
  <2>2. Paths
    BY <1>2, <2>1, InsertPaths DEF CreatePlaylist
  <2>3. UNCHANGED th
    BY <1>2 DEF CreatePlaylist
  <2>4. QED
    BY <1>1, <2>2, <2>3, StaysResumes DEF Leaves
<1>3. CASE \E r \in Remotes : ImportPlaylist(q, r)
  <2>1. PICK r \in Remotes : ImportPlaylist(q, r)
    BY <1>3
  <2>2. Content[r][remote[r]] \in Seq(STRING)
    <3>1. remote[r] \in DOMAIN Content[r]
      BY <2>1 DEF ImportPlaylist, PlaylistsInv, TypeOK
    <3>2. QED
      BY <3>1, PlaylistsAssumption
  <2> DEFINE n == Thread("import", "create", 0)
             t == [n EXCEPT !.tracks = Content[r][remote[r]]]
  <2>3. n \in ThreadState /\ n.at = "create" /\ n.op = "import"
    BY NewThread DEF Ops, Places
  <2>4. Moves(q, t) /\ Paths
    BY <2>1, SamePaths DEF ImportPlaylist, Moves, tables
  <2> HIDE DEF n
  <2>5. t \in ThreadState /\ t.at = "create" /\ t.op = "import"
    BY <2>2, <2>3 DEF ThreadState
  <2> HIDE DEF t
  <2>6. QED
    BY <2>4, <2>5 DEF Leaves, Resumes, Covering
<1>4. CASE \E r \in Remotes : BindPlaylist(q, r)
  <2>1. PICK r \in Remotes : BindPlaylist(q, r)
    BY <1>4
  <2> DEFINE n == Thread("bind", "create", 0)
             t == [n EXCEPT !.remote = r]
  <2>3. n \in ThreadState /\ n.at = "create" /\ n.op = "bind"
    BY NewThread DEF Ops, Places
  <2>4. Moves(q, t) /\ Paths
    BY <2>1, SamePaths DEF BindPlaylist, Moves, tables
  <2> HIDE DEF n
  <2>5. t \in ThreadState /\ t.at = "create" /\ t.op = "bind"
    BY <2>1, <2>3 DEF ThreadState
  <2> HIDE DEF t
  <2>6. QED
    BY <2>4, <2>5 DEF Leaves, Resumes, Covering
<1>5. CASE \E p \in Playlists : SyncPlaylist(q, p)
  <2>1. PICK p \in Playlists : SyncPlaylist(q, p)
    BY <1>5
  <2>2. p \in Nat
    BY <2>1 DEF SyncPlaylist, Bound, Exists, PlaylistsInv, TypeOK
  <2> DEFINE t == Thread("sync", "sync", p)
  <2>3. t \in ThreadState /\ t.at = "sync" /\ t.op = "sync"
    BY <2>2, NewThread DEF Ops, Places
  <2>4. Moves(q, t) /\ Paths
    BY <2>1, SamePaths DEF SyncPlaylist, Moves, tables
  <2> HIDE DEF t
  <2>5. QED
    BY <2>3, <2>4 DEF Leaves, Resumes, Covering
<1>6. QED
  BY <1>2, <1>3, <1>4, <1>5

LEMMA SyncCovers ==
  ASSUME PlaylistsInv, NEW a \in Actors, SyncOne(a)
  PROVE  Leaves(a)
<1> DEFINE p == th[a].playlist
<1>1. th[a] \in ThreadState
  BY ThreadIs
<1>2. CASE \/ SyncReadFails(a) \/ FetchFails(a) \/ ReplaceFails(a) \/ ResultFails(a)
  <2>1. Paths
    BY <1>2, SamePaths DEF SyncReadFails, FetchFails, ReplaceFails, ResultFails, tables
  <2>2. SyncFailed(a) \/ Goto(a, "record")
    BY <1>2 DEF SyncReadFails, FetchFails, ReplaceFails, ResultFails
  <2>3. QED
    BY <2>1, <2>2, SyncEndResumes, GotoResumes DEF Leaves
<1>3. CASE SyncRead(a)
  <2>1. Paths
    BY <1>3, SamePaths DEF SyncRead, tables
  <2>2. CASE SyncFailed(a)
    BY <2>1, <2>2, SyncEndResumes DEF Leaves
  <2>3. CASE /\ Bound(p)
             /\ th' = [th EXCEPT ![a].remote = rows[p].remote, ![a].at = "fetch"]
    <3> DEFINE r == rows[p].remote
               t == [th[a] EXCEPT !.remote = r, !.at = "fetch"]
    <3>1. r \in Remotes \cup {None}
      BY <2>3 DEF Bound, Exists, PlaylistsInv, TypeOK, Row
    <3>2. Moves(a, t)
      <4>1. [th EXCEPT ![a].remote = r, ![a].at = "fetch"] = [th EXCEPT ![a] = t]
        BY <1>1 DEF PlaylistsInv, TypeOK
      <4>2. QED
        BY <2>3, <4>1 DEF Moves
    <3> HIDE DEF r
    <3>3. t \in ThreadState /\ t.at = "fetch" /\ t.op = th[a].op /\ t.playlist = th[a].playlist
      BY <1>1, <3>1 DEF ThreadState, Places
    <3>4. QED
      BY <2>1, <3>2, <3>3 DEF Leaves, Resumes, Covering
  <2>4. QED
    BY <1>3, <2>2, <2>3 DEF SyncRead
<1>4. CASE Fetch(a)
  <2> DEFINE tracks == Content[th[a].remote][remote[th[a].remote]]
             t == [th[a] EXCEPT !.tracks = tracks, !.at = "replace"]
  <2>1. tracks \in Seq(STRING)
    <3>1. th[a].remote \in Remotes
      BY <1>4, ThreadIs DEF Fetch, At, Sound
    <3>2. remote[th[a].remote] \in DOMAIN Content[th[a].remote]
      BY <1>4, <3>1 DEF Fetch, PlaylistsInv, TypeOK
    <3>3. QED
      BY <3>1, <3>2, PlaylistsAssumption
  <2>2. Moves(a, t)
    <3>1. th' = [th EXCEPT ![a].tracks = tracks, ![a].at = "replace"]
      BY <1>4 DEF Fetch
    <3>2. [th EXCEPT ![a].tracks = tracks, ![a].at = "replace"] = [th EXCEPT ![a] = t]
      BY <1>1 DEF PlaylistsInv, TypeOK
    <3>3. QED
      BY <3>1, <3>2 DEF Moves
  <2>3. Paths
    BY <1>4, SamePaths DEF Fetch, tables
  <2> HIDE DEF tracks
  <2>4. t \in ThreadState /\ t.at = "replace" /\ t.op = th[a].op /\ t.playlist = th[a].playlist
    BY <1>1, <2>1 DEF ThreadState, Places
  <2>5. QED
    BY <2>2, <2>3, <2>4 DEF Leaves, Resumes, Covering
<1>5. CASE Replace(a)
  <2>1. Paths
    BY <1>5, SamePaths DEF Replace
  <2>2. Goto(a, "result") \/ Goto(a, "record")
    BY <1>5 DEF Replace
  <2>3. QED
    BY <2>1, <2>2, GotoResumes DEF Leaves
<1>6. CASE Result(a) \/ Record(a)
  <2>1. UNCHANGED files /\ (SyncFailed(a) \/ SyncDone(a))
    BY <1>6 DEF Result, Record
  <2>2. \/ UNCHANGED rows
        \/ Exists(p) /\ Update(p, [rows[p] EXCEPT !.wait = 2, !.path = FALSE])
        \/ Exists(p) /\ Update(p, [rows[p] EXCEPT !.wait = 2])
    BY <1>6 DEF Result, Record
  <2>3. Exists(p) => rows[p] \in Row
    BY DEF Exists, PlaylistsInv, TypeOK
  <2>4. Exists(p) => /\ [rows[p] EXCEPT !.wait = 2, !.path = FALSE].path => rows[p].path
                     /\ [rows[p] EXCEPT !.wait = 2].path => rows[p].path
    BY <2>3 DEF Row
  <2>5. Paths
    BY <2>1, <2>2, <2>4, SamePaths, UpdatePaths DEF Exists
  <2>6. QED
    BY <2>1, <2>5, SyncEndResumes DEF Leaves
<1>7. QED
  BY <1>2, <1>3, <1>4, <1>5, <1>6 DEF SyncOne

LEMMA WriteCovers ==
  ASSUME PlaylistsInv, NEW q \in Requests,
         \/ Leave(q) \/ Create(q) \/ CreateFails(q) \/ AddItems(q) \/ RemoveItem(q)
         \/ MoveItem(q) \/ Delete(q) \/ Detach(q) \/ WriteFails(q) \/ Rollback(q)
  PROVE  Leaves(q)
<1> DEFINE p == th[q].playlist
<1>1. q \in Actors /\ th[q] \in ThreadState
  BY ThreadIs DEF Actors
<1>2. CASE Leave(q)
  <2> DEFINE t == [th[q] EXCEPT !.gone = TRUE]
  <2>1. t \in ThreadState /\ t.at = th[q].at /\ t.op = th[q].op /\ t.playlist = th[q].playlist
    BY <1>1 DEF ThreadState
  <2>2. Moves(q, t) /\ Paths
    BY <1>2, SamePaths DEF Leave, Moves, tables
  <2> HIDE DEF t
  <2>3. QED
    BY <2>1, <2>2 DEF Leaves, Resumes
<1>3. CASE Create(q)
  <2>1. CASE Answer(q) /\ UNCHANGED rows
    <3>1. Paths
      BY <1>3, <2>1, SamePaths DEF Create
    <3>2. QED
      BY <1>1, <2>1, <3>1, AnswerResumes DEF Leaves
  <2>2. CASE /\ Insert(used + 1, th[q].remote)
             /\ th' = [th EXCEPT ![q].playlist = used + 1,
                                 ![q].at = IF th[q].op = "bind" THEN "sync" ELSE "add"]
    <3>1. used \in Nat /\ used + 1 \in Nat /\ used + 1 \notin DOMAIN rows
      BY DEF PlaylistsInv, TypeOK
    <3>2. Paths
      BY <1>3, <2>2, <3>1, InsertPaths DEF Create
    <3> DEFINE place == IF th[q].op = "bind" THEN "sync" ELSE "add"
               t == [th[q] EXCEPT !.playlist = used + 1, !.at = place]
    <3>3. place \in {"sync", "add"} /\ place \in Places
      BY DEF Places
    <3>4. Moves(q, t)
      <4>1. [th EXCEPT ![q].playlist = used + 1, ![q].at = place] = [th EXCEPT ![q] = t]
        BY <1>1 DEF PlaylistsInv, TypeOK
      <4>2. QED
        BY <2>2, <4>1 DEF Moves
    <3> HIDE DEF place
    <3>5. t \in ThreadState /\ t.at = place /\ t.op = th[q].op
      BY <1>1, <3>1, <3>3 DEF ThreadState
    <3> HIDE DEF t
    <3>6. th[q].op \in {"import", "bind"}
      BY <1>1, <1>3, ThreadIs DEF Create, At, Sound
    <3>7. QED
      BY <3>2, <3>3, <3>4, <3>5, <3>6 DEF Leaves, Resumes, Covering
  <2>3. QED
    BY <1>3, <2>1, <2>2 DEF Create
<1>4. CASE \/ CreateFails(q) \/ AddItems(q) \/ RemoveItem(q) \/ MoveItem(q)
           \/ Delete(q) \/ Detach(q) \/ WriteFails(q) \/ Rollback(q)
  <2>1. Answer(q) /\ UNCHANGED files
    BY <1>4 DEF CreateFails, AddItems, RemoveItem, MoveItem, Delete, Detach, WriteFails,
                WriteRefused, Rollback, tables
  <2>2. \/ UNCHANGED rows
        \/ Erase(p)
        \/ Exists(p) /\ Update(p, [rows[p] EXCEPT !.remote = None, !.wait = 0])
    BY <1>4 DEF CreateFails, AddItems, RemoveItem, MoveItem, Delete, Detach, WriteFails,
                Rollback, tables
  <2>3. Exists(p) => ([rows[p] EXCEPT !.remote = None, !.wait = 0].path => rows[p].path)
    BY DEF Exists, PlaylistsInv, TypeOK, Row
  <2>4. Paths
    BY <2>1, <2>2, <2>3, SamePaths, ErasePaths, UpdatePaths DEF Exists
  <2>5. QED
    BY <1>1, <2>1, <2>4, AnswerResumes DEF Leaves
<1>5. QED
  BY <1>2, <1>3, <1>4

LEMMA RunCovers ==
  ASSUME PlaylistsInv, Tick \/ Scan \/ ScanNext \/ (\E r \in Remotes : Change(r)) \/ UNCHANGED vars
  PROVE  Leaves(Syncer)
<1>1. Syncer \in Actors
  BY DEF Actors
<1>2. th[Syncer] \in ThreadState /\ th[Syncer].todo \in SUBSET Nat
  BY <1>1, ThreadIs DEF ThreadState
<1>3. Paths
  <2>1. CASE Tick
    <3>1. rows' = [p \in DOMAIN rows |-> [rows[p] EXCEPT !.wait = Aged(@)]] /\ UNCHANGED files
      BY <2>1 DEF Tick
    <3>2. \A p \in DOMAIN rows : [rows[p] EXCEPT !.wait = Aged(@)].path = rows[p].path
      BY DEF Row, PlaylistsInv, TypeOK
    <3>3. QED
      BY <3>1, <3>2 DEF Paths
  <2>2. CASE UNCHANGED <<rows, files>>
    BY <2>2, SamePaths
  <2>3. QED
    BY <2>1, <2>2 DEF Scan, ScanNext, Change, tables, vars
<1>4. \E t \in ThreadState : Resumes(Syncer, t)
  <2>1. CASE UNCHANGED th
    BY <1>1, <2>1, StaysResumes
  <2>2. CASE Answer(Syncer)
    BY <1>1, <2>2, AnswerResumes
  <2>3. CASE Scan
    <3> DEFINE due == {p \in DOMAIN rows : Bound(p) /\ rows[p].wait = 0}
    <3>1. UNCHANGED th \/ Moves(Syncer, Scanning(due))
      BY <2>3 DEF Scan, Moves
    <3>2. due \in SUBSET Nat
      BY DEF PlaylistsInv, TypeOK
    <3> HIDE DEF due
    <3>3. /\ Scanning(due) \in ThreadState
          /\ Scanning(due).at = "scan" /\ Scanning(due).op = "scan"
      <4>1. Home \in ThreadState
        BY HomeState
      <4>2. QED
        BY <3>2, <4>1 DEF Scanning, ThreadState, Places, Ops
    <3>4. QED
      BY <2>1, <3>1, <3>3 DEF Resumes, Covering
  <2>4. CASE \E p \in th[Syncer].todo :
               th' = [th EXCEPT ![Syncer] = [Thread("scan", "sync", p) EXCEPT
                                              !.todo = th[Syncer].todo \ {p}]]
    <3> DEFINE left(p) == th[Syncer].todo \ {p}
               t(p) == [Thread("scan", "sync", p) EXCEPT !.todo = left(p)]
    <3>1. PICK p \in th[Syncer].todo : Moves(Syncer, t(p))
      BY <2>4 DEF Moves
    <3>2. p \in Nat /\ left(p) \in SUBSET Nat
      BY <1>2
    <3> HIDE DEF left
    <3>3. PICK n \in ThreadState : /\ n = Thread("scan", "sync", p)
                                   /\ n.at = "sync" /\ n.op = "scan"
      BY <3>2, NewThread DEF Ops, Places
    <3>4. PICK u : u = t(p) /\ u = [n EXCEPT !.todo = left(p)]
      BY <3>3
    <3> HIDE DEF t
    <3>5. u \in ThreadState /\ u.at = "sync" /\ u.op = "scan"
      BY <3>2, <3>3, <3>4 DEF ThreadState
    <3>6. Moves(Syncer, u)
      BY <3>1, <3>4
    <3>7. QED
      BY <3>5, <3>6 DEF Resumes, Covering
  <2>5. QED
    BY <2>1, <2>2, <2>3, <2>4 DEF Tick, ScanNext, Change, vars
<1>5. QED
  BY <1>3, <1>4 DEF Leaves

\* An operation of a cover starts: what runs against it is known.
LEMMA ManageCovers ==
  ASSUME CoversInv, PlaylistsInv',
         NEW q \in Requests, NEW p \in Playlists, NEW op \in DOMAIN Writes, Manage(q, op, p)
  PROVE  CoversInv'
<1> USE DEF CoversInv
<1>1. q \in Actors /\ p \in Nat /\ rows[p] \in Row /\ UNCHANGED <<rows, files>>
  BY DEF Actors, Manage, Exists, PlaylistsInv, TypeOK, tables
<1>2. /\ op \in {"add", "remove", "move", "cover", "uncover", "delete", "detach"}
      /\ op \in Ops /\ Writes[op] \in Places
      /\ Writes[op] \in {"install", "cover"} => op = "cover"
      /\ Writes[op] \in {"uncover", "unlink"} => op = "uncover"
      /\ Writes[op] \notin {"cover", "unlink"}
  BY DEF Writes, Ops, Places
<1> DEFINE n == Thread(op, Writes[op], p)
<1>3. n \in ThreadState /\ n.at = Writes[op] /\ n.op = op /\ n.playlist = p
  BY <1>1, <1>2, NewThread
<1>4. PICK x \in Tracks, ord \in 0..MaxItems, to \in 1..MaxItems :
        Moves(q, CASE op = "add" -> [n EXCEPT !.tracks = <<x>>]
                   [] op = "remove" -> [n EXCEPT !.ord = ord]
                   [] op = "move" -> [n EXCEPT !.ord = ord, !.to = to]
                   [] op = "uncover" -> [n EXCEPT !.path = rows[p].path]
                   [] OTHER -> n)
  BY Zenon DEF Manage, Moves
<1>5. <<x>> \in Seq(STRING) /\ ord \in Nat /\ to \in Nat /\ rows[p].path \in BOOLEAN
  BY <1>1, PlaylistsAssumption DEF Row
<1> HIDE DEF n
<1>6. \E t \in ThreadState :
        Moves(q, t) /\ t.at = n.at /\ t.op = n.op /\ t.playlist = n.playlist
  <2>1. CASE op = "add"
    <3>1. [n EXCEPT !.tracks = <<x>>] \in ThreadState
      BY <1>3, <1>5 DEF ThreadState
    <3>2. Moves(q, [n EXCEPT !.tracks = <<x>>])
      BY <1>4, <2>1
    <3>3. QED
      BY <1>3, <3>1, <3>2 DEF ThreadState
  <2>2. CASE op = "remove"
    <3>1. [n EXCEPT !.ord = ord] \in ThreadState
      BY <1>3, <1>5 DEF ThreadState
    <3>2. Moves(q, [n EXCEPT !.ord = ord])
      BY <1>4, <2>2
    <3>3. QED
      BY <1>3, <3>1, <3>2 DEF ThreadState
  <2>3. CASE op = "move"
    <3>1. [n EXCEPT !.ord = ord, !.to = to] \in ThreadState
      BY <1>3, <1>5 DEF ThreadState
    <3>2. Moves(q, [n EXCEPT !.ord = ord, !.to = to])
      BY <1>4, <2>3
    <3>3. QED
      BY <1>3, <3>1, <3>2 DEF ThreadState
  <2>4. CASE op = "uncover"
    <3>1. [n EXCEPT !.path = rows[p].path] \in ThreadState
      BY <1>3, <1>5 DEF ThreadState
    <3>2. Moves(q, [n EXCEPT !.path = rows[p].path])
      BY <1>4, <2>4
    <3>3. QED
      BY <1>3, <3>1, <3>2 DEF ThreadState
  <2>5. CASE op \notin {"add", "remove", "move", "uncover"}
    <3>1. Moves(q, n)
      BY <1>4, <2>5
    <3>2. QED
      BY <1>3, <3>1
  <2>6. QED
    BY <2>1, <2>2, <2>3, <2>4, <2>5
<1>7. PICK t \in ThreadState :
        Moves(q, t) /\ t.at = Writes[op] /\ t.op = op /\ t.playlist = p
  BY <1>3, <1>6
<1>8. /\ raced \subseteq raced'
      /\ op = "cover" /\ Running("uncover", p) => p \in raced'
      /\ op = "uncover" /\ Running("cover", p) => p \in raced'
  BY DEF Manage, Opposite
<1>9. CoverHasFile'
  BY <1>1, <1>8 DEF CoverHasFile
<1>10. \A u, v \in Requests : StaysApart(th[u], th[v])
  BY <1>8 DEF CoverInv, Apart, StaysApart
<1>11. ASSUME NEW u \in Requests
       PROVE  CoverStays(th[u]) /\ StaysApart(t, th[u]) /\ StaysApart(th[u], t)
  <2>1. CoverStays(th[u])
    <3>1. CoverThread(th[u])
      BY DEF CoverInv
    <3>2. QED
      BY <1>1, <1>8, <3>1 DEF CoverThread, CoverStays, Exists
  <2>2. StaysApart(t, th[u])
    BY <1>7, <1>8 DEF StaysApart, Running
  <2>3. StaysApart(th[u], t)
    BY <1>7, <1>8 DEF StaysApart, Running
  <2>4. QED
    BY <2>1, <2>2, <2>3
<1>12. CoverStays(t)
  BY <1>2, <1>7 DEF CoverStays
<1>13. CoverInv'
  BY <1>1, <1>2, <1>7, <1>10, <1>11, <1>12, CoverStep
<1>14. QED
  BY <1>9, <1>13

\* The last step of a handler of a cover, or one that goes on at the same cover.
LEMMA CoverMoves ==
  ASSUME PlaylistsInv, CoverInv, NEW q \in Requests, NEW t \in ThreadState, Moves(q, t),
         t.at \in {"install", "cover"} => t.op = "cover",
         t.at \in {"uncover", "unlink"} => t.op = "uncover",
         CoverStays(t),
         ~Covering(t) \/ (t.op = th[q].op /\ t.playlist = th[q].playlist),
         \A u, v \in Requests : StaysApart(th[u], th[v]),
         \A u \in Requests : u # q => CoverStays(th[u])
  PROVE  CoverInv'
<1>1. q \in Actors
  BY DEF Actors
<1>2. ASSUME NEW u \in Requests PROVE StaysApart(t, th[u]) /\ StaysApart(th[u], t)
  <2>1. StaysApart(th[q], th[u]) /\ StaysApart(th[u], th[q])
    OBVIOUS
  <2>2. QED
    BY <2>1 DEF StaysApart, Covering
<1>3. QED
  BY <1>1, <1>2, CoverStep

LEMMA CoverAnswers ==
  ASSUME PlaylistsInv, CoverInv, NEW q \in Requests, Answer(q),
         \A u, v \in Requests : StaysApart(th[u], th[v]),
         \A u \in Requests : u # q => CoverStays(th[u])
  PROVE  CoverInv'
<1>1. PICK t \in ThreadState : t = Home
  BY HomeState
<1>2. t.at = "home" /\ t.op = "none"
  BY <1>1 DEF Home
<1>3. Moves(q, t) /\ CoverStays(t) /\ ~Covering(t)
  BY <1>1, <1>2 DEF Answer, Moves, CoverStays, Covering
<1>4. QED
  BY <1>2, <1>3, CoverMoves

LEMMA CoverGoes ==
  ASSUME PlaylistsInv, CoverInv, NEW q \in Requests, NEW place \in {"cover", "unlink"},
         Goto(q, place),
         place = "cover" => th[q].at = "install" /\ th[q].playlist \in files',
         place = "unlink" => /\ th[q].at = "uncover"
                             /\ th[q].playlist \in DOMAIN rows' => ~rows'[th[q].playlist].path,
         \A u, v \in Requests : StaysApart(th[u], th[v]),
         \A u \in Requests : u # q => CoverStays(th[u])
  PROVE  CoverInv'
<1>1. th[q] \in ThreadState /\ CoverThread(th[q])
  BY ThreadIs DEF Actors, CoverInv
<1>2. PICK t : t = [th[q] EXCEPT !.at = place]
  OBVIOUS
<1>3. t \in ThreadState /\ t.at = place /\ t.op = th[q].op /\ t.playlist = th[q].playlist
  BY <1>1, <1>2 DEF ThreadState, Places
<1>4. Moves(q, t)
  BY <1>2 DEF Goto, Moves
<1>5. /\ place = "cover" => t.op = "cover"
      /\ place = "unlink" => t.op = "uncover"
  BY <1>1, <1>3 DEF CoverThread
<1>6. CoverStays(t)
  BY <1>3 DEF CoverStays
<1>7. QED
  BY <1>3, <1>4, <1>5, <1>6, CoverMoves

\* The file of an upload: unless a removal runs, every thread of this cover finds it.
LEMMA InstallCovers ==
  ASSUME CoversInv, PlaylistsInv', NEW q \in Requests, InstallCover(q)
  PROVE  CoversInv'
<1> USE DEF CoversInv
<1> DEFINE p == th[q].playlist
<1>1. /\ files' = files \cup {p} /\ UNCHANGED rows /\ Goto(q, "cover") /\ th[q].at = "install"
      /\ raced' = IF Running("uncover", p) THEN raced ELSE raced \ {p}
  BY DEF InstallCover, At
<1>2. CoverHasFile'
  BY <1>1 DEF CoverHasFile
<1>3. ASSUME NEW u \in Requests, NEW v \in Requests PROVE StaysApart(th[u], th[v])
  <2>1. Apart(th[u], th[v])
    BY DEF CoverInv
  <2>2. th[v].op = "uncover" /\ th[v].playlist = p => Running("uncover", p)
    BY DEF Running
  <2>3. QED
    BY <1>1, <2>1, <2>2 DEF Apart, StaysApart
<1>4. ASSUME NEW u \in Requests PROVE CoverStays(th[u])
  <2>1. CoverThread(th[u])
    BY DEF CoverInv
  <2>2. th[u].op = "uncover" /\ th[u].playlist = p => Running("uncover", p)
    BY DEF Running
  <2>3. QED
    BY <1>1, <2>1, <2>2 DEF CoverThread, CoverStays, Exists
<1>5. CoverInv'
  BY <1>1, <1>3, <1>4, CoverGoes
<1>6. QED
  BY <1>2, <1>5

\* The row of a removal: unless an upload runs, it names no cover any more.
LEMMA ClearCovers ==
  ASSUME CoversInv, PlaylistsInv', NEW q \in Requests, ClearCover(q)
  PROVE  CoversInv'
<1> USE DEF CoversInv
<1> DEFINE p == th[q].playlist
<1>1. /\ th[q].at = "uncover" /\ UNCHANGED files /\ (Goto(q, "unlink") \/ Answer(q))
      /\ raced' = IF Running("cover", p) THEN raced ELSE raced \ {p}
  BY DEF ClearCover, At
<1>2. /\ DOMAIN rows' = DOMAIN rows
      /\ \A r \in DOMAIN rows : r # p => rows'[r] = rows[r]
      /\ p \in DOMAIN rows' => ~rows'[p].path
  <2>1. CASE Exists(p)
    <3>1. Update(p, [rows[p] EXCEPT !.path = FALSE])
      BY <2>1 DEF ClearCover
    <3>2. /\ DOMAIN rows' = DOMAIN rows
          /\ \A r \in DOMAIN rows : r # p => rows'[r] = rows[r]
          /\ rows'[p] = [rows[p] EXCEPT !.path = FALSE]
      BY <2>1, <3>1 DEF Update, Exists
    <3>3. rows[p] \in Row
      BY <2>1 DEF Exists, PlaylistsInv, TypeOK
    <3>4. ~[rows[p] EXCEPT !.path = FALSE].path
      BY <3>3 DEF Row
    <3>5. QED
      BY <3>2, <3>4
  <2>2. CASE ~Exists(p)
    <3>1. UNCHANGED rows
      BY <2>2 DEF ClearCover
    <3>2. QED
      BY <2>2, <3>1 DEF Exists
  <2>3. QED
    BY <2>1, <2>2
<1>3. CoverHasFile'
  BY <1>1, <1>2 DEF CoverHasFile
<1>4. ASSUME NEW u \in Requests, NEW v \in Requests PROVE StaysApart(th[u], th[v])
  <2>1. Apart(th[u], th[v])
    BY DEF CoverInv
  <2>2. th[u].op = "cover" /\ th[u].playlist = p => Running("cover", p)
    BY DEF Running
  <2>3. QED
    BY <1>1, <2>1, <2>2 DEF Apart, StaysApart
<1>5. ASSUME NEW u \in Requests PROVE CoverStays(th[u])
  <2>1. CoverThread(th[u])
    BY DEF CoverInv
  <2>2. th[u].op = "cover" /\ th[u].playlist = p => Running("cover", p)
    BY DEF Running
  <2>3. QED
    BY <1>1, <1>2, <2>1, <2>2 DEF CoverThread, CoverStays, Exists
<1>6. CoverInv'
  BY <1>1, <1>2, <1>4, <1>5, CoverGoes, CoverAnswers
<1>7. QED
  BY <1>3, <1>6

\* The row of an upload and the file of a removal.
LEMMA HandlerCovers ==
  ASSUME CoversInv, PlaylistsInv', NEW q \in Requests, SetCover(q) \/ RemoveCover(q)
  PROVE  CoversInv'
<1> USE DEF CoversInv
<1> DEFINE p == th[q].playlist
<1>1. th[q] \in ThreadState /\ CoverThread(th[q])
  BY ThreadIs DEF Actors, CoverInv
<1>2. Answer(q) /\ UNCHANGED raced
  BY DEF SetCover, RemoveCover
<1>3. ASSUME NEW u \in Requests, NEW v \in Requests PROVE StaysApart(th[u], th[v])
  BY <1>2 DEF CoverInv, Apart, StaysApart
<1>4. CASE SetCover(q)
  <2>1. UNCHANGED files /\ th[q].op = "cover" /\ p \in files \cup raced
    BY <1>1, <1>4 DEF SetCover, At, CoverThread
  <2>2. /\ DOMAIN rows' = DOMAIN rows
        /\ \A r \in DOMAIN rows : r # p => rows'[r] = rows[r]
    BY <1>4 DEF SetCover, Update
  <2>3. CoverHasFile'
    BY <1>2, <2>1, <2>2 DEF CoverHasFile
  <2>4. ASSUME NEW u \in Requests PROVE CoverStays(th[u])
    <3>1. CoverThread(th[u]) /\ Apart(th[q], th[u])
      BY DEF CoverInv
    <3>2. QED
      BY <1>2, <2>1, <2>2, <3>1 DEF CoverThread, CoverStays, Apart, Exists
  <2>5. QED
    BY <1>2, <1>3, <2>3, <2>4, CoverAnswers
<1>5. CASE RemoveCover(q)
  <2>1. files' = files \ {p} /\ UNCHANGED rows /\ th[q].op = "uncover"
    BY <1>1, <1>5 DEF RemoveCover, At, CoverThread
  <2>2. p \in DOMAIN rows => ~rows[p].path \/ p \in raced
    BY <1>1, <1>5 DEF RemoveCover, At, CoverThread, Exists
  <2>3. CoverHasFile'
    BY <1>2, <2>1, <2>2 DEF CoverHasFile
  <2>4. ASSUME NEW u \in Requests PROVE CoverStays(th[u])
    <3>1. CoverThread(th[u]) /\ Apart(th[u], th[q])
      BY DEF CoverInv
    <3>2. QED
      BY <1>2, <2>1, <3>1 DEF CoverThread, CoverStays, Apart, Exists
  <2>5. QED
    BY <1>2, <1>3, <2>3, <2>4, CoverAnswers
<1>6. QED
  BY <1>4, <1>5

LEMMA CrashCovers ==
  ASSUME CoversInv, PlaylistsInv', Crash
  PROVE  CoversInv'
<1> USE DEF CoversInv
<1>1. th' = [a \in Actors |-> Home] /\ UNCHANGED <<files, raced>>
  BY DEF Crash
<1>2. CoverInv'
  <2>1. \A q \in Requests : th'[q] = Home
    BY <1>1 DEF Actors
  <2>2. Home.at = "home" /\ Home.op = "none"
    BY DEF Home
  <2>3. QED
    BY <2>1, <2>2 DEF CoverInv, CoverThread, Apart
<1>3. Paths
  <2>1. PICK ticks \in 0..2 :
          rows' = [p \in DOMAIN rows |-> [rows[p] EXCEPT !.wait = IF @ < ticks THEN 0 ELSE @ - ticks]]
    BY DEF Crash
  <2>2. \A p \in DOMAIN rows :
          [rows[p] EXCEPT !.wait = IF @ < ticks THEN 0 ELSE @ - ticks].path = rows[p].path
    BY DEF Row, PlaylistsInv, TypeOK
  <2>3. QED
    BY <1>1, <2>1, <2>2 DEF Paths
<1>4. QED
  BY <1>1, <1>2, <1>3, PathsStay

LEMMA CoversInit == Init => CoversInv
<1> SUFFICES ASSUME Init PROVE CoversInv
  OBVIOUS
<1>1. CoverInv
  <2>1. \A q \in Requests : th[q] = Home
    BY DEF Init, Actors
  <2>2. Home.at = "home" /\ Home.op = "none"
    BY DEF Home
  <2>3. QED
    BY <2>1, <2>2 DEF CoverInv, CoverThread, Apart
<1>2. CoverHasFile
  BY DEF Init, CoverHasFile
<1>3. QED
  BY <1>1, <1>2, PlaylistsInit DEF CoversInv

LEMMA CoversStep == CoversInv /\ [Next]_vars => CoversInv'
<1> SUFFICES ASSUME CoversInv, [Next]_vars PROVE CoversInv'
  OBVIOUS
<1>1. PlaylistsInv /\ PlaylistsInv'
  BY PlaylistsStep DEF CoversInv
<1>2. Syncer \in Actors /\ Requests \subseteq Actors
  BY DEF Actors
<1>3. ASSUME NEW q \in Requests, Arrive(q) PROVE CoversInv'
  <2>1. CASE \E p \in Playlists : \E op \in DOMAIN Writes : Manage(q, op, p)
    BY <1>1, <2>1, ManageCovers
  <2>2. CASE \/ CreatePlaylist(q)
             \/ \E r \in Remotes : ImportPlaylist(q, r) \/ BindPlaylist(q, r)
             \/ \E p \in Playlists : SyncPlaylist(q, p)
    <3>1. Leaves(q)
      BY <1>1, <2>2, ArriveCovers
    <3>2. UNCHANGED raced
      BY <2>2 DEF CreatePlaylist, ImportPlaylist, BindPlaylist, SyncPlaylist
    <3>3. QED
      BY <1>1, <1>2, <3>1, <3>2, LeavesCovers
  <2>3. QED
    BY <1>3, <2>1, <2>2 DEF Arrive
<1>4. ASSUME NEW q \in Requests, Leave(q) \/ Write(q) PROVE CoversInv'
  <2>1. CASE InstallCover(q) \/ SetCover(q) \/ ClearCover(q) \/ RemoveCover(q)
    BY <1>1, <2>1, InstallCovers, ClearCovers, HandlerCovers
  <2>2. CASE \/ Leave(q) \/ Create(q) \/ CreateFails(q) \/ AddItems(q) \/ RemoveItem(q)
             \/ MoveItem(q) \/ Delete(q) \/ Detach(q) \/ WriteFails(q) \/ Rollback(q)
    <3>1. Leaves(q)
      BY <1>1, <2>2, WriteCovers
    <3>2. UNCHANGED raced
      BY <2>2 DEF Leave, Create, CreateFails, AddItems, RemoveItem, MoveItem, Delete, Detach,
                  WriteFails, Rollback
    <3>3. QED
      BY <1>1, <1>2, <3>1, <3>2, LeavesCovers
  <2>3. QED
    BY <1>4, <2>1, <2>2 DEF Write
<1>5. ASSUME NEW a \in Actors, SyncOne(a) PROVE CoversInv'
  <2>1. Leaves(a)
    BY <1>1, <1>5, SyncCovers
  <2>2. UNCHANGED raced
    BY <1>5 DEF SyncOne, SyncRead, SyncReadFails, Fetch, FetchFails, Replace, ReplaceFails,
                Result, ResultFails, Record
  <2>3. QED
    BY <1>1, <2>1, <2>2, LeavesCovers DEF Actors
<1>6. CASE Tick \/ Scan \/ ScanNext \/ (\E r \in Remotes : Change(r)) \/ UNCHANGED vars
  <2>1. Leaves(Syncer)
    BY <1>1, <1>6, RunCovers
  <2>2. UNCHANGED raced
    BY <1>6 DEF Tick, Scan, ScanNext, Change, vars
  <2>3. QED
    BY <1>1, <1>2, <2>1, <2>2, LeavesCovers
<1>7. CASE Crash
  BY <1>1, <1>7, CrashCovers
<1>8. QED
  BY <1>3, <1>4, <1>5, <1>6, <1>7 DEF Next

\* What the rows say is so, for every value of the constants: a bound playlist is the only
\* one of its remote playlist and shows a version of it, and a row with a cover has the
\* file, wherever an upload or a removal stopped and whatever ran besides; a cover that was
\* uploaded and removed at once is excepted until one of the two runs alone.
THEOREM RowsAreSo == Spec => []RowsAreTrue
<1>1. CoversInv => RowsAreTrue
  BY DEF CoversInv, PlaylistsInv, RowsAreTrue
<1>2. CoversInv /\ [Next]_vars => CoversInv'
  BY CoversStep
<1>3. QED
  BY <1>1, <1>2, CoversInit, PTL DEF Spec
=============================================================================

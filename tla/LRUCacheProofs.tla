--------------------------- MODULE LRUCacheProofs ---------------------------
(***************************************************************************)
(* Proofs about LRUCache, for every capacity (0 included), every set of     *)
(* keys and values and every number of lookups; the last section proves     *)
(* the eviction order, with the history of RecentUse.                       *)
(***************************************************************************)
EXTENDS RecentUse, FiniteSetTheorems, SequenceTheorems, TLAPS

ListEntry == [key: Key, value: Value]

\* Coherent and Bounded are inductive once map.size() is the list's length.
SizesAgree == IsFiniteSet(map) /\ Cardinality(map) = Len(list)

CacheInv == TypeOK /\ Coherent /\ Bounded /\ SizesAgree

\* At least one entry fits.
LEMMA RoomPositive == Room \in Nat /\ Room >= 1
  BY CapacityAssumption DEF Room

-----------------------------------------------------------------------------
\* The entry of a key is the one at its position, and the only one.
LEMMA PositionOf ==
    ASSUME TypeOK, Coherent
    PROVE  /\ \A k \in map : Position(k) \in DOMAIN list /\ list[Position(k)].key = k
           /\ \A i \in DOMAIN list : Position(list[i].key) = i /\ list[i].key \in map
  <1>1. ASSUME NEW k \in map
        PROVE  Position(k) \in DOMAIN list /\ list[Position(k)].key = k
    <2>1. \E i \in DOMAIN list : list[i].key = k
      BY DEF Coherent
    <2> QED BY <2>1 DEF Position
  <1>2. ASSUME NEW i \in DOMAIN list
        PROVE  Position(list[i].key) = i /\ list[i].key \in map
    <2>1. list[i].key \in map
      BY DEF Coherent
    <2>2. Position(list[i].key) \in DOMAIN list
          /\ list[Position(list[i].key)].key = list[i].key
      BY <1>1, <2>1
    <2> QED BY <2>1, <2>2 DEF Coherent
  <1> QED BY <1>1, <1>2

\* Where the entry that ToFront(s, i) has at j was before, and where it goes.
From(i, j) == IF j = 1 THEN i ELSE IF j <= i THEN j - 1 ELSE j
Goes(i, m) == IF m = i THEN 1 ELSE IF m < i THEN m + 1 ELSE m

\* Moving an entry to the front is a permutation of the positions.
LEMMA FromPermutes ==
    ASSUME NEW n \in Nat, NEW i \in 1..n
    PROVE  /\ \A j \in 1..n : From(i, j) \in 1..n
           /\ \A j, k \in 1..n : From(i, j) = From(i, k) => j = k
           /\ \A m \in 1..n : Goes(i, m) \in 1..n /\ From(i, Goes(i, m)) = m
  BY DEF From, Goes

LEMMA ToFrontFacts ==
    ASSUME NEW T, NEW s \in Seq(T), NEW i \in DOMAIN s
    PROVE  /\ ToFront(s, i) \in Seq(T)
           /\ Len(ToFront(s, i)) = Len(s)
           /\ \A j \in 1..Len(s) : ToFront(s, i)[j] = s[From(i, j)]
  <1>1. DOMAIN s = 1..Len(s) /\ Len(s) \in Nat /\ i \in 1..Len(s)
    OBVIOUS
  <1>2. \A j \in 1..Len(s) : ToFront(s, i)[j] = s[From(i, j)]
    BY <1>1 DEF ToFront, From
  <1>3. \A j \in 1..Len(s) : s[From(i, j)] \in T
    <2> TAKE j \in 1..Len(s)
    <2>1. From(i, j) \in 1..Len(s)
      BY <1>1, FromPermutes
    <2> QED BY <1>1, <2>1, ElementOfSeq
  <1>4. DOMAIN ToFront(s, i) = 1..Len(s) /\ ToFront(s, i) = [j \in 1..Len(s) |-> ToFront(s, i)[j]]
    BY DEF ToFront
  <1>5. ToFront(s, i) \in [1..Len(s) -> T]
    BY <1>2, <1>3, <1>4
  <1>6. ToFront(s, i) \in Seq(T)
    BY <1>1, <1>5
  <1>7. Len(ToFront(s, i)) = Len(s)
    BY <1>1, <1>4, <1>6
  <1> QED BY <1>2, <1>6, <1>7

-----------------------------------------------------------------------------
\* A key of the map has an entry of the right type, at its position.
LEMMA EntryOf ==
    ASSUME CacheInv, NEW k \in map
    PROVE  /\ Position(k) \in DOMAIN list
           /\ list \in Seq(ListEntry)
           /\ list[Position(k)] \in ListEntry
  <1>1. TypeOK /\ Coherent
    BY DEF CacheInv
  <1>2. Position(k) \in DOMAIN list
    BY <1>1, PositionOf
  <1>3. list \in Seq(ListEntry)
    BY <1>1 DEF TypeOK, ListEntry
  <1>4. list[Position(k)] \in ListEntry
    <2>1. Position(k) \in 1..Len(list)
      BY <1>2, <1>3
    <2> QED BY <1>3, <2>1, ElementOfSeq
  <1> QED BY <1>2, <1>3, <1>4

LEMMA InitCache == Init => CacheInv
  <1> SUFFICES ASSUME Init PROVE CacheInv
    OBVIOUS
  <1>1. list = <<>> /\ map = {} /\ Len(list) = 0 /\ DOMAIN list = {}
    BY DEF Init
  <1>2. TypeOK
    BY <1>1 DEF Init, TypeOK
  <1>3. Coherent
    BY <1>1 DEF Coherent
  <1> QED BY <1>1, <1>2, <1>3, RoomPositive, FS_EmptySet DEF CacheInv, Bounded, SizesAgree

\* A reordering that keeps every key where it can be found keeps the invariant.
LEMMA Reordered ==
    ASSUME CacheInv, TypeOK', NEW i \in DOMAIN list,
           map' = map, Len(list') = Len(list),
           \A j \in 1..Len(list) : list'[j].key = list[From(i, j)].key
    PROVE  CacheInv'
  <1>1. /\ DOMAIN list = 1..Len(list) /\ DOMAIN list' = 1..Len(list)
        /\ Len(list) \in Nat /\ i \in 1..Len(list)
    BY DEF CacheInv, TypeOK
  <1>2. /\ \A j \in 1..Len(list) : From(i, j) \in 1..Len(list)
        /\ \A j, k \in 1..Len(list) : From(i, j) = From(i, k) => j = k
        /\ \A m \in 1..Len(list) : Goes(i, m) \in 1..Len(list) /\ From(i, Goes(i, m)) = m
    BY <1>1, FromPermutes
  <1>3. map = {list'[j].key : j \in DOMAIN list'}
    <2>1. map = {list[m].key : m \in 1..Len(list)}
      BY <1>1 DEF CacheInv, Coherent
    <2>2. \A j \in 1..Len(list) : \E m \in 1..Len(list) : list'[j].key = list[m].key
      BY <1>2
    <2>3. \A m \in 1..Len(list) : \E j \in 1..Len(list) : list'[j].key = list[m].key
      BY <1>2
    <2>4. map \subseteq {list'[j].key : j \in 1..Len(list)}
      <3>1. ASSUME NEW x \in map PROVE \E j \in 1..Len(list) : list'[j].key = x
        <4>1. PICK m \in 1..Len(list) : list[m].key = x
          BY <2>1, <3>1
        <4> QED BY <2>3, <4>1
      <3> QED BY <3>1
    <2>5. {list'[j].key : j \in 1..Len(list)} \subseteq map
      BY <2>1, <2>2
    <2> QED BY <1>1, <2>4, <2>5
  <1>4. ASSUME NEW j \in DOMAIN list', NEW k \in DOMAIN list', list'[j].key = list'[k].key
        PROVE  j = k
    <2>1. list[From(i, j)].key = list[From(i, k)].key
      BY <1>1, <1>4
    <2>2. From(i, j) = From(i, k)
      BY <1>1, <1>2, <2>1 DEF CacheInv, Coherent
    <2> QED BY <1>1, <1>2, <2>2
  <1>5. Coherent'
    BY <1>3, <1>4 DEF Coherent
  <1> QED BY <1>5 DEF CacheInv, Bounded, SizesAgree, Room

LEMMA StepGetHit ==
    ASSUME CacheInv, NEW k \in Key, GetHit(k)
    PROVE  CacheInv'
  <1> DEFINE i == Position(k)
  <1>1. i \in DOMAIN list /\ list \in Seq(ListEntry) /\ list[i] \in ListEntry
    BY EntryOf DEF GetHit
  <1>2. /\ map' = map /\ list' = ToFront(list, i)
        /\ reply' = [op |-> "get", key |-> k, value |-> list[i].value]
        /\ hits' = hits + 1 /\ misses' = misses
    BY DEF GetHit, Promote
  <1>3. /\ list' \in Seq(ListEntry) /\ Len(list') = Len(list)
        /\ \A j \in 1..Len(list) : list'[j] = list[From(i, j)]
    BY <1>1, <1>2, ToFrontFacts
  <1>4. TypeOK'
    BY <1>1, <1>2, <1>3 DEF CacheInv, TypeOK, ListEntry
  <1> QED BY <1>1, <1>2, <1>3, <1>4, Reordered

\* An update keeps the keys of the list, its own first.
LEMMA UpdateMoves ==
    ASSUME CacheInv, NEW k \in Key, NEW v \in Value, PutExisting(k, v)
    PROVE  /\ list' \in Seq(ListEntry) /\ Len(list') = Len(list)
           /\ Position(k) \in DOMAIN list
           /\ \A j \in 1..Len(list) : list'[j].key = list[From(Position(k), j)].key
  <1> DEFINE i == Position(k)
             updated == [list EXCEPT ![i].value = v]
  <1>1. i \in DOMAIN list /\ list \in Seq(ListEntry) /\ list[i] \in ListEntry
    BY EntryOf DEF PutExisting
  <1>2. list' = ToFront(updated, i)
    BY DEF PutExisting
  <1>3. /\ updated \in Seq(ListEntry) /\ Len(updated) = Len(list) /\ i \in DOMAIN updated
        /\ \A j \in 1..Len(list) : updated[j].key = list[j].key
    BY <1>1 DEF ListEntry
  <1>4. /\ list' \in Seq(ListEntry) /\ Len(list') = Len(list)
        /\ \A j \in 1..Len(list) : list'[j] = updated[From(i, j)]
    <2> HIDE DEF updated
    <2>1. /\ ToFront(updated, i) \in Seq(ListEntry)
          /\ Len(ToFront(updated, i)) = Len(updated)
          /\ \A j \in 1..Len(updated) : ToFront(updated, i)[j] = updated[From(i, j)]
      BY <1>3, ToFrontFacts
    <2> QED BY <1>2, <1>3, <2>1
  <1>5. \A j \in 1..Len(list) : list'[j].key = list[From(i, j)].key
    <2> HIDE DEF updated, i
    <2> TAKE j \in 1..Len(list)
    <2>1. From(i, j) \in 1..Len(list)
      BY <1>1, FromPermutes
    <2> QED BY <1>3, <1>4, <2>1
  <1> QED BY <1>1, <1>4, <1>5

LEMMA StepPutExisting ==
    ASSUME CacheInv, NEW k \in Key, NEW v \in Value, PutExisting(k, v),
           reply' = [op |-> "put", key |-> k, value |-> v],
           UNCHANGED <<hits, misses>>
    PROVE  CacheInv'
  <1>1. map' = map
    BY DEF PutExisting
  <1>2. /\ list' \in Seq(ListEntry) /\ Len(list') = Len(list)
        /\ Position(k) \in DOMAIN list
        /\ \A j \in 1..Len(list) : list'[j].key = list[From(Position(k), j)].key
    BY UpdateMoves
  <1>3. TypeOK'
    BY <1>1, <1>2 DEF CacheInv, TypeOK, ListEntry
  <1> QED BY <1>1, <1>2, <1>3, Reordered

\* What an insertion keeps of the list and of the map.
LEMMA KeptFacts ==
    ASSUME CacheInv
    PROVE  /\ Kept \in Seq(ListEntry) /\ Len(Kept) \in Nat /\ Len(Kept) + 1 <= Room
           /\ Len(Kept) <= Len(list)
           /\ \A j \in 1..Len(Kept) : Kept[j] = list[j]
           /\ Left = {list[j].key : j \in 1..Len(Kept)}
           /\ IsFiniteSet(Left) /\ Cardinality(Left) = Len(Kept) /\ Left \subseteq map
  <1> DEFINE n == Len(list)
  <1>f. /\ list \in Seq(ListEntry) /\ n \in Nat /\ DOMAIN list = 1..n
        /\ n <= Room /\ Cardinality(map) = n /\ IsFiniteSet(map)
        /\ map = {list[j].key : j \in 1..n} /\ map \subseteq Key
        /\ \A i, j \in 1..n : list[i].key = list[j].key => i = j
    BY DEF CacheInv, TypeOK, Coherent, Bounded, SizesAgree, ListEntry
  <1>n. n \in Nat /\ n <= Room /\ Room \in Nat
    BY <1>f, RoomPositive
  <1>m. /\ \A x \in map : \E j \in 1..n : list[j].key = x
        /\ \A j \in 1..n : list[j].key \in map
        /\ \A i, j \in 1..n : list[i].key = list[j].key => i = j
    BY <1>f
  <1>1. CASE Full
    <2>1. n >= 1 /\ n - 1 \in Nat /\ n - 1 <= n
      BY <1>f, <1>1, RoomPositive DEF Full
    <2>2. /\ Kept \in Seq(ListEntry) /\ Len(Kept) = n - 1
          /\ \A j \in 1..n - 1 : Kept[j] = list[j]
      BY <1>f, <1>1, <2>1 DEF Kept
    <2>3. list[n].key \in map /\ Left = map \ {list[n].key}
      BY <1>f, <1>1, <2>1 DEF Left
    <2>4. IsFiniteSet(Left) /\ Cardinality(Left) = n - 1
      <3>1. IsFiniteSet(map \ {list[n].key}) /\ Cardinality(map \ {list[n].key}) = Cardinality(map) - 1
        BY <1>f, <2>3, FS_RemoveElement
      <3> QED BY <1>f, <2>3, <3>1
    <2>5. Left = {list[j].key : j \in 1..n - 1}
      <3> HIDE DEF n
      <3>1. n \in 1..n /\ \A j \in 1..n - 1 : j \in 1..n /\ j # n
        BY <1>n, <2>1
      <3>2. \A j \in 1..n : j # n => j \in 1..n - 1
        BY <1>n, <2>1
      <3>3. ASSUME NEW j \in 1..n - 1 PROVE list[j].key \in Left
        BY <1>m, <2>3, <3>1, <3>3
      <3>4. ASSUME NEW x \in Left PROVE \E j \in 1..n - 1 : list[j].key = x
        <4>1. PICK j \in 1..n : list[j].key = x
          BY <1>m, <2>3, <3>4
        <4>2. j # n
          BY <2>3, <3>4, <4>1
        <4> QED BY <3>2, <4>1, <4>2
      <3>5. Left \subseteq {list[j].key : j \in 1..n - 1}
        BY <3>4
      <3>6. {list[j].key : j \in 1..n - 1} \subseteq Left
        BY <3>3
      <3> QED BY <3>5, <3>6
    <2>6. Len(Kept) \in Nat /\ Len(Kept) + 1 <= Room /\ Len(Kept) <= Len(list)
      BY <1>n, <2>1, <2>2
    <2>7. Left \subseteq map
      BY <2>3
    <2>8. Len(Kept) = n - 1 /\ 1..Len(Kept) = 1..n - 1
      BY <2>2
    <2> HIDE DEF n
    <2> QED BY <2>2, <2>4, <2>5, <2>6, <2>7, <2>8
  <1>2. CASE ~Full
    <2>1. n + 1 <= Room
      BY <1>f, <1>2, RoomPositive DEF Full
    <2>2. Kept = list /\ Left = map
      BY <1>2 DEF Kept, Left
    <2> HIDE DEF n
    <2>3. Len(Kept) = n
      BY <2>2 DEF n
    <2> QED BY <1>f, <2>1, <2>2, <2>3
  <1> QED BY <1>1, <1>2

\* The list and the map after an insertion.
LEMMA Inserted ==
    ASSUME CacheInv, NEW k \in Key, NEW v \in Value, PutNew(k, v)
    PROVE  /\ k \notin map /\ map' = Left \cup {k}
           /\ list' \in Seq(ListEntry) /\ Len(list') = Len(Kept) + 1
           /\ DOMAIN list' = 1..Len(Kept) + 1
           /\ list'[1] = [key |-> k, value |-> v]
           /\ \A j \in 2..Len(Kept) + 1 : list'[j] = list[j - 1] /\ j - 1 \in 1..Len(Kept)
  <1> DEFINE e == [key |-> k, value |-> v]
  <1>1. k \notin map /\ list' = <<e>> \o Kept /\ map' = Left \cup {k}
    BY DEF PutNew
  <1>2. e \in ListEntry
    BY DEF ListEntry
  <1>3. /\ list' \in Seq(ListEntry) /\ Len(list') = Len(Kept) + 1 /\ list'[1] = e
        /\ \A j \in 2..Len(Kept) + 1 : list'[j] = list[j - 1]
    BY <1>1, <1>2, KeptFacts
  <1>4. DOMAIN list' = 1..Len(Kept) + 1 /\ \A j \in 2..Len(Kept) + 1 : j - 1 \in 1..Len(Kept)
    BY <1>3, KeptFacts
  <1> QED BY <1>1, <1>3, <1>4

LEMMA StepPutNew ==
    ASSUME CacheInv, NEW k \in Key, NEW v \in Value, PutNew(k, v),
           reply' = [op |-> "put", key |-> k, value |-> v],
           UNCHANGED <<hits, misses>>
    PROVE  CacheInv'
  <1> DEFINE n == Len(list)
  <1>1. k \notin map /\ map' = Left \cup {k}
    BY Inserted
  <1>2. /\ n \in Nat /\ map \subseteq Key
        /\ \A i, j \in 1..n : list[i].key = list[j].key => i = j
    BY DEF CacheInv, TypeOK, Coherent
  <1>3. /\ Len(Kept) \in Nat /\ Len(Kept) + 1 <= Room /\ Len(Kept) <= n
        /\ Left = {list[j].key : j \in 1..Len(Kept)}
        /\ IsFiniteSet(Left) /\ Cardinality(Left) = Len(Kept) /\ Left \subseteq map
    BY KeptFacts
  <1>4. /\ list' \in Seq(ListEntry) /\ Len(list') = Len(Kept) + 1
        /\ DOMAIN list' = 1..Len(Kept) + 1 /\ list'[1].key = k
        /\ \A j \in 2..Len(Kept) + 1 : list'[j] = list[j - 1] /\ j - 1 \in 1..Len(Kept)
    <2>1. list'[1] = [key |-> k, value |-> v] => list'[1].key = k
      OBVIOUS
    <2> QED BY <2>1, Inserted
  <1>5. k \notin Left /\ IsFiniteSet(map') /\ Cardinality(map') = Len(Kept) + 1
    BY <1>1, <1>3, FS_AddElement
  <1>6. TypeOK'
    BY <1>1, <1>2, <1>3, <1>4 DEF CacheInv, TypeOK, ListEntry
  <1>7. Coherent'
    <2>1. DOMAIN list' = 1..Len(Kept) + 1
      BY <1>4
    <2>2. list'[1].key = k
      BY <1>4
    <2>3. \A j \in 2..Len(Kept) + 1 : list'[j].key = list[j - 1].key /\ j - 1 \in 1..Len(Kept)
      BY <1>3, <1>4
    <2>4. \A j \in 2..Len(Kept) + 1 : list'[j].key \in Left
      BY <1>3, <2>3
    <2>5. map' = {list'[j].key : j \in 1..Len(Kept) + 1}
      <3>1. ASSUME NEW x \in Left PROVE \E j \in 1..Len(Kept) + 1 : list'[j].key = x
        <4>1. PICK j \in 1..Len(Kept) : list[j].key = x
          BY <1>3, <3>1
        <4>2. j + 1 \in 2..Len(Kept) + 1 /\ j + 1 - 1 = j
          BY <1>3, <4>1
        <4>3. list'[j + 1].key = list[j].key /\ j + 1 \in 1..Len(Kept) + 1
          BY <1>3, <2>3, <4>2
        <4> QED BY <4>1, <4>3
      <3>2. 1 \in 1..Len(Kept) + 1 /\ \A j \in 1..Len(Kept) + 1 : j = 1 \/ j \in 2..Len(Kept) + 1
        BY <1>3
      <3>3. map' \subseteq {list'[j].key : j \in 1..Len(Kept) + 1}
        BY <1>1, <2>2, <3>1, <3>2
      <3>4. {list'[j].key : j \in 1..Len(Kept) + 1} \subseteq map'
        BY <1>1, <2>2, <2>4, <3>2
      <3> QED BY <3>3, <3>4
    <2>6. ASSUME NEW i \in 1..Len(Kept) + 1, NEW j \in 1..Len(Kept) + 1,
                 list'[i].key = list'[j].key
          PROVE  i = j
      <3>1. CASE i = 1 \/ j = 1
        <4>1. i = 1 \/ i \in 2..Len(Kept) + 1
          BY <1>3
        <4>2. j = 1 \/ j \in 2..Len(Kept) + 1
          BY <1>3
        <4> QED BY <1>5, <2>2, <2>4, <2>6, <3>1, <4>1, <4>2
      <3>2. CASE i # 1 /\ j # 1
        <4>1. i \in 2..Len(Kept) + 1 /\ j \in 2..Len(Kept) + 1
          BY <1>3, <3>2
        <4>2. list[i - 1].key = list[j - 1].key /\ i - 1 \in 1..n /\ j - 1 \in 1..n
          BY <1>2, <1>3, <2>3, <2>6, <4>1
        <4>3. i - 1 = j - 1
          BY <1>2, <4>2
        <4> QED BY <4>1, <4>3
      <3> QED BY <3>1, <3>2
    <2> QED BY <2>1, <2>5, <2>6 DEF Coherent
  <1> QED BY <1>3, <1>4, <1>5, <1>6, <1>7 DEF CacheInv, Bounded, SizesAgree, Room

\* A miss touches nothing but the counter.
LEMMA Untouched ==
    ASSUME CacheInv, TypeOK', UNCHANGED <<list, map>>
    PROVE  CacheInv'
  BY DEF CacheInv, Coherent, Bounded, SizesAgree, Room

LEMMA StepCache == CacheInv /\ [Next]_vars => CacheInv'
  <1> SUFFICES ASSUME CacheInv, [Next]_vars PROVE CacheInv'
    OBVIOUS
  <1>0. TypeOK
    BY DEF CacheInv
  <1>1. ASSUME NEW k \in Key, Get(k) PROVE CacheInv'
    <2>1. CASE GetMiss(k)
      <3>1. TypeOK'
        BY <1>0, <2>1 DEF GetMiss, TypeOK
      <3>2. UNCHANGED <<list, map>>
        BY <2>1 DEF GetMiss
      <3> QED BY <3>1, <3>2, Untouched
    <2>2. CASE GetHit(k)
      BY <2>2, StepGetHit
    <2> QED BY <1>1, <2>1, <2>2 DEF Get
  <1>2. ASSUME NEW k \in Key, NEW v \in Value, Put(k, v) PROVE CacheInv'
    <2>1. reply' = [op |-> "put", key |-> k, value |-> v] /\ UNCHANGED <<hits, misses>>
      BY <1>2 DEF Put
    <2>2. CASE PutExisting(k, v)
      BY <2>1, <2>2, StepPutExisting
    <2>3. CASE PutNew(k, v)
      BY <2>1, <2>3, StepPutNew
    <2> QED BY <1>2, <2>2, <2>3 DEF Put
  <1>3. CASE Clear
    <2>1. list' = <<>> /\ map' = {} /\ Len(list') = 0 /\ DOMAIN list' = {}
      BY <1>3 DEF Clear
    <2>2. TypeOK'
      BY <1>3, <2>1 DEF Clear, TypeOK
    <2>3. Coherent'
      BY <2>1 DEF Coherent
    <2> QED BY <2>1, <2>2, <2>3, RoomPositive, FS_EmptySet DEF CacheInv, Bounded, SizesAgree, Room
  <1>4. CASE UNCHANGED vars
    <2>1. TypeOK' /\ UNCHANGED <<list, map>>
      BY <1>0, <1>4 DEF vars, TypeOK
    <2> QED BY <2>1, Untouched
  <1> QED BY <1>1, <1>2, <1>3, <1>4 DEF Next

LEMMA AlwaysCacheInv == Spec => []CacheInv
  BY InitCache, StepCache, PTL DEF Spec

(* What a caller may rely on: a lookup counts once, leaves the keys alone   *)
(* and answers with the entry of its key, or with nothing.                  *)
LEMMA AfterGet ==
    ASSUME CacheInv, NEW k \in Key, Get(k)
    PROVE  /\ CacheInv' /\ map' = map
           /\ \A j \in DOMAIN list' : \E i \in DOMAIN list : list'[j] = list[i]
           /\ \/ hits' = hits /\ misses' = misses + 1 /\ reply'.value = NoValue
              \/ /\ hits' = hits + 1 /\ misses' = misses
                 /\ \E i \in DOMAIN list : /\ list[i] \in ListEntry /\ list[i].key = k
                                          /\ reply'.value = list[i].value
  <1>1. CacheInv'
    BY StepCache DEF Next
  <1>2. CASE GetMiss(k)
    BY <1>1, <1>2 DEF GetMiss
  <1>3. CASE GetHit(k)
    <2> DEFINE i == Position(k)
    <2>1. i \in DOMAIN list /\ list \in Seq(ListEntry) /\ list[i] \in ListEntry /\ list[i].key = k
      BY <1>3, EntryOf, PositionOf DEF GetHit, CacheInv
    <2>2. /\ map' = map /\ list' = ToFront(list, i) /\ hits' = hits + 1 /\ misses' = misses
          /\ reply' = [op |-> "get", key |-> k, value |-> list[i].value]
      BY <1>3 DEF GetHit, Promote
    <2>3. /\ DOMAIN list = 1..Len(list) /\ DOMAIN list' = 1..Len(list)
          /\ Len(list) \in Nat /\ i \in 1..Len(list)
          /\ \A j \in 1..Len(list) : list'[j] = list[From(i, j)]
      BY <2>1, <2>2, ToFrontFacts
    <2> HIDE DEF i
    <2>4. \A j \in DOMAIN list' : \E m \in DOMAIN list : list'[j] = list[m]
      BY <2>3, FromPermutes
    <2>5. reply'.value = list[i].value
      BY <2>2
    <2> QED BY <1>1, <2>1, <2>2, <2>4, <2>5
  <1> QED BY <1>2, <1>3 DEF Get

\* ... and a store adds at most the one entry it was asked to.
LEMMA AfterPut ==
    ASSUME CacheInv, NEW k \in Key, NEW v \in Value, Put(k, v)
    PROVE  /\ CacheInv' /\ hits' = hits /\ misses' = misses
           /\ Cardinality(map') <= Cardinality(map) + 1
           /\ \A j \in DOMAIN list' :
                 \/ list'[j].key = k /\ list'[j].value = v
                 \/ \E i \in DOMAIN list : list'[j] = list[i]
  <1>1. CacheInv' /\ hits' = hits /\ misses' = misses
    BY StepCache DEF Next, Put
  <1>c. /\ Cardinality(map) = Len(list) /\ Cardinality(map') = Len(list')
        /\ Len(list) \in Nat /\ Len(list') \in Nat /\ DOMAIN list = 1..Len(list)
    BY <1>1 DEF CacheInv, TypeOK, SizesAgree
  <1>2. CASE PutExisting(k, v)
    <2> DEFINE i == Position(k)
               updated == [list EXCEPT ![i].value = v]
    <2>1. i \in DOMAIN list /\ list \in Seq(ListEntry) /\ list[i] \in ListEntry /\ list[i].key = k
      BY <1>2, EntryOf, PositionOf DEF PutExisting, CacheInv
    <2>2. map' = map /\ list' = ToFront(updated, i)
      BY <1>2 DEF PutExisting
    <2>3. /\ updated \in Seq(ListEntry) /\ Len(updated) = Len(list) /\ i \in DOMAIN updated
          /\ updated[i].key = k /\ updated[i].value = v
          /\ \A j \in 1..Len(list) : j # i => updated[j] = list[j]
      BY <2>1 DEF ListEntry
    <2> HIDE DEF updated
    <2>4. /\ DOMAIN list' = 1..Len(list)
          /\ \A j \in 1..Len(list) : list'[j] = updated[From(i, j)]
      <3>1. /\ ToFront(updated, i) \in Seq(ListEntry)
            /\ Len(ToFront(updated, i)) = Len(updated)
            /\ \A j \in 1..Len(updated) : ToFront(updated, i)[j] = updated[From(i, j)]
        BY <2>3, ToFrontFacts
      <3> QED BY <2>2, <2>3, <3>1
    <2> HIDE DEF i
    <2>5. ASSUME NEW j \in DOMAIN list'
          PROVE  \/ list'[j].key = k /\ list'[j].value = v
                 \/ \E m \in DOMAIN list : list'[j] = list[m]
      <3> DEFINE m == From(i, j)
      <3>1. m \in 1..Len(list) /\ list'[j] = updated[m]
        BY <1>c, <2>1, <2>4, FromPermutes
      <3> HIDE DEF m
      <3> QED BY <1>c, <2>3, <3>1
    <2> QED BY <1>1, <1>c, <2>2, <2>5
  <1>3. CASE PutNew(k, v)
    <2>1. /\ Len(list') = Len(Kept) + 1 /\ DOMAIN list' = 1..Len(Kept) + 1
          /\ list'[1] = [key |-> k, value |-> v]
          /\ \A j \in 2..Len(Kept) + 1 : list'[j] = list[j - 1] /\ j - 1 \in 1..Len(Kept)
      BY <1>3, Inserted
    <2>2. Len(Kept) \in Nat /\ Len(Kept) <= Len(list)
      BY KeptFacts
    <2>3. list'[1].key = k /\ list'[1].value = v
      BY <2>1
    <2>4. ASSUME NEW j \in DOMAIN list', j # 1
          PROVE  \E i \in DOMAIN list : list'[j] = list[i]
      <3>1. j \in 2..Len(Kept) + 1
        BY <2>1, <2>2, <2>4
      <3>2. j - 1 \in DOMAIN list
        BY <1>c, <2>1, <2>2, <3>1
      <3> QED BY <2>1, <3>1, <3>2
    <2> QED BY <1>1, <1>c, <2>1, <2>2, <2>3, <2>4
  <1> QED BY <1>2, <1>3 DEF Put

-----------------------------------------------------------------------------
(* Type correctness of the cache (LRUCache.hpp).                            *)
THEOREM CacheTypeCorrect == Spec => []TypeOK
  <1>1. CacheInv => TypeOK
    BY DEF CacheInv
  <1> QED BY <1>1, AlwaysCacheInv, PTL

(* The list and the map always hold the same keys, each once: every         *)
(* iterator that get and put dereference (l.51, l.65-66) is a live one.     *)
THEOREM CacheCoherent == Spec => []Coherent
  <1>1. CacheInv => Coherent
    BY DEF CacheInv
  <1> QED BY <1>1, AlwaysCacheInv, PTL

(* The cache holds at most capacity entries, one when capacity is 0 (l.33). *)
THEOREM CacheBounded == Spec => []Bounded
  <1>1. CacheInv => Bounded
    BY DEF CacheInv
  <1> QED BY <1>1, AlwaysCacheInv, PTL

(* put evicts only from a list that has a last entry (back(), l.72).        *)
THEOREM EvictionHasVictim == Spec => [](Full => list # <<>>)
  <1>1. CacheInv => (Full => list # <<>>)
    BY RoomPositive DEF CacheInv, SizesAgree, Full
  <1> QED BY <1>1, AlwaysCacheInv, PTL

-----------------------------------------------------------------------------
(* The cache implements its contract.                                       *)

\* Held maps the key of each entry to its value.
HeldFacts ==
    /\ DOMAIN Held = map
    /\ Held = [k \in map |-> Held[k]]
    /\ \A i \in DOMAIN list : list[i].key \in map /\ Held[list[i].key] = list[i].value
    /\ \A k \in map : \E i \in DOMAIN list : list[i].key = k

LEMMA HeldIs == CacheInv => HeldFacts
  <1> SUFFICES ASSUME CacheInv PROVE HeldFacts
    OBVIOUS
  <1>1. DOMAIN Held = map /\ Held = [k \in map |-> Held[k]]
    BY DEF Held
  <1>2. ASSUME NEW i \in DOMAIN list
        PROVE  list[i].key \in map /\ Held[list[i].key] = list[i].value
    <2>1. Position(list[i].key) = i /\ list[i].key \in map
      BY <1>2, PositionOf DEF CacheInv
    <2> QED BY <2>1 DEF Held
  <1>3. \A k \in map : \E i \in DOMAIN list : list[i].key = k
    BY PositionOf DEF CacheInv
  <1> QED BY <1>1, <1>2, <1>3 DEF HeldFacts

\* To know the map held after a step it is enough to know its entries.
LEMMA HeldNext ==
    ASSUME CacheInv', NEW f, f = [k \in map' |-> f[k]],
           \A j \in DOMAIN list' : list'[j].value = f[list'[j].key]
    PROVE  Held' = f
  <1>0. HeldFacts'
    BY HeldIs, PTL
  <1>1. /\ Held' = [k \in map' |-> Held'[k]]
        /\ \A i \in DOMAIN list' : list'[i].key \in map' /\ Held'[list'[i].key] = list'[i].value
        /\ \A k \in map' : \E i \in DOMAIN list' : list'[i].key = k
    BY <1>0 DEF HeldFacts
  <1>2. ASSUME NEW k \in map' PROVE Held'[k] = f[k]
    <2>1. PICK i \in DOMAIN list' : list'[i].key = k
      BY <1>1
    <2> QED BY <1>1, <2>1
  <1> QED BY <1>1, <1>2

LEMMA HitKeepsHeld ==
    ASSUME CacheInv, CacheInv', NEW k \in Key, GetHit(k)
    PROVE  Held' = Held /\ reply' = [op |-> "get", key |-> k, value |-> Held[k]] /\ k \in DOMAIN Held
  <1> DEFINE i == Position(k)
  <1>1. i \in DOMAIN list /\ list \in Seq(ListEntry) /\ list[i].key = k
    BY EntryOf, PositionOf DEF GetHit, CacheInv
  <1>2. /\ map' = map /\ k \in map /\ list' = ToFront(list, i)
        /\ reply' = [op |-> "get", key |-> k, value |-> list[i].value]
    BY DEF GetHit, Promote
  <1>3. /\ Len(list') = Len(list) /\ list' \in Seq(ListEntry)
        /\ \A j \in 1..Len(list) : list'[j] = list[From(i, j)]
    BY <1>1, <1>2, ToFrontFacts
  <1>d. /\ DOMAIN list = 1..Len(list) /\ DOMAIN list' = 1..Len(list)
        /\ Len(list) \in Nat /\ i \in 1..Len(list)
    BY <1>1, <1>3
  <1>4. ASSUME NEW j \in DOMAIN list' PROVE list'[j].value = Held[list'[j].key]
    <2> HIDE DEF i
    <2>1. From(i, j) \in DOMAIN list /\ list'[j] = list[From(i, j)]
      BY <1>d, <1>3, FromPermutes
    <2> QED BY <2>1, HeldIs DEF HeldFacts
  <1>5. Held = [x \in map' |-> Held[x]] /\ DOMAIN Held = map /\ Held[k] = list[i].value
    BY <1>1, <1>2, HeldIs DEF HeldFacts
  <1> HIDE DEF i
  <1>6. Held' = Held
    BY <1>4, <1>5, HeldNext
  <1> QED BY <1>2, <1>5, <1>6

\* What a store makes of the map when nothing is dropped.
Stored(k, v) == [x \in DOMAIN Held \cup {k} |-> IF x = k THEN v ELSE Held[x]]

LEMMA UpdateStores ==
    ASSUME CacheInv, CacheInv', NEW k \in Key, NEW v \in Value, PutExisting(k, v)
    PROVE  Held' = Stored(k, v) /\ k \in DOMAIN Held
  <1> DEFINE i == Position(k)
             updated == [list EXCEPT ![i].value = v]
  <1>1. i \in DOMAIN list /\ list \in Seq(ListEntry) /\ list[i] \in ListEntry /\ list[i].key = k
    BY EntryOf, PositionOf DEF PutExisting, CacheInv
  <1>2. map' = map /\ k \in map /\ list' = ToFront(updated, i)
    BY DEF PutExisting
  <1>3. /\ updated \in Seq(ListEntry) /\ Len(updated) = Len(list) /\ i \in DOMAIN updated
        /\ updated[i].key = k /\ updated[i].value = v
        /\ \A j \in 1..Len(list) : j # i => updated[j] = list[j]
    BY <1>1 DEF ListEntry
  <1>4. /\ list' \in Seq(ListEntry) /\ Len(list') = Len(list)
        /\ \A j \in 1..Len(list) : list'[j] = updated[From(i, j)]
    <2> HIDE DEF updated
    <2>1. /\ ToFront(updated, i) \in Seq(ListEntry)
          /\ Len(ToFront(updated, i)) = Len(updated)
          /\ \A j \in 1..Len(updated) : ToFront(updated, i)[j] = updated[From(i, j)]
      BY <1>3, ToFrontFacts
    <2> QED BY <1>2, <1>3, <2>1
  <1>d. /\ DOMAIN list = 1..Len(list) /\ DOMAIN list' = 1..Len(list)
        /\ Len(list) \in Nat /\ i \in 1..Len(list)
    BY <1>1, <1>4
  <1>5. DOMAIN Held = map
    BY HeldIs DEF HeldFacts
  <1> HIDE DEF updated, i
  <1>6. ASSUME NEW j \in DOMAIN list' PROVE list'[j].value = Stored(k, v)[list'[j].key]
    <2> DEFINE m == From(i, j)
    <2>1. m \in 1..Len(list) /\ m \in DOMAIN list /\ list'[j] = updated[m]
      BY <1>d, <1>4, FromPermutes
    <2> HIDE DEF m
    <2>2. CASE m = i
      BY <1>3, <1>5, <2>1, <2>2 DEF Stored
    <2>3. CASE m # i
      <3>1. list'[j] = list[m]
        BY <1>3, <2>1, <2>3
      <3>2. list[m].key \in map /\ Held[list[m].key] = list[m].value
        BY <2>1, HeldIs DEF HeldFacts
      <3>3. list[m].key # k
        BY <1>1, <2>1, <2>3 DEF CacheInv, Coherent
      <3> QED BY <1>5, <3>1, <3>2, <3>3 DEF Stored
    <2> QED BY <2>2, <2>3
  <1>7. Stored(k, v) = [x \in map' |-> Stored(k, v)[x]]
    BY <1>2, <1>5 DEF Stored
  <1>8. Held' = Stored(k, v)
    BY <1>6, <1>7, HeldNext
  <1> QED BY <1>2, <1>5, <1>8

LEMMA InsertStores ==
    ASSUME CacheInv, CacheInv', NEW k \in Key, NEW v \in Value, PutNew(k, v)
    PROVE  /\ k \notin DOMAIN Held
           /\ ~Full => Held' = Stored(k, v)
           /\ Full => \E out \in DOMAIN Held :
                         Held' = [x \in DOMAIN Stored(k, v) \ {out} |-> Stored(k, v)[x]]
  <1>1. /\ k \notin map /\ map' = Left \cup {k} /\ DOMAIN list' = 1..Len(Kept) + 1
        /\ list'[1] = [key |-> k, value |-> v]
        /\ \A j \in 2..Len(Kept) + 1 : list'[j] = list[j - 1] /\ j - 1 \in 1..Len(Kept)
    BY Inserted
  <1>2. Len(Kept) \in Nat /\ Len(Kept) <= Len(list) /\ Left = {list[j].key : j \in 1..Len(Kept)}
        /\ Left \subseteq map
    BY KeptFacts
  <1>3. DOMAIN Held = map /\ DOMAIN Stored(k, v) = map \cup {k}
    BY HeldIs DEF HeldFacts, Stored
  <1>4. list'[1].key = k /\ list'[1].value = v
    BY <1>1
  <1>5. DOMAIN list = 1..Len(list) /\ Len(list) \in Nat
    BY DEF CacheInv, TypeOK
  <1>6. ASSUME NEW j \in DOMAIN list'
        PROVE  list'[j].value = Stored(k, v)[list'[j].key] /\ list'[j].key \in map'
    <2>1. CASE j = 1
      BY <1>1, <1>3, <1>4, <2>1 DEF Stored
    <2>2. CASE j # 1
      <3>1. j \in 2..Len(Kept) + 1
        BY <1>1, <1>2, <2>2
      <3> DEFINE m == j - 1
      <3>2. list'[j] = list[m] /\ m \in 1..Len(Kept) /\ m \in DOMAIN list
        BY <1>1, <1>2, <1>5, <3>1
      <3> HIDE DEF m
      <3>3. Held[list[m].key] = list[m].value /\ list[m].key \in map /\ list[m].key \in Left
        BY <1>2, <3>2, HeldIs DEF HeldFacts
      <3> QED BY <1>1, <1>3, <3>2, <3>3 DEF Stored
    <2> QED BY <2>1, <2>2
  <1> DEFINE f == [x \in map' |-> Stored(k, v)[x]]
  <1>7. Held' = f
    <2>1. f = [x \in map' |-> f[x]] /\ \A j \in DOMAIN list' : list'[j].value = f[list'[j].key]
      BY <1>6
    <2> HIDE DEF f
    <2> QED BY <2>1, HeldNext
  <1>8. ~Full => Held' = Stored(k, v)
    <2> SUFFICES ASSUME ~Full PROVE Held' = Stored(k, v)
      OBVIOUS
    <2>1. map' = map \cup {k}
      BY <1>1 DEF Left
    <2>2. Stored(k, v) = [x \in map \cup {k} |-> Stored(k, v)[x]]
      BY <1>3 DEF Stored
    <2> QED BY <1>7, <2>1, <2>2
  <1>9. Full => \E out \in DOMAIN Held :
                  Held' = [x \in DOMAIN Stored(k, v) \ {out} |-> Stored(k, v)[x]]
    <2> SUFFICES ASSUME Full
                 PROVE  \E out \in DOMAIN Held :
                          Held' = [x \in DOMAIN Stored(k, v) \ {out} |-> Stored(k, v)[x]]
      OBVIOUS
    <2> DEFINE out == list[Len(list)].key
    <2>1. Len(list) \in DOMAIN list
      <3>1. IsFiniteSet(map) /\ Cardinality(map) = Len(list) /\ Room >= 1 /\ Room \in Nat
        BY RoomPositive DEF CacheInv, SizesAgree
      <3> QED BY <1>5, <3>1 DEF Full
    <2>2. out \in map
      BY <2>1, HeldIs DEF HeldFacts
    <2>3. map' = (map \cup {k}) \ {out}
      BY <1>1, <2>2 DEF Left
    <2> HIDE DEF out
    <2>4. Held' = [x \in DOMAIN Stored(k, v) \ {out} |-> Stored(k, v)[x]]
      BY <1>3, <1>7, <2>3
    <2> QED BY <1>3, <2>2, <2>4
  <1> QED BY <1>1, <1>3, <1>8, <1>9

\* Whether the cache is full can be read off the map held.
LEMMA FullIs == CacheInv => (Full <=> Cardinality(DOMAIN Held) = Room)
  <1> SUFFICES ASSUME CacheInv PROVE Full <=> Cardinality(DOMAIN Held) = Room
    OBVIOUS
  <1>1. DOMAIN Held = map
    BY HeldIs DEF HeldFacts
  <1>2. Cardinality(map) = Len(list) /\ Len(list) \in Nat /\ Len(list) <= Room /\ Room \in Nat
    BY RoomPositive DEF CacheInv, TypeOK, Bounded, SizesAgree
  <1> QED BY <1>1, <1>2 DEF Full

\* The contract counts as the cache does.
LEMMA SameCardinality == \A S : C!Cardinality(S) = Cardinality(S)
  BY DEF C!Cardinality, Cardinality

LEMMA StepContract ==
    ASSUME CacheInv, CacheInv', [Next]_vars
    PROVE  [C!Next]_(C!vars)
  <1>1. ASSUME NEW k \in Key, Get(k) PROVE C!Get(k)
    <2>1. DOMAIN Held = map
      BY HeldIs DEF HeldFacts
    <2>2. CASE GetMiss(k)
      <3>1. Held' = Held
        BY <2>2 DEF GetMiss, Held, Position
      <3> QED BY <2>1, <2>2, <3>1 DEF GetMiss, C!Get
    <2>3. CASE GetHit(k)
      <3>1. Held' = Held /\ reply' = [op |-> "get", key |-> k, value |-> Held[k]] /\ k \in DOMAIN Held
        BY <2>3, HitKeepsHeld
      <3> QED BY <3>1 DEF C!Get
    <2> QED BY <1>1, <2>2, <2>3 DEF Get
  <1>2. ASSUME NEW k \in Key, NEW v \in Value, Put(k, v) PROVE C!Put(k, v)
    <2>1. reply' = [op |-> "put", key |-> k, value |-> v]
      BY <1>2 DEF Put
    <2>2. CASE PutExisting(k, v)
      <3>1. Held' = Stored(k, v) /\ k \in DOMAIN Held
        BY <2>2, UpdateStores
      <3> QED BY <2>1, <3>1 DEF C!Put, Stored
    <2>3. CASE PutNew(k, v)
      <3>1. /\ k \notin DOMAIN Held
            /\ ~Full => Held' = Stored(k, v)
            /\ Full => \E out \in DOMAIN Held :
                          Held' = [x \in DOMAIN Stored(k, v) \ {out} |-> Stored(k, v)[x]]
        BY <2>3, InsertStores
      <3>2. CASE Full
        <4>1. Cardinality(DOMAIN Held) = Room
          BY <3>2, FullIs
        <4>2. \E out \in DOMAIN Held :
                Held' = [x \in DOMAIN Stored(k, v) \ {out} |-> Stored(k, v)[x]]
          BY <3>1, <3>2
        <4>3. k \notin DOMAIN Held
          BY <3>1
        <4> QED BY <2>1, <4>1, <4>2, <4>3, SameCardinality, Zenon DEF C!Put, Stored
      <3>3. CASE ~Full
        <4>1. Cardinality(DOMAIN Held) < Room
          <5>1. DOMAIN Held = map
            BY HeldIs DEF HeldFacts
          <5>2. Cardinality(map) = Len(list) /\ Len(list) \in Nat /\ Room \in Nat
            BY RoomPositive DEF CacheInv, TypeOK, SizesAgree
          <5> QED BY <3>3, <5>1, <5>2 DEF Full
        <4>2. Held' = Stored(k, v)
          BY <3>1, <3>3
        <4> QED BY <2>1, <4>1, <4>2, SameCardinality, Zenon DEF C!Put, Stored
      <3> QED BY <3>2, <3>3
    <2> QED BY <1>2, <2>2, <2>3 DEF Put
  <1>3. ASSUME Clear PROVE C!Clear
    <2>1. map' = {} /\ reply' = [op |-> "clear"]
      BY <1>3 DEF Clear
    <2>2. Held' = <<>>
      BY <2>1 DEF Held
    <2> QED BY <2>1, <2>2 DEF C!Clear
  <1>4. ASSUME UNCHANGED vars PROVE UNCHANGED C!vars
    BY <1>4 DEF vars, C!vars, Held, Position
  <1> QED BY <1>1, <1>2, <1>3, <1>4 DEF Next, C!Next

(* The linked list and the hash map implement the abstract cache: whatever  *)
(* order get, put and clear come in, a lookup answers what was last stored  *)
(* under its key or nothing, and an entry is lost only when a store finds   *)
(* the cache full, and then one.                                            *)
THEOREM CacheImplementsContract == Spec => ImplementsContract
  <1>1. Init => C!Init
    <2> SUFFICES ASSUME Init PROVE C!Init
      OBVIOUS
    <2>1. map = {} /\ reply = [op |-> "clear"]
      BY DEF Init
    <2>2. Held = <<>>
      BY <2>1 DEF Held
    <2> QED BY <2>1, <2>2 DEF C!Init
  <1>2. CacheInv /\ CacheInv' /\ [Next]_vars => [C!Next]_(C!vars)
    BY StepContract
  <1> QED BY <1>1, <1>2, AlwaysCacheInv, PTL DEF Spec, ImplementsContract, C!Spec
-----------------------------------------------------------------------------
(* Eviction takes the entry that has gone unused longest.                   *)

\* The list is in the order of the last uses, the latest first.
ByRecency ==
    /\ now \in Nat /\ lastUse \in [Key -> Nat]
    /\ \A k \in Key : lastUse[k] <= now
    /\ \A i, j \in DOMAIN list : i < j => lastUse[list[j].key] <= lastUse[list[i].key]

UsedInv == CacheInv /\ ByRecency

\* A list that puts the key just used first and keeps the order of the others,
\* was[j] being where entry j stood, is again in the order of the last uses.
LEMMA UsedFirst ==
    ASSUME UsedInv, CacheInv', NEW k \in Key, Use(k), Len(list') >= 1, list'[1].key = k,
           NEW was \in [2..Len(list') -> DOMAIN list],
           \A j \in 2..Len(list') : list'[j].key = list[was[j]].key,
           \A i, j \in 2..Len(list') : i < j => was[i] < was[j]
    PROVE  ByRecency'
  <1> DEFINE n == Len(list')
  <1>1. /\ DOMAIN list' = 1..n /\ n \in Nat
        /\ \A j \in 1..n : list'[j].key \in Key
        /\ \A i, j \in 1..n : list'[i].key = list'[j].key => i = j
    <2>1. list' \in Seq(ListEntry) /\ map' \subseteq Key
      BY DEF CacheInv, TypeOK, ListEntry
    <2>2. \A j \in DOMAIN list' : list'[j].key \in map'
      BY DEF CacheInv, Coherent
    <2>3. \A i, j \in DOMAIN list' : list'[i].key = list'[j].key => i = j
      BY DEF CacheInv, Coherent
    <2>4. DOMAIN list' = 1..Len(list') /\ Len(list') \in Nat
      BY <2>1
    <2> QED BY <2>1, <2>2, <2>3, <2>4
  <1>2. /\ now \in Nat /\ lastUse \in [Key -> Nat]
        /\ \A x \in Key : lastUse[x] <= now
        /\ \A i, j \in DOMAIN list : i < j => lastUse[list[j].key] <= lastUse[list[i].key]
    BY DEF UsedInv, ByRecency
  <1>3. /\ now' = now + 1 /\ lastUse' \in [Key -> Nat] /\ lastUse'[k] = now'
        /\ \A x \in Key : x # k => lastUse'[x] = lastUse[x]
    BY <1>2 DEF Use
  <1>4. now' \in Nat /\ \A x \in Key : lastUse'[x] <= now'
    <2>1. now' \in Nat
      BY <1>2, <1>3
    <2>2. ASSUME NEW x \in Key PROVE lastUse'[x] <= now'
      <3>1. CASE x = k
        BY <1>3, <2>1, <3>1
      <3>2. CASE x # k
        <4>1. lastUse'[x] = lastUse[x] /\ lastUse[x] <= now /\ lastUse[x] \in Nat
          BY <1>2, <1>3, <3>2
        <4> QED BY <1>2, <1>3, <4>1
      <3> QED BY <3>1, <3>2
    <2> QED BY <2>1, <2>2
  <1> HIDE DEF n
  <1>5. \A j \in 2..n : was[j] \in DOMAIN list /\ list'[j].key = list[was[j]].key
                        /\ \A i \in 2..n : i < j => was[i] < was[j]
    BY DEF n
  <1>k. 1 <= n /\ list'[1].key = k
    BY DEF n
  <1>6. ASSUME NEW i \in 1..n, NEW j \in 1..n, i < j
        PROVE  lastUse'[list'[j].key] <= lastUse'[list'[i].key]
    <2>1. j \in 2..n /\ list'[j].key \in Key
      BY <1>1, <1>6
    <2>2. CASE i = 1
      BY <1>3, <1>4, <1>k, <2>1, <2>2
    <2>3. CASE i # 1
      <3>1. i \in 2..n
        BY <1>1, <1>6, <2>3
      <3>2. list'[i].key # k /\ list'[j].key # k /\ list'[i].key \in Key
        BY <1>1, <1>6, <1>k, <2>1, <3>1
      <3>3. was[i] < was[j] /\ was[i] \in DOMAIN list /\ was[j] \in DOMAIN list
        BY <1>5, <1>6, <2>1, <3>1
      <3>4. lastUse[list[was[j]].key] <= lastUse[list[was[i]].key]
        BY <1>2, <3>3
      <3>5. list'[i].key = list[was[i]].key /\ list'[j].key = list[was[j]].key
        BY <1>5, <2>1, <3>1
      <3>6. lastUse'[list'[i].key] = lastUse[list'[i].key]
            /\ lastUse'[list'[j].key] = lastUse[list'[j].key]
        BY <1>3, <2>1, <3>2
      <3> QED BY <3>4, <3>5, <3>6
    <2> QED BY <2>2, <2>3
  <1> QED BY <1>1, <1>3, <1>4, <1>6 DEF ByRecency

\* A hit and an update move their key's entry to the front.
LEMMA UsedMoved ==
    ASSUME UsedInv, CacheInv', NEW k \in map, Use(k), Len(list') = Len(list),
           \A j \in 1..Len(list) : list'[j].key = list[From(Position(k), j)].key
    PROVE  ByRecency'
  <1> DEFINE i == Position(k)
             was == [j \in 2..Len(list') |-> From(i, j)]
  <1>1. CacheInv /\ k \in Key
    BY DEF UsedInv, CacheInv, TypeOK
  <1>2. /\ i \in 1..Len(list) /\ DOMAIN list = 1..Len(list) /\ Len(list) \in Nat
        /\ list[i].key = k
    <2>1. list \in Seq(ListEntry) /\ i \in DOMAIN list
      BY <1>1, EntryOf
    <2>2. list[i].key = k
      BY <1>1, PositionOf DEF CacheInv
    <2> QED BY <2>1, <2>2
  <1> HIDE DEF i
  <1>3. \A j \in 1..Len(list) : From(i, j) \in 1..Len(list)
    BY <1>2, FromPermutes
  <1>4. was \in [2..Len(list') -> DOMAIN list]
    BY <1>2, <1>3
  <1>5. list'[1].key = k
    BY <1>2 DEF From, i
  <1>6. ASSUME NEW j \in 2..Len(list') PROVE list'[j].key = list[was[j]].key
    BY <1>2 DEF i
  <1>7. ASSUME NEW j \in 2..Len(list'), NEW m \in 2..Len(list'), j < m
        PROVE  was[j] < was[m]
    <2>1. From(i, j) < From(i, m)
      BY <1>2, <1>7 DEF From
    <2> QED BY <2>1
  <1>8. Len(list') >= 1
    BY <1>2
  <1> HIDE DEF was
  <1> QED BY <1>1, <1>4, <1>5, <1>6, <1>7, <1>8, UsedFirst

\* A new entry goes before all that are kept.
LEMMA UsedInserted ==
    ASSUME UsedInv, CacheInv', NEW k \in Key, NEW v \in Value, PutNew(k, v), Use(k)
    PROVE  ByRecency'
  <1> DEFINE was == [j \in 2..Len(list') |-> j - 1]
  <1>1. CacheInv
    BY DEF UsedInv
  <1>2. /\ Len(list') = Len(Kept) + 1 /\ list'[1] = [key |-> k, value |-> v]
        /\ \A j \in 2..Len(Kept) + 1 : list'[j] = list[j - 1] /\ j - 1 \in 1..Len(Kept)
    BY <1>1, Inserted
  <1>3. Len(Kept) \in Nat /\ Len(Kept) <= Len(list)
    BY <1>1, KeptFacts
  <1>4. DOMAIN list = 1..Len(list) /\ Len(list) \in Nat
    BY <1>1 DEF CacheInv, TypeOK
  <1>5. list'[1].key = k
    BY <1>2
  <1>6. was \in [2..Len(list') -> DOMAIN list]
    BY <1>2, <1>3, <1>4
  <1>7. ASSUME NEW j \in 2..Len(list') PROVE list'[j].key = list[was[j]].key
    BY <1>2
  <1>8. ASSUME NEW i \in 2..Len(list'), NEW j \in 2..Len(list'), i < j
        PROVE  was[i] < was[j]
    BY <1>2, <1>3, <1>8
  <1>9. Len(list') >= 1
    BY <1>2, <1>3
  <1> HIDE DEF was
  <1> QED BY <1>5, <1>6, <1>7, <1>8, <1>9, UsedFirst

\* Each use keeps the list in the order of the last uses.
LEMMA StepUsed == UsedInv /\ [UsedNext]_usedVars => UsedInv'
  <1> SUFFICES ASSUME UsedInv, [UsedNext]_usedVars PROVE UsedInv'
    OBVIOUS
  <1>1. CacheInv
    BY DEF UsedInv
  <1>2. [Next]_vars
    BY DEF UsedNext, UsedGet, UsedPut, UsedClear, Next, usedVars, vars
  <1>3. CacheInv'
    BY <1>1, <1>2, StepCache
  <1>4. ASSUME NEW k \in Key, UsedGet(k) PROVE ByRecency'
    <2>1. CASE GetMiss(k)
      <3>1. UNCHANGED <<list, now, lastUse>>
        BY <1>4, <2>1 DEF GetMiss, UsedGet
      <3> QED BY <3>1 DEF UsedInv, ByRecency
    <2>2. CASE GetHit(k)
      <3>1. k \in map /\ Use(k) /\ list' = ToFront(list, Position(k))
        BY <1>4, <2>2 DEF GetHit, UsedGet, Promote
      <3>2. Position(k) \in DOMAIN list /\ list \in Seq(ListEntry)
        BY <1>1, <3>1, EntryOf
      <3>3. Len(list') = Len(list)
            /\ \A j \in 1..Len(list) : list'[j] = list[From(Position(k), j)]
        BY <3>1, <3>2, ToFrontFacts
      <3> QED BY <1>3, <3>1, <3>3, UsedMoved
    <2> QED BY <1>4, <2>1, <2>2 DEF UsedGet, Get
  <1>5. ASSUME NEW k \in Key, NEW v \in Value, UsedPut(k, v) PROVE ByRecency'
    <2>1. Use(k)
      BY <1>5 DEF UsedPut
    <2>2. CASE PutExisting(k, v)
      <3>1. k \in map /\ Len(list') = Len(list)
            /\ \A j \in 1..Len(list) : list'[j].key = list[From(Position(k), j)].key
        BY <1>1, <2>2, UpdateMoves DEF PutExisting
      <3> QED BY <1>3, <2>1, <3>1, UsedMoved
    <2>3. CASE PutNew(k, v)
      BY <1>3, <2>1, <2>3, UsedInserted
    <2> QED BY <1>5, <2>2, <2>3 DEF UsedPut, Put
  <1>6. ASSUME UsedClear PROVE ByRecency'
    <2>1. list' = <<>> /\ UNCHANGED <<now, lastUse>>
      BY <1>6 DEF UsedClear, Clear
    <2>2. DOMAIN list' = {}
      BY <2>1
    <2> QED BY <2>1, <2>2 DEF UsedInv, ByRecency
  <1>7. ASSUME UNCHANGED usedVars PROVE ByRecency'
    BY <1>7 DEF usedVars, UsedInv, ByRecency
  <1>8. ByRecency'
    BY <1>4, <1>5, <1>6, <1>7 DEF UsedNext
  <1> QED BY <1>3, <1>8 DEF UsedInv

\* Only the last entry is dropped, and it is the one unused longest.
LEMMA DropsLast ==
    ASSUME UsedInv, NEW k \in Key, NEW v \in Value, PutNew(k, v),
           NEW out \in map \ map', NEW x \in map
    PROVE  lastUse[out] <= lastUse[x]
  <1> DEFINE n == Len(list)
  <1>1. CacheInv /\ ByRecency
    BY DEF UsedInv
  <1>2. /\ DOMAIN list = 1..n /\ n \in Nat /\ map \subseteq Key
        /\ map = {list[j].key : j \in DOMAIN list}
    BY <1>1 DEF CacheInv, TypeOK, Coherent
  <1>3. out = list[n].key
    BY DEF PutNew, Left
  <1>4. PICK j \in DOMAIN list : list[j].key = x
    BY <1>2
  <1>5. j = n \/ (j < n /\ n \in DOMAIN list)
    BY <1>2
  <1>6. lastUse[x] \in Nat
    BY <1>1, <1>2 DEF ByRecency
  <1> HIDE DEF n
  <1> QED BY <1>1, <1>3, <1>4, <1>5, <1>6 DEF ByRecency

(* For every capacity, whatever gets and puts came before: the entry that   *)
(* put drops (l.71-75) is the one whose last use is the oldest, which rests *)
(* on every hit and every update moving its entry to the front (l.51, 66).  *)
THEOREM EvictionTakesOldest == UsedSpec => EvictsLeastRecent
  <1>1. UsedInit => UsedInv
    <2> SUFFICES ASSUME UsedInit PROVE UsedInv
      OBVIOUS
    <2>1. CacheInv
      BY InitCache DEF UsedInit
    <2>2. DOMAIN list = {}
      BY DEF UsedInit, Init
    <2>3. ByRecency
      BY <2>2 DEF UsedInit, ByRecency
    <2> QED BY <2>1, <2>3 DEF UsedInv
  <1>2. ASSUME UsedInv, [UsedNext]_usedVars
        PROVE  [\A out \in map \ map' :
                  map' # {} => \A k \in map : lastUse[out] <= lastUse[k]]_usedVars
    <2> SUFFICES ASSUME NEW out \in map \ map', map' # {}, NEW x \in map
                 PROVE  lastUse[out] <= lastUse[x]
      OBVIOUS
    <2>1. ~UNCHANGED map
      OBVIOUS
    <2>2. PICK k \in Key, v \in Value : PutNew(k, v)
      <3>1. ~Clear
        BY DEF Clear
      <3>2. \A k \in Key : ~Get(k)
        BY <2>1 DEF Get, GetMiss, GetHit
      <3>3. \A k \in Key, v \in Value : ~PutExisting(k, v)
        BY <2>1 DEF PutExisting
      <3>4. PICK k \in Key, v \in Value : UsedPut(k, v)
        BY <1>2, <2>1, <3>1, <3>2 DEF UsedNext, UsedGet, UsedClear, usedVars
      <3>5. PutNew(k, v)
        BY <3>3, <3>4 DEF UsedPut, Put
      <3> QED BY <3>5
    <2> QED BY <1>2, <2>2, DropsLast
  <1> QED BY <1>1, <1>2, StepUsed, PTL DEF UsedSpec, EvictsLeastRecent
=============================================================================

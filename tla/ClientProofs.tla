---------------------------- MODULE ClientProofs ----------------------------
(***************************************************************************)
(* The web client is correct for any number of stations, algorithms,        *)
(* searches and recent searches, boxes, queries, clicks and recognisers.    *)
(*                                                                          *)
(* Of the route slice: whatever is awaited is the last request, so that a   *)
(* search leaves nothing of the one before.  Of the map: the one loop there *)
(* may be is the one whose handle the layer has, so that cancelling it      *)
(* leaves none.  Of the search panel: a button can be on only while it      *)
(* listens to the shared subject, and the end of any recogniser switches    *)
(* all of those off; so a button that is on has a recogniser that has not   *)
(* ended.  And the effect awaits nothing but the query it took last.        *)
(***************************************************************************)
EXTENDS MapView, VoiceSearch, FiniteSetTheorems, SequenceTheorems, TLAPS

\* what the slice knows between any two callbacks
SliceInv == LoadingIffAwaited /\ LastRequestWins /\ OneOutcome /\ loading \in BOOLEAN

\* ... and the layer
LayerInv ==
    /\ DrawnIsCurrent /\ OneAnimation
    /\ ~mounted => drawn.route = None
    /\ mounted \in BOOLEAN

-----------------------------------------------------------------------------
(* The slice                                                                *)

LEMMA InitSlice == Init => SliceInv
  BY DEF Init, SliceInv, LoadingIffAwaited, LastRequestWins, OneOutcome

\* computeRoute forgets the route, and awaits what it asks or nothing
LEMMA ComputeSlice ==
    ASSUME NEW d, NEW a, Compute(d, a)
    PROVE  SliceInv'
  <1>1. CASE d = None \/ a = None \/ d = a
    <2>1. currentRoute' = None /\ loading' = FALSE /\ inflight' = {}
      BY <1>1 DEF Compute, Switched
    <2> QED BY <2>1 DEF SliceInv, LoadingIffAwaited, LastRequestWins, OneOutcome
  <1>2. CASE ~(d = None \/ a = None \/ d = a)
    <2>1. /\ currentRoute' = None /\ loading' = TRUE /\ error' = None
          /\ inflight' = {asked'}
      BY <1>2 DEF Compute, Switched
    <2> QED BY <2>1 DEF SliceInv, LoadingIffAwaited, LastRequestWins, OneOutcome
  <1> QED BY <1>1, <1>2

\* a selection forgets the route, if anything, and can only forget the error
LEMMA SelectSlice ==
    ASSUME SliceInv, UNCHANGED <<loading, inflight, asked>>,
           currentRoute' \in {None, currentRoute}, error' \in {None, error}
    PROVE  SliceInv'
  BY DEF SliceInv, LoadingIffAwaited, LastRequestWins, OneOutcome

\* only the answer to the last request can come
LEMMA AnswerSlice ==
    ASSUME SliceInv, NEW rq \in inflight, Answer(rq) \/ Fail(rq)
    PROVE  SliceInv'
  <1>1. inflight = {asked} /\ rq = asked /\ loading = TRUE
    BY DEF SliceInv, LoadingIffAwaited
  <1>2. inflight' = {} /\ loading' = FALSE /\ asked' = asked
    BY <1>1 DEF Answer, Fail
  <1>3. currentRoute = None /\ error = None
    BY <1>1 DEF SliceInv, OneOutcome
  <1>4. CASE Answer(rq)
    <2>1. currentRoute' = asked' /\ error' = None
      BY <1>1, <1>2, <1>3, <1>4 DEF Answer
    <2> QED BY <1>2, <2>1 DEF SliceInv, LoadingIffAwaited, LastRequestWins, OneOutcome
  <1>5. CASE Fail(rq)
    <2>1. currentRoute' = None
      BY <1>3, <1>5 DEF Fail
    <2> QED BY <1>2, <2>1 DEF SliceInv, LoadingIffAwaited, LastRequestWins, OneOutcome
  <1> QED BY <1>4, <1>5

LEMMA StepSlice == SliceInv /\ [Next]_vars => SliceInv'
  <1> SUFFICES ASSUME SliceInv, [Next]_vars PROVE SliceInv'
    OBVIOUS
  <1>1. CASE Select \/ ClearRoute \/ SelectRecent \/ ClearRecents
    <2>1. /\ UNCHANGED <<loading, inflight, asked>>
          /\ currentRoute' \in {None, currentRoute} /\ error' \in {None, error}
      BY <1>1 DEF Select, SetDeparture, SetArrival, ClickStation, ClearDeparture, ClearArrival,
                  SwapStations, SetAlgorithm, ClearRoute, SelectRecent, ClearRecents, Untouched
    <2> QED BY <2>1, SelectSlice
  <1>2. CASE FindRoute \/ QueuedCompute
    BY <1>2, ComputeSlice DEF FindRoute, QueuedCompute
  <1>3. CASE \E rq \in inflight : Answer(rq) \/ Fail(rq)
    BY <1>3, AnswerSlice
  <1>4. CASE UNCHANGED vars
    BY <1>4, SelectSlice DEF vars
  <1> QED BY <1>1, <1>2, <1>3, <1>4 DEF Next

-----------------------------------------------------------------------------
(* The recent searches                                                      *)

\* The rank of an element of a finite set of numbers: as many are not above it.
Rank(K) == [i \in K |-> Cardinality({j \in K : j <= i})]

(* Ranks differ, so that a set of n numbers has an element of every rank    *)
(* from 1 to n, and no two of the same.                                     *)
LEMMA RankIsBijective ==
    ASSUME NEW n \in Nat, NEW K \in SUBSET (1..n)
    PROVE  /\ Cardinality(K) \in Nat /\ Cardinality(K) <= n
           /\ \A i, j \in K : Rank(K)[i] = Rank(K)[j] => i = j
           /\ \A k \in 1..Cardinality(K) : \E i \in K : Rank(K)[i] = k
  <1> DEFINE UpTo(i) == {j \in K : j <= i}
             c == Cardinality(K)
  <1>1. IsFiniteSet(1..n) /\ Cardinality(1..n) = n
    <2>1. 1 \in Int /\ n \in Int
      OBVIOUS
    <2>2. IsFiniteSet(1..n) /\ Cardinality(1..n) = IF 1 > n THEN 0 ELSE n - 1 + 1
      BY <2>1, FS_Interval
    <2> QED BY <2>2
  <1>2. IsFiniteSet(K) /\ c <= n
    BY <1>1, FS_Subset
  <1>3. c \in Nat
    BY <1>2, FS_CardinalityType
  <1>4. ASSUME NEW i \in K
        PROVE  IsFiniteSet(UpTo(i)) /\ Cardinality(UpTo(i)) \in 1..c
    <2>1. UpTo(i) \in SUBSET K
      OBVIOUS
    <2>2. IsFiniteSet(UpTo(i)) /\ Cardinality(UpTo(i)) <= c
      BY <1>2, <2>1, FS_Subset
    <2>3. Cardinality(UpTo(i)) \in Nat
      BY <2>2, FS_CardinalityType
    <2>4. UpTo(i) # {}
      OBVIOUS
    <2>5. Cardinality(UpTo(i)) # 0
      <3> HIDE DEF UpTo
      <3> QED BY <2>2, <2>4, FS_EmptySet
    <2> QED BY <1>3, <2>2, <2>3, <2>5
  <1>5. ASSUME NEW i \in K, NEW j \in K, i < j
        PROVE  Cardinality(UpTo(i)) # Cardinality(UpTo(j))
    <2>0. \A x \in K : x \in Nat /\ x <= x /\ (x <= i => x <= j)
      BY <1>5
    <2>1. UpTo(i) \in SUBSET UpTo(j) /\ j \in UpTo(j) /\ j \notin UpTo(i)
      <3>1. j \in UpTo(j) /\ UpTo(i) \in SUBSET UpTo(j)
        BY <2>0
      <3>2. ~(j <= i)
        BY <1>5, <2>0
      <3> QED BY <3>1, <3>2
    <2>2. UpTo(i) # UpTo(j)
      BY <2>1
    <2>3. IsFiniteSet(UpTo(j))
      BY <1>4
    <2> HIDE DEF UpTo
    <2> QED BY <2>1, <2>2, <2>3, FS_Subset
  <1>6. ASSUME NEW i \in K, NEW j \in K, Cardinality(UpTo(i)) = Cardinality(UpTo(j))
        PROVE  i = j
    <2>1. ~(i < j) /\ ~(j < i)
      <3> HIDE DEF UpTo
      <3> QED BY <1>5, <1>6
    <2> QED BY <2>1
  <1> DEFINE f == [i \in K |-> Cardinality(UpTo(i))]
  <1>7. f = Rank(K)
    BY DEF Rank
  <1>8. f \in [K -> 1..c] /\ \A i, j \in K : f[i] = f[j] => i = j
    <2> HIDE DEF UpTo, c
    <2> QED BY <1>4, <1>6
  <1>9. IsFiniteSet(1..c) /\ Cardinality(1..c) = c
    <2>1. 1 \in Int /\ c \in Int
      BY <1>3
    <2> HIDE DEF c
    <2>2. IsFiniteSet(1..c) /\ Cardinality(1..c) = IF 1 > c THEN 0 ELSE c - 1 + 1
      BY <2>1, FS_Interval
    <2> QED BY <1>3, <2>2
  <1>10. f \in Injection(K, 1..c)
    <2> HIDE DEF f, c
    <2> QED BY <1>8 DEF Injection, IsInjective
  <1>11. f \in Surjection(K, 1..c)
    <2> HIDE DEF f
    <2> QED BY <1>2, <1>9, <1>10, FS_Injection
  <1>12. \A k \in 1..c : \E i \in K : f[i] = k
    <2> HIDE DEF f, c
    <2> QED BY <1>11 DEF Surjection
  <1> HIDE DEF f
  <1> QED BY <1>2, <1>3, <1>7, <1>8, <1>12

\* A sequence of pairs without repetitions
IsHistory(s) == s \in Seq(Pair) /\ IsInjective(s)

\* What the filter leaves of a history is one, without p and no longer.
LEMMA OthersAreHistory ==
    ASSUME IsHistory(recents), NEW p
    PROVE  IsHistory(Others(p)) /\ \A i \in DOMAIN Others(p) : Others(p)[i] # p
  <1> DEFINE n == Len(recents)
             left == {i \in DOMAIN recents : recents[i] # p}
             c == Cardinality(left)
             Nth(k) == CHOOSE i \in left : Cardinality({j \in left : j <= i}) = k
  <1>1. n \in Nat /\ DOMAIN recents = 1..n /\ \A i \in 1..n : recents[i] \in Pair
    BY DEF IsHistory
  <1>2. left \in SUBSET (1..n)
    BY <1>1
  <1>3. /\ c \in Nat
        /\ \A k \in 1..c : \E i \in left : Rank(left)[i] = k
    <2> HIDE DEF n, left
    <2> QED BY <1>1, <1>2, RankIsBijective
  <1>4. \A i \in left : Rank(left)[i] = Cardinality({j \in left : j <= i})
    BY DEF Rank
  <1>5. ASSUME NEW k \in 1..c
        PROVE  Nth(k) \in left /\ Rank(left)[Nth(k)] = k
    <2>1. \E i \in left : Cardinality({j \in left : j <= i}) = k
      <3> HIDE DEF left, c
      <3> QED BY <1>3, <1>4
    <2>2. Nth(k) \in left /\ Cardinality({j \in left : j <= Nth(k)}) = k
      <3> HIDE DEF left, c
      <3> QED BY <2>1
    <2> HIDE DEF left, Nth, c
    <2> QED BY <1>4, <2>2
  <1>6. Others(p) = [k \in 1..c |-> recents[Nth(k)]]
    BY DEF Others
  <1>7. \A i \in left : recents[i] \in Pair /\ recents[i] # p /\ i \in DOMAIN recents
    BY <1>1
  <1> HIDE DEF left, Nth, c, n
  <1>8. DOMAIN Others(p) = 1..c /\ \A k \in 1..c : Others(p)[k] = recents[Nth(k)]
    BY <1>6
  <1>9. Others(p) \in Seq(Pair)
    <2>1. Others(p) \in [1..c -> Pair]
      BY <1>5, <1>6, <1>7
    <2> QED BY <1>3, <2>1
  <1>10. IsInjective(Others(p))
    <2> SUFFICES ASSUME NEW k \in 1..c, NEW m \in 1..c, Others(p)[k] = Others(p)[m]
                 PROVE  k = m
      BY <1>8 DEF IsInjective
    <2>1. Nth(k) = Nth(m)
      BY <1>5, <1>7, <1>8 DEF IsHistory, IsInjective
    <2> QED BY <1>5, <2>1
  <1> QED BY <1>5, <1>7, <1>8, <1>9, <1>10 DEF IsHistory

\* The search added comes first, once, and the last one goes when there are
\* too many.
LEMMA AddedIsHistory ==
    ASSUME IsHistory(recents), NEW p \in Pair
    PROVE  IsHistory(Added(p)) /\ Len(Added(p)) <= MaxRecent
  <1> DEFINE o == Others(p)
             all == <<p>> \o o
             m == IF Len(o) < MaxRecent THEN Len(o) + 1 ELSE MaxRecent
  <1>1. IsHistory(o) /\ \A i \in DOMAIN o : o[i] # p
    BY OthersAreHistory
  <1> HIDE DEF o
  <1>2. o \in Seq(Pair) /\ Len(o) \in Nat /\ DOMAIN o = 1..Len(o)
    BY <1>1 DEF IsHistory
  <1>3. all \in Seq(Pair) /\ Len(all) = Len(o) + 1
    BY <1>2
  <1>4. all[1] = p /\ \A i \in 2..Len(o) + 1 : all[i] = o[i - 1] /\ i - 1 \in DOMAIN o
    BY <1>2
  <1>5. m \in Nat /\ m <= Len(all) /\ m <= MaxRecent
    BY <1>2, <1>3, RouteStoreAssumption
  <1>6. Added(p) = SubSeq(all, 1, m)
    BY DEF Added, o
  <1> HIDE DEF all, m
  <1>7. /\ Added(p) \in Seq(Pair) /\ Len(Added(p)) = m
        /\ \A i \in 1..m : Added(p)[i] = all[i]
    BY <1>3, <1>5, <1>6
  <1>8. ASSUME NEW i \in 1..m, NEW j \in 1..m, all[i] = all[j]
        PROVE  i = j
    <2>1. i \in 1..Len(o) + 1 /\ j \in 1..Len(o) + 1
      BY <1>2, <1>3, <1>5
    <2>2. CASE i = 1 \/ j = 1
      BY <1>1, <1>4, <1>8, <2>1, <2>2
    <2>3. CASE i # 1 /\ j # 1
      <3>1. i - 1 \in DOMAIN o /\ j - 1 \in DOMAIN o /\ o[i - 1] = o[j - 1]
        BY <1>2, <1>4, <1>8, <2>1, <2>3
      <3>2. i - 1 = j - 1
        BY <1>1, <3>1 DEF IsHistory, IsInjective
      <3> QED BY <2>1, <3>2
    <2> QED BY <2>2, <2>3
  <1>9. DOMAIN Added(p) = 1..m
    BY <1>7
  <1> QED BY <1>5, <1>7, <1>8, <1>9 DEF IsHistory, IsInjective

\* The slice, its lists and its timers are what they should be: a timer is
\* queued by a search.
StoreInv == TypeOK /\ RecentsInStep /\ queued <= searches

LEMMA InitStore == Init => StoreInv
  <1> SUFFICES ASSUME Init PROVE StoreInv
    OBVIOUS
  <1>1. 0 \in 0..MaxSearches /\ 0 <= MaxRecent /\ DefaultAlgorithm \in Algorithm
    BY RouteStoreAssumption
  <1>2. <<>> \in Seq(Pair) /\ Len(<<>>) = 0 /\ IsInjective(<<>>)
    BY DEF IsInjective
  <1>3. loading \in BOOLEAN /\ inflight \subseteq Request
    BY DEF Init
  <1> QED BY <1>1, <1>2, <1>3 DEF Init, StoreInv, TypeOK, RecentsInStep, Selected

\* what Compute leaves, whatever it is asked
Computed ==
    /\ currentRoute' = None /\ loading' \in BOOLEAN
    /\ error' \in {None, "incomplete", "same station"}
    /\ inflight' \subseteq Request
    /\ asked' \in [from: Selected, to: Selected, algorithm: Algorithm]

LEMMA ComputeTypes ==
    ASSUME NEW d \in Selected, NEW a \in Selected, algorithm \in Algorithm, Compute(d, a)
    PROVE  Computed
  <1>1. /\ currentRoute' = None /\ asked' = [from |-> d, to |-> a, algorithm |-> algorithm]
        /\ asked' \in [from: Selected, to: Selected, algorithm: Algorithm]
    BY DEF Compute
  <1>2. CASE d = None \/ a = None \/ d = a
    <2>1. loading' = FALSE /\ inflight' = {} /\ error' \in {"incomplete", "same station"}
      BY <1>2 DEF Compute, Switched
    <2> QED BY <1>1, <2>1 DEF Computed
  <1>3. CASE ~(d = None \/ a = None \/ d = a)
    <2>1. loading' = TRUE /\ inflight' = {[from |-> d, to |-> a, algorithm |-> algorithm]}
          /\ error' = None
      BY <1>3 DEF Compute, Switched
    <2>2. [from |-> d, to |-> a, algorithm |-> algorithm] \in Request
      BY <1>3 DEF Request, Selected
    <2> QED BY <1>1, <2>1, <2>2 DEF Computed
  <1> QED BY <1>2, <1>3

LEMMA StepStore == StoreInv /\ [Next]_vars => StoreInv'
  <1> SUFFICES ASSUME StoreInv, [Next]_vars PROVE StoreInv'
    OBVIOUS
  <1> USE DEF StoreInv
  <1>a. /\ MaxSearches \in Nat /\ searches \in 0..MaxSearches
        /\ queued \in 0..MaxSearches /\ queued <= searches
    BY RouteStoreAssumption DEF TypeOK
  <1>1. CASE Select \/ ClearRoute
    <2>1. /\ UNCHANGED <<loading, inflight, queued, recents, shown, asked, searches>>
          /\ currentRoute' \in {None, currentRoute} /\ error' \in {None, error}
      BY <1>1 DEF Select, SetDeparture, SetArrival, ClickStation, ClearDeparture, ClearArrival,
                  SwapStations, SetAlgorithm, ClearRoute, Untouched
    <2>2. departure' \in Selected /\ arrival' \in Selected /\ algorithm' \in Algorithm
      BY <1>1 DEF Select, SetDeparture, SetArrival, ClickStation, ClearDeparture, ClearArrival,
                  SwapStations, SetAlgorithm, ClearRoute, selection, TypeOK, Selected
    <2> QED BY <2>1, <2>2 DEF TypeOK, RecentsInStep
  <1>2. CASE FindRoute
    <2> DEFINE p == [departure |-> departure, arrival |-> arrival]
    <2>1. p \in Pair
      BY <1>2 DEF FindRoute, TypeOK, Selected, Pair
    <2>2. IsHistory(recents) /\ Len(recents) <= MaxRecent
      BY DEF TypeOK, RecentsInStep, IsHistory
    <2>3. IsHistory(recents') /\ Len(recents') <= MaxRecent /\ shown' = recents'
      BY <1>2, <2>1, <2>2, AddedIsHistory DEF FindRoute
    <2>4. Computed
      BY <1>2, ComputeTypes DEF FindRoute, TypeOK
    <2>5. /\ UNCHANGED <<departure, arrival, algorithm, queued>>
          /\ searches < MaxSearches /\ searches' = searches + 1
      BY <1>2 DEF FindRoute
    <2>6. queued' \in 0..MaxSearches /\ searches' \in 0..MaxSearches /\ queued' <= searches'
      BY <1>a, <2>5
    <2> QED BY <2>3, <2>4, <2>5, <2>6 DEF TypeOK, RecentsInStep, Computed, IsHistory
  <1>3. CASE SelectRecent
    <2>1. PICK i \in DOMAIN shown :
             /\ departure' = shown[i].departure /\ arrival' = shown[i].arrival
             /\ searches < MaxSearches /\ searches' = searches + 1 /\ queued' = queued + 1
             /\ currentRoute' = None /\ error' = None
             /\ UNCHANGED <<algorithm, loading, inflight, recents, shown, asked>>
      BY <1>3 DEF SelectRecent
    <2>2. shown[i] \in Pair
      <3>1. shown \in Seq(Pair)
        BY DEF TypeOK
      <3> QED BY <2>1, <3>1
    <2>3. departure' \in Selected /\ arrival' \in Selected
      BY <2>1, <2>2 DEF Pair, Selected
    <2>4. queued' \in 0..MaxSearches /\ searches' \in 0..MaxSearches /\ queued' <= searches'
      BY <1>a, <2>1
    <2> QED BY <2>1, <2>3, <2>4 DEF TypeOK, RecentsInStep
  <1>4. CASE QueuedCompute
    <2>1. /\ UNCHANGED <<departure, arrival, algorithm, recents, shown, searches>>
          /\ queued > 0 /\ queued' = queued - 1
      BY <1>4 DEF QueuedCompute
    <2>2. Computed
      BY <1>4, ComputeTypes DEF QueuedCompute, TypeOK
    <2>3. queued' \in 0..MaxSearches /\ queued' <= searches'
      BY <1>a, <2>1
    <2> QED BY <2>1, <2>2, <2>3 DEF TypeOK, RecentsInStep, Computed
  <1>5. CASE ClearRecents
    <2>1. <<>> \in Seq(Pair) /\ IsInjective(<<>>) /\ Len(<<>>) = 0 /\ 0 <= MaxRecent
      BY RouteStoreAssumption DEF IsInjective
    <2> QED BY <1>5, <2>1 DEF ClearRecents, TypeOK, RecentsInStep
  <1>6. CASE \E rq \in inflight : Answer(rq) \/ Fail(rq)
    <2>1. PICK rq \in inflight : Answer(rq) \/ Fail(rq)
      BY <1>6
    <2>2. rq \in Request /\ loading' = FALSE
      BY <2>1 DEF TypeOK, Answer, Fail
    <2>3. /\ UNCHANGED <<departure, arrival, algorithm, queued, recents, shown, asked, searches>>
          /\ currentRoute' \in {rq, currentRoute} /\ error' \in {"http", error}
          /\ inflight' = inflight \ {rq}
      BY <2>1 DEF Answer, Fail
    <2> QED BY <2>2, <2>3 DEF TypeOK, RecentsInStep
  <1>7. CASE UNCHANGED vars
    BY <1>7 DEF vars, TypeOK, RecentsInStep
  <1> QED BY <1>1, <1>2, <1>3, <1>4, <1>5, <1>6, <1>7 DEF Next

-----------------------------------------------------------------------------
(* The layer                                                                *)

\* clear leaves no loop, displayRoute the one whose handle it keeps
LEMMA ClearStops ==
    ASSUME OneAnimation, Clear
    PROVE  OneAnimation' /\ drawn'.route = None
  BY DEF OneAnimation, Clear, Running, NoDrawing

LEMMA DisplayStartsOne ==
    ASSUME OneAnimation, NEW route, DisplayRoute(route)
    PROVE  OneAnimation' /\ drawn'.route = route
  <1>1. Running = {}
    BY DEF OneAnimation, Running
  <1>2. PICK placed \in {FALSE, stations = "here"} :
           /\ drawn' = [route |-> route, placed |-> placed]
           /\ IF placed THEN frame' = NewLoop /\ loops' = Running \cup {NewLoop}
              ELSE frame' = None /\ loops' = Running
    BY DEF DisplayRoute
  <1>3. drawn'.route = route /\ drawn'.placed = placed
    BY <1>2
  <1>4. CASE placed
    BY <1>1, <1>2, <1>3, <1>4 DEF OneAnimation
  <1>5. CASE ~placed
    BY <1>1, <1>2, <1>3, <1>5 DEF OneAnimation
  <1> QED BY <1>3, <1>4, <1>5

LEMMA InitLayer == MapInit => LayerInv
  BY DEF MapInit, Init, LayerInv, DrawnIsCurrent, OneAnimation, NoDrawing

LEMMA SameLayer ==
    ASSUME LayerInv, UNCHANGED <<currentRoute, mounted, view>>
    PROVE  LayerInv'
  BY DEF LayerInv, DrawnIsCurrent, OneAnimation, view

LEMMA FollowLayer ==
    ASSUME LayerInv, Follow, UNCHANGED mounted
    PROVE  LayerInv'
  <1>1. CASE ~mounted
    BY <1>1 DEF Follow, LayerInv, DrawnIsCurrent, OneAnimation, view
  <1>2. CASE mounted /\ currentRoute' = currentRoute
    BY <1>2, SameLayer DEF Follow
  <1>3. CASE mounted /\ currentRoute' # currentRoute /\ currentRoute' = None
    BY <1>3, ClearStops DEF Follow, LayerInv, DrawnIsCurrent
  <1>4. CASE mounted /\ currentRoute' # currentRoute /\ currentRoute' # None
    BY <1>4, DisplayStartsOne DEF Follow, LayerInv, DrawnIsCurrent
  <1> QED BY <1>1, <1>2, <1>3, <1>4 DEF LayerInv

LEMMA StepLayer == LayerInv /\ [MapNext]_mapVars => LayerInv'
  <1> SUFFICES ASSUME LayerInv, [MapNext]_mapVars PROVE LayerInv'
    OBVIOUS
  <1>1. CASE OnRoute(Next)
    BY <1>1, FollowLayer DEF OnRoute
  <1>2. CASE StationsEnd \/ LinkEnds \/ UNCHANGED mapVars
    BY <1>2, SameLayer DEF StationsEnd, LinkEnds, mapVars, vars
  <1>3. CASE Leave
    BY <1>3, ClearStops DEF Leave, LayerInv, DrawnIsCurrent
  <1>4. CASE Return
    <2>1. mounted' = TRUE /\ currentRoute' = currentRoute /\ OneAnimation
      BY <1>4 DEF Return, vars, LayerInv
    <2>2. CASE currentRoute = None
      BY <1>4, <2>1, <2>2 DEF Return, LayerInv, DrawnIsCurrent, OneAnimation, view
    <2>3. CASE currentRoute # None
      BY <1>4, <2>1, <2>3, DisplayStartsOne DEF Return, LayerInv, DrawnIsCurrent
    <2> QED BY <2>2, <2>3
  <1>5. CASE \E n \in loops : Animate(n)
    BY <1>5 DEF Animate, LayerInv, DrawnIsCurrent, OneAnimation, vars
  <1> QED BY <1>1, <1>2, <1>3, <1>4, <1>5 DEF MapNext

-----------------------------------------------------------------------------
(* The results                                                              *)

\* The map leaves the slice to its own steps.
LEMMA MapStepsOfSlice == [MapNext]_mapVars => [Next]_vars
  BY DEF MapNext, OnRoute, StationsEnd, LinkEnds, Leave, Return, Animate, mapVars

LEMMA AlwaysSlice == MapSpec => []SliceInv
  <1>1. MapInit => SliceInv
    BY InitSlice DEF MapInit
  <1>2. SliceInv /\ [MapNext]_mapVars => SliceInv'
    BY MapStepsOfSlice, StepSlice
  <1> QED BY <1>1, <1>2, PTL DEF MapSpec

LEMMA AlwaysStore == MapSpec => []StoreInv
  <1>1. MapInit => StoreInv
    BY InitStore DEF MapInit
  <1>2. StoreInv /\ [MapNext]_mapVars => StoreInv'
    BY MapStepsOfSlice, StepStore
  <1> QED BY <1>1, <1>2, PTL DEF MapSpec

LEMMA AlwaysLayer == MapSpec => []LayerInv
  BY InitLayer, StepLayer, PTL DEF MapSpec

\* The progress bar is on exactly while an answer is awaited, and that answer
\* is the last request's.
THEOREM LoadingIsHonest == MapSpec => []LoadingIffAwaited
  <1>1. SliceInv => LoadingIffAwaited
    BY DEF SliceInv
  <1> QED BY <1>1, AlwaysSlice, PTL

\* A route on screen answers the last request.
THEOREM LastRequestShown == MapSpec => []LastRequestWins
  <1>1. SliceInv => LastRequestWins
    BY DEF SliceInv
  <1> QED BY <1>1, AlwaysSlice, PTL

\* A route, an error and a wait exclude one another.
THEOREM OutcomesExclusive == MapSpec => []OneOutcome
  <1>1. SliceInv => OneOutcome
    BY DEF SliceInv
  <1> QED BY <1>1, AlwaysSlice, PTL

\* The slice, the lists and the history variables keep their types.
THEOREM StoreTypeCorrect == MapSpec => []TypeOK
  <1>1. StoreInv => TypeOK
    BY DEF StoreInv
  <1> QED BY <1>1, AlwaysStore, PTL

\* The recent searches are distinct and not too many, however long the history
\* may be, and the list shown is the one stored, or both as before when
\* storing failed.
THEOREM RecentsTellTheStored == MapSpec => []RecentsInStep
  <1>1. StoreInv => RecentsInStep
    BY DEF StoreInv
  <1> QED BY <1>1, AlwaysStore, PTL

\* While the page is shown the map draws the current route, and nothing when
\* there is none.
THEOREM MapFollowsRoute == MapSpec => []DrawnIsCurrent
  <1>1. LayerInv => DrawnIsCurrent
    BY DEF LayerInv
  <1> QED BY <1>1, AlwaysLayer, PTL

\* No animation loop is left behind, by whatever sequence of routes and pages.
THEOREM NoLoopAbandoned == MapSpec => []OneAnimation
  <1>1. LayerInv => OneAnimation
    BY DEF LayerInv
  <1> QED BY <1>1, AlwaysLayer, PTL

-----------------------------------------------------------------------------
(* The search panel: what the buttons and recognisers know                  *)

Phase == {"starting", "on", "spent", "aborted", "over"}

VoiceInv ==
    /\ phase \in Seq(Phase)
    /\ subscribed \in [Box -> BOOLEAN] /\ isListening \in [Box -> BOOLEAN]
    /\ \A b \in Box : isListening[b] => subscribed[b]
    /\ NoIdleButton /\ OneRecogniser

-----------------------------------------------------------------------------
(* The buttons                                                              *)

LEMMA InitVoice == V!VoiceInit => VoiceInv
  BY DEF V!VoiceInit, VoiceInv, NoIdleButton, V!NoIdleButton, OneRecogniser, V!OneRecogniser

\* stopping aborts the recogniser that can hear, and ends none
LEMMA StopFacts ==
    ASSUME VoiceInv
    PROVE  /\ V!Stop \in Seq(Phase) /\ Len(V!Stop) = Len(phase) /\ DOMAIN V!Stop = DOMAIN phase
           /\ \A r \in DOMAIN phase : /\ V!Stop[r] \notin {"starting", "on"}
                                      /\ V!Stop[r] = "over" <=> phase[r] = "over"
  <1>1. phase \in Seq(Phase) /\ DOMAIN phase = 1..Len(phase) /\ Len(phase) \in Nat
    BY DEF VoiceInv
  <1>2. V!Stop = [r \in 1..Len(phase) |->
                    IF r = recognition /\ phase[r] \in {"starting", "on"} THEN "aborted" ELSE phase[r]]
    BY <1>1 DEF V!Stop
  <1>3. \A r \in 1..Len(phase) : phase[r] \in Phase
    BY <1>1
  <1>4. \A r \in 1..Len(phase) : V!Stop[r] \in Phase
    BY <1>2, <1>3 DEF Phase
  <1>5. V!Stop \in Seq(Phase) /\ Len(V!Stop) = Len(phase) /\ DOMAIN V!Stop = DOMAIN phase
    BY <1>1, <1>2, <1>4
  <1>6. \A r \in DOMAIN phase : phase[r] \in {"starting", "on"} => r = recognition
    BY DEF VoiceInv, OneRecogniser, V!OneRecogniser
  <1> QED BY <1>1, <1>2, <1>5, <1>6

LEMMA ToggleVoice ==
    ASSUME VoiceInv, NEW b \in Box, V!Toggle(b)
    PROVE  VoiceInv'
  <1>1. /\ subscribed \in [Box -> BOOLEAN] /\ isListening \in [Box -> BOOLEAN]
        /\ \A c \in Box : isListening[c] => subscribed[c]
        /\ (\E c \in Box : isListening[c]) => \E r \in DOMAIN phase : phase[r] # "over"
        /\ phase \in Seq(Phase)
    BY DEF VoiceInv, NoIdleButton, V!NoIdleButton
  <1>2. CASE isListening[b]
    <2>1. /\ phase' = V!Stop /\ UNCHANGED subscribed
          /\ isListening' = [isListening EXCEPT ![b] = FALSE]
      BY <1>2 DEF V!Toggle
    <2>2. phase' \in Seq(Phase) /\ OneRecogniser'
      BY <2>1, StopFacts DEF OneRecogniser, V!OneRecogniser
    <2>3. isListening' \in [Box -> BOOLEAN] /\ \A c \in Box : isListening'[c] => isListening[c]
      BY <1>1, <2>1
    <2>4. NoIdleButton'
      BY <1>1, <2>1, <2>3, StopFacts DEF NoIdleButton, V!NoIdleButton
    <2> QED BY <1>1, <2>1, <2>2, <2>3, <2>4 DEF VoiceInv
  <1>3. CASE ~isListening[b]
    <2>1. /\ phase' = Append(V!Stop, "starting") /\ recognition' = Len(phase) + 1
          /\ subscribed' = [subscribed EXCEPT ![b] = TRUE] /\ UNCHANGED isListening
      BY <1>3 DEF V!Toggle
    <2>2. /\ phase' \in Seq(Phase) /\ DOMAIN phase' = 1..Len(phase) + 1
          /\ phase'[Len(phase) + 1] = "starting"
          /\ \A r \in 1..Len(phase) : phase'[r] = V!Stop[r]
      BY <1>1, <2>1, StopFacts DEF Phase
    <2>3. DOMAIN phase = 1..Len(phase) /\ Len(phase) \in Nat
      BY <1>1
    <2>4. OneRecogniser'
      BY <2>1, <2>2, <2>3, StopFacts DEF OneRecogniser, V!OneRecogniser
    <2>5. NoIdleButton'
      BY <2>2, <2>3 DEF NoIdleButton, V!NoIdleButton
    <2>6. subscribed' \in [Box -> BOOLEAN] /\ \A c \in Box : subscribed[c] => subscribed'[c]
      BY <1>1, <2>1
    <2> QED BY <1>1, <2>1, <2>2, <2>4, <2>5, <2>6 DEF VoiceInv
  <1> QED BY <1>2, <1>3

LEMMA RebuildVoice ==
    ASSUME VoiceInv, V!Rebuild
    PROVE  VoiceInv'
  <1>1. phase' = V!Stop /\ \A b \in Box : ~isListening'[b]
    BY DEF V!Rebuild
  <1>2. phase' \in Seq(Phase) /\ OneRecogniser'
    BY <1>1, StopFacts DEF OneRecogniser, V!OneRecogniser
  <1>3. subscribed' \in [Box -> BOOLEAN] /\ isListening' \in [Box -> BOOLEAN]
    BY DEF V!Rebuild
  <1> QED BY <1>1, <1>2, <1>3 DEF VoiceInv, NoIdleButton, V!NoIdleButton

\* an event moves its recogniser on, and never back to where it hears
LEMMA EventPhase ==
    ASSUME VoiceInv, NEW r \in DOMAIN phase, NEW p \in Phase, V!Become(r, p),
           UNCHANGED recognition,
           p \in {"starting", "on"} => phase[r] \in {"starting", "on"}
    PROVE  /\ phase' \in Seq(Phase) /\ DOMAIN phase' = DOMAIN phase /\ phase'[r] = p
           /\ \A q \in DOMAIN phase \ {r} : phase'[q] = phase[q]
           /\ OneRecogniser'
  <1>1. phase \in Seq(Phase) /\ phase' = [phase EXCEPT ![r] = p]
    BY DEF VoiceInv, V!Become
  <1>2. /\ phase' \in Seq(Phase) /\ DOMAIN phase' = DOMAIN phase /\ phase'[r] = p
        /\ \A q \in DOMAIN phase \ {r} : phase'[q] = phase[q]
    BY <1>1
  <1> QED BY <1>2 DEF VoiceInv, OneRecogniser, V!OneRecogniser

\* listening$ reaches every button that is on
LEMMA ListeningOff ==
    ASSUME VoiceInv, V!Listening(FALSE)
    PROVE  isListening' = [b \in Box |-> FALSE]
  <1>1. \A b \in Box : (IF subscribed[b] THEN FALSE ELSE isListening[b]) = FALSE
    BY DEF VoiceInv
  <1> QED BY <1>1 DEF V!Listening

LEMMA OffVoice ==
    ASSUME VoiceInv, NEW r \in DOMAIN phase, V!OnError(r) \/ V!OnEnd(r)
    PROVE  VoiceInv'
  <1>1. V!Listening(FALSE) /\ UNCHANGED <<recognition, subscribed>>
    BY DEF V!OnError, V!OnEnd
  <1>2. phase' \in Seq(Phase) /\ OneRecogniser'
    <2>1. CASE V!OnError(r)
      BY <2>1, EventPhase DEF V!OnError, Phase
    <2>2. CASE V!OnEnd(r)
      BY <2>2, EventPhase DEF V!OnEnd, Phase
    <2> QED BY <2>1, <2>2
  <1>3. isListening' \in [Box -> BOOLEAN] /\ \A b \in Box : ~isListening'[b]
    BY <1>1, ListeningOff
  <1> QED BY <1>1, <1>2, <1>3 DEF VoiceInv, NoIdleButton, V!NoIdleButton

LEMMA StartVoice ==
    ASSUME VoiceInv, NEW r \in DOMAIN phase, V!OnStart(r)
    PROVE  VoiceInv'
  <1>1. /\ phase[r] = "starting" /\ V!Become(r, "on") /\ UNCHANGED <<recognition, subscribed>>
        /\ isListening' = [b \in Box |-> IF subscribed[b] THEN TRUE ELSE isListening[b]]
    BY DEF V!OnStart, V!Listening
  <1>2. phase' \in Seq(Phase) /\ r \in DOMAIN phase' /\ phase'[r] = "on" /\ OneRecogniser'
    BY <1>1, EventPhase DEF Phase
  <1>3. isListening' \in [Box -> BOOLEAN] /\ \A b \in Box : isListening'[b] => subscribed'[b]
    BY <1>1 DEF VoiceInv
  <1>4. NoIdleButton'
    BY <1>2 DEF NoIdleButton, V!NoIdleButton
  <1> QED BY <1>1, <1>2, <1>3, <1>4 DEF VoiceInv

LEMMA ResultVoice ==
    ASSUME VoiceInv, NEW r \in DOMAIN phase, V!OnResult(r)
    PROVE  VoiceInv'
  <1>1. /\ phase[r] = "on" /\ V!Become(r, "spent") /\ UNCHANGED <<recognition, subscribed>>
        /\ isListening' = [b \in Box |-> isListening[b] /\ b \notin V!Receivers]
    BY DEF V!OnResult
  <1>2. phase' \in Seq(Phase) /\ r \in DOMAIN phase' /\ phase'[r] = "spent" /\ OneRecogniser'
    BY <1>1, EventPhase DEF Phase
  <1>3. isListening' \in [Box -> BOOLEAN] /\ \A b \in Box : isListening'[b] => isListening[b]
    BY <1>1 DEF VoiceInv
  <1>4. NoIdleButton'
    BY <1>2 DEF NoIdleButton, V!NoIdleButton
  <1> QED BY <1>1, <1>2, <1>3, <1>4 DEF VoiceInv

LEMMA StepVoice == VoiceInv /\ [PanelNext]_panelVars => VoiceInv'
  <1> SUFFICES ASSUME VoiceInv, [PanelNext]_panelVars PROVE VoiceInv'
    OBVIOUS
  <1>1. CASE UNCHANGED voiceVars
    BY <1>1 DEF voiceVars, VoiceInv, NoIdleButton, V!NoIdleButton, OneRecogniser, V!OneRecogniser
  <1>2. CASE \E b \in Box : Speak(b)
    BY <1>2, ToggleVoice DEF Speak
  <1>3. CASE Reopen
    BY <1>3, RebuildVoice DEF Reopen
  <1>4. ASSUME NEW r \in DOMAIN phase, NEW words \in Long \cup Short, Hear(r, words)
        PROVE  VoiceInv'
    BY <1>4, ResultVoice DEF Hear
  <1>5. ASSUME NEW r \in DOMAIN phase, V!OnStart(r) \/ V!OnError(r) \/ V!OnEnd(r)
        PROVE  VoiceInv'
    BY <1>5, StartVoice, OffVoice
  <1> QED BY <1>1, <1>2, <1>3, <1>4, <1>5 DEF PanelNext, panelVars

-----------------------------------------------------------------------------
(* The suggestions                                                          *)

\* the effect awaits the query it took last, if anything
OneAwaited == pending \subseteq {handled}

LEMMA StepAwaited == OneAwaited /\ [PanelNext]_panelVars => OneAwaited'
  <1> SUFFICES ASSUME OneAwaited, [PanelNext]_panelVars PROVE OneAwaited'
    OBVIOUS
  <1>1. CASE UNCHANGED <<handled, pending>>
    BY <1>1 DEF OneAwaited
  <1>2. CASE SuggestNext
    <2>1. CASE EffectTimer
      BY <2>1 DEF EffectTimer, SwitchedTo, OneAwaited
    <2>2. CASE \E q \in pending : SearchSuccess(q) \/ SearchFailure(q)
      BY <2>2 DEF SearchSuccess, SearchFailure, OneAwaited
    <2>3. CASE ~EffectTimer /\ ~\E q \in pending : SearchSuccess(q) \/ SearchFailure(q)
      BY <1>1, <1>2, <2>3 DEF SuggestNext, Type, Fill, Pick, ClearBox, Focus, BoxTimer
    <2> QED BY <2>1, <2>2, <2>3
  <1> QED BY <1>1, <1>2 DEF PanelNext, panelVars, suggestVars, Speak, Reopen, Hear

LEMMA StepSuggests ==
    OneAwaited /\ [PanelNext]_panelVars => [results' \notin {results, Nothing} => results' = handled]_suggestVars
  <1> SUFFICES ASSUME OneAwaited, [PanelNext]_panelVars, results' \notin {results, Nothing}
               PROVE  results' = handled
    OBVIOUS
  <1>r. ~Reopen
    BY DEF Reopen, Destroy
  <1>b. ASSUME NEW b \in Box,
               \/ \E v \in Long \cup Short : Type(b, v)
               \/ Pick(b) \/ ClearBox(b) \/ Focus(b) \/ BoxTimer(b)
        PROVE  FALSE
    BY <1>b DEF Type, Pick, ClearBox, Focus, BoxTimer, SearchStations, ClearSearch
  <1>s. SuggestNext
    BY <1>r DEF PanelNext, panelVars, suggestVars, Speak, Hear
  <1>1. PICK q \in pending : SearchSuccess(q)
    BY <1>b, <1>s DEF SuggestNext, Fill, EffectTimer, SearchFailure
  <1> QED BY <1>1 DEF SearchSuccess, OneAwaited

-----------------------------------------------------------------------------
(* The panel                                                                *)

LEMMA AlwaysVoice == PanelSpec => []VoiceInv
  <1>1. PanelInit => VoiceInv
    BY InitVoice DEF PanelInit
  <1> QED BY <1>1, StepVoice, PTL DEF PanelSpec

\* A button that shows "listening" has a recogniser that has not ended.
THEOREM NoButtonIdle == PanelSpec => []NoIdleButton
  <1>1. VoiceInv => NoIdleButton
    BY DEF VoiceInv
  <1> QED BY <1>1, AlwaysVoice, PTL

\* All recognisers but the service's current one are deaf.
THEOREM OneHears == PanelSpec => []OneRecogniser
  <1>1. VoiceInv => OneRecogniser
    BY DEF VoiceInv
  <1> QED BY <1>1, AlwaysVoice, PTL

\* Suggestions only ever change to those of the query taken last.
THEOREM LastQueryShown == PanelSpec => LastQueryWins
  <1>1. PanelInit => OneAwaited
    BY DEF PanelInit, SuggestInit, OneAwaited
  <1> QED BY <1>1, StepAwaited, StepSuggests, PTL DEF PanelSpec, LastQueryWins
=============================================================================

--------------------------- MODULE DijkstraProofs ---------------------------
(***************************************************************************)
(* Proofs about Dijkstra and ShortestRide, for every graph, every set of    *)
(* calls and every bound on the rider.                                      *)
(***************************************************************************)
EXTENDS ShortestRide, RouteFacts, FiniteSetTheorems, TLAPS

-----------------------------------------------------------------------------
(* Any graph, and any search: the maps filled, the edges, and the route     *)
(* rebuilt from a walk back.                                                *)

\* A map stays a map of its type.
LEMMA PutType ==
    ASSUME NEW D, NEW T, NEW f, IsMap(f, D, T), NEW k \in D, NEW v \in T
    PROVE  IsMap(Put(f, k, v), D, T)
    BY DEF Put, IsMap

\* The neighbours of any station are a sequence of edges.
LEMMA NeighborsType ==
    ASSUME NEW g, IsGraph(g), NEW id
    PROVE  /\ Neighbors(g, id) \in Seq(WeightedEdge)
           /\ DOMAIN Neighbors(g, id) = 1..Len(Neighbors(g, id))
           /\ Len(Neighbors(g, id)) \in Nat
           /\ \A i \in 1..Len(Neighbors(g, id)) :
                 /\ Neighbors(g, id)[i].target \in Id
                 /\ Neighbors(g, id)[i].weight \in Nat
                 /\ Neighbors(g, id)[i] \in OutEdges(g, id)
  <1>1. Neighbors(g, id) \in Seq(WeightedEdge)
    BY DEF IsGraph, Neighbors
  <1>2. DOMAIN Neighbors(g, id) = 1..Len(Neighbors(g, id)) /\ Len(Neighbors(g, id)) \in Nat
    BY <1>1
  <1>3. ASSUME NEW i \in 1..Len(Neighbors(g, id))
        PROVE  Neighbors(g, id)[i] \in WeightedEdge /\ Neighbors(g, id)[i] \in OutEdges(g, id)
    BY <1>1, <1>2, <1>3 DEF OutEdges
  <1> QED BY <1>1, <1>2, <1>3 DEF WeightedEdge

-----------------------------------------------------------------------------
(* Read from its end, a walk back from e to s over tight parents is a ride  *)
(* from s to e, at the cost e had in the search.                            *)
LEMMA WalkIsRide ==
    ASSUME NEW g, NEW cost, NEW up, NEW s, NEW e,
           NEW walk \in Seq(Id), walk # <<>>, NEW rev, IsReverse(rev, walk),
           TightParents(g, cost, up), WalksBack(walk, up, e),
           walk[Len(walk)] = s, cost[s] = 0
    PROVE  IsRide(g, Route(g, cost, rev, cost[e]), s, e)
  <1> DEFINE n == Len(walk)
             r == Route(g, cost, rev, cost[e])
             p == r.rawPath
  <1>1. n \in Nat \ {0}
    OBVIOUS
  <1>2. r.total = cost[e] /\ p = RawPath(cost, rev)
    BY DEF Route
  <1>3. Len(p) = n /\ \A i \in 1..n : p[i] = <<walk[n + 1 - i], cost[walk[n + 1 - i]]>>
    BY <1>1, <1>2 DEF RawPath, IsReverse
  <1>4. p[1] = <<s, 0>>
    <2>1. 1 \in 1..n /\ n + 1 - 1 = n
      BY <1>1
    <2> QED BY <1>3, <2>1
  <1>5. p[n] = <<e, r.total>>
    <2>1. n \in 1..n /\ n + 1 - n = 1
      BY <1>1
    <2> QED BY <1>2, <1>3, <2>1 DEF WalksBack
  <1>6. ASSUME NEW i \in 1..n - 1
        PROVE  \E x \in OutEdges(g, p[i][1]) : x.target = p[i + 1][1] /\ p[i + 1][2] = p[i][2] + x.weight
    <2> HIDE DEF n
    <2>1. PICK j \in 1..n - 1 : j = n - i
      <3>1. n - i \in 1..n - 1
        BY <1>1, <1>6
      <3> QED BY <3>1
    <2>2. /\ i \in 1..n /\ i + 1 \in 1..n
          /\ n + 1 - i = j + 1 /\ n + 1 - (i + 1) = j
      BY <1>1, <1>6, <2>1
    <2>3. p[i] = <<walk[j + 1], cost[walk[j + 1]]>> /\ p[i + 1] = <<walk[j], cost[walk[j]]>>
      BY <1>3, <2>2
    <2>4. walk[j] \in DOMAIN up /\ walk[j + 1] = up[walk[j]]
      BY <2>1 DEF WalksBack, n
    <2>5. PICK x \in OutEdges(g, up[walk[j]]) :
             x.target = walk[j] /\ cost[walk[j]] = cost[up[walk[j]]] + x.weight
      BY <2>4 DEF TightParents
    <2> QED BY <2>3, <2>4, <2>5
  <1> QED BY <1>1, <1>3, <1>4, <1>5, <1>6 DEF IsRide

(* Hops have different places, between 1 and the number of them.            *)
LEMMA PlacesDiffer ==
    ASSUME NEW n \in Nat, NEW K \in SUBSET (1..n)
    PROVE  /\ IsFiniteSet(K) /\ Cardinality(K) \in Nat
           /\ \A i \in K : Place(K, i) \in 1..Cardinality(K)
           /\ \A i, j \in K : Place(K, i) = Place(K, j) => i = j
  <1> DEFINE UpTo(i) == {j \in K : j <= i}
  <1>1. IsFiniteSet(K) /\ Cardinality(K) \in Nat
    <2>1. 1 \in Int /\ n \in Int
      OBVIOUS
    <2>2. IsFiniteSet(1..n)
      BY <2>1, FS_Interval
    <2>3. IsFiniteSet(K)
      BY <2>2, FS_Subset
    <2> QED BY <2>3, FS_CardinalityType
  <1>2. ASSUME NEW i \in K
        PROVE  IsFiniteSet(UpTo(i)) /\ Cardinality(UpTo(i)) \in 1..Cardinality(K)
    <2>1. UpTo(i) \in SUBSET K /\ UpTo(i) # {}
      OBVIOUS
    <2> HIDE DEF UpTo
    <2>2. IsFiniteSet(UpTo(i)) /\ Cardinality(UpTo(i)) <= Cardinality(K)
      BY <1>1, <2>1, FS_Subset
    <2>3. Cardinality(UpTo(i)) \in Nat /\ Cardinality(UpTo(i)) # 0
      BY <2>1, <2>2, FS_CardinalityType, FS_EmptySet
    <2> QED BY <1>1, <2>2, <2>3
  <1>3. ASSUME NEW i \in K, NEW j \in K, i < j
        PROVE  Cardinality(UpTo(i)) # Cardinality(UpTo(j))
    <2>1. \A x \in K : x \in Nat /\ x <= x /\ (x <= i => x <= j)
      BY <1>3
    <2>2. j \in UpTo(j) /\ UpTo(i) \in SUBSET UpTo(j)
      BY <2>1
    <2>3. j \notin UpTo(i)
      BY <1>3, <2>1
    <2>4. IsFiniteSet(UpTo(j))
      BY <1>2
    <2> HIDE DEF UpTo
    <2> QED BY <2>2, <2>3, <2>4, FS_Subset
  <1>4. ASSUME NEW i \in K, NEW j \in K, Cardinality(UpTo(i)) = Cardinality(UpTo(j))
        PROVE  i = j
    <2> HIDE DEF UpTo
    <2>1. ~(i < j) /\ ~(j < i)
      BY <1>3, <1>4
    <2> QED BY <2>1
  <1>5. \A i \in K : Place(K, i) = Cardinality(UpTo(i))
    BY DEF Place
  <1> HIDE DEF UpTo
  <1> QED BY <1>1, <1>2, <1>4, <1>5

\* The segments are the hops of the path between stations, each in its place.
LEMMA SegmentsOfHops ==
    ASSUME NEW g, NEW cost, NEW way, Len(way) \in Nat \ {0}
    PROVE  SegmentsAreHops(g, cost, way)
  <1> DEFINE hops == Hops(g, way)
             Nth(k) == CHOOSE i \in hops : Place(hops, i) = k
  <1>1. /\ Cardinality(hops) \in Nat
        /\ \A i \in hops : Place(hops, i) \in 1..Cardinality(hops)
        /\ \A i, j \in hops : Place(hops, i) = Place(hops, j) => i = j
    <2>1. Len(way) - 1 \in Nat
      OBVIOUS
    <2>2. hops \in SUBSET (1..Len(way) - 1)
      BY DEF Hops
    <2> HIDE DEF hops
    <2> QED BY <2>1, <2>2, PlacesDiffer
  <1>2. Segments(g, cost, way) =
          [k \in 1..Cardinality(hops) |-> Segment(g, cost, way[Nth(k)], way[Nth(k) + 1])]
    BY DEF Segments, Hops, Place
  <1> HIDE DEF hops
  <1>3. ASSUME NEW i \in hops PROVE Nth(Place(hops, i)) = i
    BY <1>1
  <1> HIDE DEF Nth
  <1> QED BY <1>1, <1>2, <1>3 DEF SegmentsAreHops, hops

-----------------------------------------------------------------------------
(* Distances, as Bellman and Ford reckon them.                              *)

\* Induction over the natural numbers, for a set of them.
LEMMA SetInduction ==
    ASSUME NEW S \in SUBSET Nat, 0 \in S, \A n \in S : n + 1 \in S
    PROVE  S = Nat
  <1> DEFINE T == Nat \ S
  <1>1. SUFFICES ASSUME T # {} PROVE FALSE
    OBVIOUS
  <1>2. T \subseteq Nat
    OBVIOUS
  <1>3. PICK x \in T : \A y \in T : ~(<<y, x>> \in OpToRel(<, Nat))
    <2> HIDE DEF T
    <2> QED BY <1>1, <1>2, NatLessThanWellFounded, WFMin
  <1>4. \A y \in T : ~(y < x)
    BY <1>3 DEF OpToRel
  <1>5. x # 0 /\ x - 1 \in Nat /\ (x - 1) + 1 = x
    OBVIOUS
  <1>6. x - 1 \in S
    BY <1>4, <1>5
  <1> QED BY <1>5, <1>6

\* A set of costs with a member has a least one.
LEMMA LeastBelow ==
    ASSUME NEW S \in SUBSET Nat, NEW n \in S
    PROVE  \E x \in Least(S) : x <= n
  <1>1. PICK x \in S : \A y \in S : ~(<<y, x>> \in OpToRel(<, Nat))
    BY NatLessThanWellFounded, WFMin
  <1>2. \A y \in S : ~(y < x)
    BY <1>1 DEF OpToRel
  <1>3. \A y \in S : x <= y
    BY <1>2
  <1> QED BY <1>3 DEF Least

LEMMA RoundsExist ==
    ASSUME NEW g, NEW s, NEW m \in Nat
    PROVE  \E D : IsRounds(D, g, s, m)
  <1> DEFINE S == {n \in Nat : \E D : IsRounds(D, g, s, n)}
  <1>1. 0 \in S
    <2>1. IsRounds([k \in 0..0 |-> AtSource(s)], g, s, 0)
      BY DEF IsRounds
    <2> QED BY <2>1
  <1>2. ASSUME NEW n \in S PROVE n + 1 \in S
    <2>1. PICK D : IsRounds(D, g, s, n)
      OBVIOUS
    <2> DEFINE E == [k \in 0..n + 1 |-> IF k = 0 THEN AtSource(s) ELSE Improved(g, D[k - 1])]
    <2>2. \A k \in 0..n : E[k] = D[k]
      <3>1. \A k \in 0..n : D[k] = IF k = 0 THEN AtSource(s) ELSE Improved(g, D[k - 1])
        BY <2>1 DEF IsRounds
      <3>2. \A k \in 0..n : k \in 0..n + 1
        OBVIOUS
      <3> QED BY <3>1, <3>2
    <2>3. \A k \in 0..n + 1 : k # 0 => k - 1 \in 0..n
      OBVIOUS
    <2>4. E = [k \in 0..n + 1 |-> IF k = 0 THEN AtSource(s) ELSE Improved(g, E[k - 1])]
      BY <2>2, <2>3
    <2> HIDE DEF E
    <2>5. IsRounds(E, g, s, n + 1)
      BY <2>4 DEF IsRounds
    <2> QED BY <2>5
  <1>3. S = Nat
    <2> HIDE DEF S
    <2> QED BY <1>1, <1>2, SetInduction DEF S
  <1> QED BY <1>3

LEMMA LastIsNat == Last \in Nat
  BY FiniteIds, FS_CardinalityType DEF Last

\* What the recursion computes: the rounds.
LEMMA RoundsAre ==
    ASSUME NEW g, NEW s
    PROVE  /\ \A v \in Id : Rounds(g, s)[0][v] = IF v = s THEN {0} ELSE {}
           /\ \A k \in 1..Last, v \in Id :
                 Rounds(g, s)[k][v] = Least(Rounds(g, s)[k - 1][v] \cup Arrivals(g, Rounds(g, s)[k - 1], v))
  <1> DEFINE D == CHOOSE D : IsRounds(D, g, s, Last)
  <1>1. Rounds(g, s) = D
    BY Zenon DEF Rounds, IsRounds, Last
  <1>2. IsRounds(D, g, s, Last)
    BY RoundsExist, LastIsNat
  <1> HIDE DEF D
  <1>3. \A k \in 0..Last : D[k] = IF k = 0 THEN AtSource(s) ELSE Improved(g, D[k - 1])
    BY <1>2 DEF IsRounds
  <1>4. D[0] = AtSource(s) /\ \A k \in 1..Last : D[k] = Improved(g, D[k - 1])
    BY <1>3, LastIsNat
  <1>5. \A v \in Id : D[0][v] = IF v = s THEN {0} ELSE {}
    BY <1>4 DEF AtSource
  <1>6. ASSUME NEW k \in 1..Last, NEW v \in Id
        PROVE  D[k][v] = Least(D[k - 1][v] \cup Arrivals(g, D[k - 1], v))
    BY <1>4 DEF Improved
  <1> QED BY <1>1, <1>5, <1>6

\* Whatever holds of the source and is kept by an edge holds of every cost
\* that some round gives some station.
LEMMA RoundsWithin ==
    ASSUME NEW g, IsGraph(g), NEW s \in Id, NEW R,
           <<s, 0>> \in R,
           \A u \in Id, c \in Nat : \A e \in OutEdges(g, u) :
              <<u, c>> \in R => <<e.target, c + e.weight>> \in R
    PROVE  \A k \in 0..Last, v \in Id : \A c \in Rounds(g, s)[k][v] : c \in Nat /\ <<v, c>> \in R
  <1> DEFINE Good(k) == \A v \in Id : \A c \in Rounds(g, s)[k][v] : c \in Nat /\ <<v, c>> \in R
             S == {k \in Nat : k \in 0..Last => Good(k)}
  <1>1. 0 \in S
    BY RoundsAre
  <1>2. ASSUME NEW k \in S PROVE k + 1 \in S
    <2> SUFFICES ASSUME k + 1 \in 0..Last, NEW v \in Id, NEW c \in Rounds(g, s)[k + 1][v]
                 PROVE  c \in Nat /\ <<v, c>> \in R
      OBVIOUS
    <2> DEFINE d == Rounds(g, s)[k]
    <2>1. k \in 0..Last /\ k + 1 \in 1..Last /\ k + 1 - 1 = k
      BY LastIsNat
    <2>2. Good(k)
      BY <2>1
    <2>3. Rounds(g, s)[k + 1][v] = Least(d[v] \cup Arrivals(g, d, v))
      BY <2>1, RoundsAre
    <2> HIDE DEF d
    <2>4. c \in d[v] \cup Arrivals(g, d, v)
      BY <2>3 DEF Least
    <2>5. CASE c \in d[v]
      BY <2>2, <2>5 DEF d
    <2>6. CASE c \in Arrivals(g, d, v)
      <3>1. PICK u \in Id : \E b \in d[u] : \E e \in OutEdges(g, u) : e.target = v /\ c = b + e.weight
        BY <2>6 DEF Arrivals
      <3>2. PICK b \in d[u] : \E e \in OutEdges(g, u) : e.target = v /\ c = b + e.weight
        BY <3>1
      <3>3. PICK e \in OutEdges(g, u) : e.target = v /\ c = b + e.weight
        BY <3>2
      <3>4. b \in Nat /\ <<u, b>> \in R
        BY <2>2 DEF d
      <3>5. e.weight \in Nat
        BY NeighborsType DEF OutEdges
      <3> QED BY <3>3, <3>4, <3>5
    <2> QED BY <2>4, <2>5, <2>6
  <1>3. S = Nat
    <2> HIDE DEF S
    <2> QED BY <1>1, <1>2, SetInduction DEF S
  <1>4. ASSUME NEW k \in 0..Last PROVE Good(k)
    <2>1. k \in Nat
      BY LastIsNat
    <2> HIDE DEF Good
    <2> QED BY <1>3, <2>1
  <1> QED BY <1>4

LEMMA RoundsType ==
    ASSUME NEW g, IsGraph(g), NEW s \in Id
    PROVE  \A k \in 0..Last, v \in Id : Rounds(g, s)[k][v] \in SUBSET Nat
  <1>1. \A u \in Id, c \in Nat : \A e \in OutEdges(g, u) :
           <<u, c>> \in Id \X Nat => <<e.target, c + e.weight>> \in Id \X Nat
    BY NeighborsType DEF OutEdges
  <1>2. <<s, 0>> \in Id \X Nat
    OBVIOUS
  <1> QED BY <1>1, <1>2, RoundsWithin

\* A round takes an edge, at its weight or for less.
LEMMA RoundsRelax ==
    ASSUME NEW g, IsGraph(g), NEW s \in Id, NEW k \in 1..Last, NEW u \in Id,
           NEW e \in OutEdges(g, u), NEW c \in Rounds(g, s)[k - 1][u]
    PROVE  \E x \in Rounds(g, s)[k][e.target] : x <= c + e.weight
  <1> DEFINE d == Rounds(g, s)[k - 1]
             all == d[e.target] \cup Arrivals(g, d, e.target)
  <1>1. k - 1 \in 0..Last
    BY LastIsNat
  <1>2. \A v \in Id : d[v] \in SUBSET Nat
    BY <1>1, RoundsType
  <1>3. e.target \in Id /\ \A w \in Id : \A x \in OutEdges(g, w) : x.weight \in Nat
    BY NeighborsType DEF OutEdges
  <1>4. c + e.weight \in all
    <2> HIDE DEF d
    <2> QED BY DEF Arrivals, d
  <1>5. all \in SUBSET Nat
    <2> HIDE DEF d
    <2> QED BY <1>2, <1>3 DEF Arrivals
  <1>6. Rounds(g, s)[k][e.target] = Least(all)
    BY <1>3, RoundsAre
  <1> HIDE DEF all
  <1> QED BY <1>4, <1>5, <1>6, LeastBelow

\* The source stays where it is.
LEMMA RoundsAtSource ==
    ASSUME NEW g, IsGraph(g), NEW s \in Id
    PROVE  \A k \in 0..Last : 0 \in Rounds(g, s)[k][s]
  <1> DEFINE S == {k \in Nat : k \in 0..Last => 0 \in Rounds(g, s)[k][s]}
  <1>1. 0 \in S
    BY RoundsAre
  <1>2. ASSUME NEW k \in S PROVE k + 1 \in S
    <2> SUFFICES ASSUME k + 1 \in 0..Last PROVE 0 \in Rounds(g, s)[k + 1][s]
      OBVIOUS
    <2> DEFINE d == Rounds(g, s)[k]
               all == d[s] \cup Arrivals(g, d, s)
    <2>1. k \in 0..Last /\ k + 1 \in 1..Last /\ k + 1 - 1 = k
      BY LastIsNat
    <2>2. 0 \in d[s] /\ \A v \in Id : d[v] \in SUBSET Nat
      BY <2>1, RoundsType
    <2>3. \A w \in Id : \A x \in OutEdges(g, w) : x.weight \in Nat
      BY NeighborsType DEF OutEdges
    <2>4. all \in SUBSET Nat
      <3> HIDE DEF d
      <3> QED BY <2>2, <2>3 DEF Arrivals
    <2>5. Rounds(g, s)[k + 1][s] = Least(all)
      BY <2>1, RoundsAre
    <2>6. 0 \in all
      BY <2>2
    <2> HIDE DEF all
    <2> QED BY <2>4, <2>5, <2>6 DEF Least
  <1>3. S = Nat
    <2> HIDE DEF S
    <2> QED BY <1>1, <1>2, SetInduction DEF S
  <1> QED BY <1>3

LEMMA ReckonsSource ==
    ASSUME NEW g, IsGraph(g), NEW s \in Id, NEW m \in Nat
    PROVE  Reckons(g, s, s, 0, m)
  BY RoundsAtSource DEF Reckons

\* The target of an edge is reckoned one round after its source.
LEMMA ReckonsEdge ==
    ASSUME NEW g, IsGraph(g), NEW s \in Id, NEW u \in Id, NEW c \in Nat, NEW m \in Nat \ {0},
           Reckons(g, s, u, c, m - 1), NEW e \in OutEdges(g, u)
    PROVE  Reckons(g, s, e.target, c + e.weight, m)
  <1> SUFFICES ASSUME NEW k \in 0..Last, k >= m
               PROVE  \E x \in Rounds(g, s)[k][e.target] : x <= c + e.weight
    BY DEF Reckons
  <1>1. k - 1 \in 0..Last /\ k - 1 >= m - 1 /\ k \in 1..Last /\ k \in 0..Last
    BY LastIsNat
  <1>2. PICK b \in Rounds(g, s)[k - 1][u] : b <= c
    BY <1>1 DEF Reckons
  <1>3. PICK x \in Rounds(g, s)[k][e.target] : x <= b + e.weight
    BY <1>1, RoundsRelax
  <1>4. e.target \in Id /\ e.weight \in Nat
    BY NeighborsType DEF OutEdges
  <1>5. b \in Nat /\ x \in Nat
    BY <1>1, <1>4, RoundsType
  <1> QED BY <1>2, <1>3, <1>4, <1>5

\* A cost that is reckoned and that nothing closed under the edges of the
\* graph undercuts is the distance.
LEMMA ReckonedIsDistance ==
    ASSUME NEW g, IsGraph(g), NEW s \in Id, NEW e \in Id, NEW c \in Nat, Reckons(g, s, e, c, Last),
           NEW R, <<s, 0>> \in R,
           \A u \in Id, b \in Nat : \A x \in OutEdges(g, u) :
              <<u, b>> \in R => <<x.target, b + x.weight>> \in R,
           \A b \in Nat : <<e, b>> \in R => c <= b
    PROVE  c \in Distance(g, s)[e]
  <1>1. Last \in 0..Last /\ Last \in Nat
    BY LastIsNat
  <1>2. PICK b \in Rounds(g, s)[Last][e] : b <= c
    BY <1>1 DEF Reckons
  <1>3. b \in Nat /\ <<e, b>> \in R
    BY <1>1, RoundsWithin
  <1>4. b = c
    BY <1>2, <1>3
  <1> QED BY <1>2, <1>4 DEF Distance, Last

-----------------------------------------------------------------------------
(* Type correctness.                                                        *)

LEMMA InitType == Init => TypeOK
  BY CallsAssumption DEF Init, Fresh, TypeOK, IsCall, Entry

LEMMA StepType == TypeOK /\ HasParent /\ [Next]_vars => TypeOK'
  <1> SUFFICES ASSUME TypeOK, HasParent, [Next]_vars PROVE TypeOK'
    OBVIOUS
  <1> USE DEF TypeOK
  <1>a. IsMap(dist, Id, Nat) /\ IsMap(parent, Id, Id)
    BY DEF IsMap
  <1>1. CASE AnswerTrivial BY <1>1 DEF AnswerTrivial, Return
  <1>2. CASE AnswerUnknown BY <1>2 DEF AnswerUnknown, Return
  <1>3. CASE PushSource
    <2>1. call.start \in Id /\ 0 \in Nat
      BY DEF IsCall
    <2>2. IsMap(dist', Id, Nat)
      BY <1>3, <1>a, <2>1, PutType DEF PushSource
    <2>3. pq' \subseteq Entry
      BY <1>3, <2>1 DEF PushSource, Entry
    <2> QED BY <1>3, <2>2, <2>3 DEF PushSource, IsMap
  <1>4. CASE SkipStale BY <1>4 DEF SkipStale
  <1>5. CASE Settle
    <2>1. PICK top \in pq :
             /\ pq' = pq \ {top} /\ visited' = visited \cup {top.id} /\ curr' = top
             /\ IF top.id = call.end THEN StartTracing ELSE StartRelaxing
             /\ UNCHANGED <<call, dist, parent, result>>
      BY <1>5 DEF Settle
    <2>2. top \in Entry /\ top.id \in Id /\ call.end \in Id
      BY <2>1 DEF Entry, IsCall
    <2>3. Len(Neighbors(call.graph, top.id)) \in Nat
      BY NeighborsType, <2>2 DEF IsCall
    <2>4. CASE top.id = call.end
      <3>1. <<call.end>> \in Seq(Id) /\ Len(<<call.end>>) = 1 /\ Len(<< >>) = 0
        BY <2>2
      <3>4. path' = <<call.end>>
        BY <2>1, <2>4 DEF StartTracing
      <3>5. path' \in Seq(Id)
        BY <3>1, <3>4
      <3>6. path' # <<>>
        BY <3>1, <3>4
      <3>2. pc' = "trace" /\ edge' = edge
        BY <2>1, <2>4 DEF StartTracing
      <3>3. visited' \subseteq Id /\ pq' \subseteq Entry /\ curr' \in Entry
        BY <2>1, <2>2
      <3> QED BY <2>1, <3>5, <3>6, <3>2, <3>3
    <2>5. CASE top.id # call.end
      BY <2>1, <2>2, <2>3, <2>5 DEF StartRelaxing, Edges
    <2> QED BY <2>4, <2>5
  <1>6. CASE Exhausted BY <1>6 DEF Exhausted, Return
  <1>7. CASE RelaxEdge
    <2> DEFINE e == Edges[edge]
               cost == curr.cost + e.weight
    <2>1. curr.id \in Id /\ curr.cost \in Nat
      BY DEF Entry
    <2>2. edge \in 1..Len(Edges) /\ e.target \in Id /\ e.weight \in Nat /\ Len(Edges) \in Nat
      BY <1>7, <2>1, NeighborsType DEF RelaxEdge, Edges, IsCall
    <2>3. cost \in Nat
      BY <2>1, <2>2
    <2>4. IsMap(Put(dist, e.target, cost), Id, Nat)
      BY <1>a, <2>2, <2>3, PutType
    <2>5. IsMap(Put(parent, e.target, curr.id), Id, Id)
      BY <1>a, <2>1, <2>2, PutType
    <2>6. [cost |-> cost, id |-> e.target] \in Entry
      BY <2>2, <2>3 DEF Entry
    <2>7. IsMap(dist', Id, Nat) /\ IsMap(parent', Id, Id) /\ pq' \subseteq Entry
      BY <1>7, <1>a, <2>4, <2>5, <2>6 DEF RelaxEdge, Edges
    <2>8. edge' = edge + 1 /\ UNCHANGED <<call, pc, visited, curr, path, result>>
      BY <1>7 DEF RelaxEdge
    <2> QED BY <2>2, <2>7, <2>8 DEF IsMap, Edges
  <1>8. CASE NextPop BY <1>8 DEF NextPop
  <1>9. CASE TraceBack
    <2>1. parent[Current] \in Id
      BY <1>9 DEF TraceBack, HasParent
    <2>2. path' = Append(path, parent[Current])
      BY <1>9 DEF TraceBack
    <2>3. path' \in Seq(Id) /\ path' # <<>>
      BY <2>1, <2>2
    <2> QED BY <1>9, <2>3 DEF TraceBack
  <1>10. CASE ReturnRoute BY <1>10 DEF ReturnRoute, Return
  <1>11. CASE UNCHANGED vars BY <1>11 DEF vars, Edges
  <1> QED
    BY <1>1, <1>2, <1>3, <1>4, <1>5, <1>6, <1>7, <1>8, <1>9, <1>10, <1>11 DEF Next

-----------------------------------------------------------------------------
(* The search invariant holds at the start and every action keeps it.       *)

LEMMA InitSearch == Init => SearchInv
  <1> SUFFICES ASSUME Init PROVE SearchInv
    OBVIOUS
  <1>1. TypeOK
    BY InitType
  <1>2. DOMAIN dist = {} /\ DOMAIN parent = {} /\ visited = {} /\ pq = {} /\ pc = "call"
    BY DEF Init, Fresh
  <1>3. HasParent /\ SettledFirst /\ HeapCovers /\ ParentEdge
    BY <1>2 DEF HasParent, SettledFirst, HeapCovers, ParentEdge, Frontier, Running
  <1>4. Expanded
    BY <1>2 DEF Expanded, Running
  <1>5. Untouched /\ Sourced /\ Tracing /\ Answered /\ AnswerIsRide
    BY <1>2 DEF Init, Fresh, Untouched, Sourced, Tracing, Answered, AnswerIsRide
  <1> QED BY <1>1, <1>3, <1>4, <1>5 DEF SearchInv

\* Answering without a search: what it says of a search does not apply.
LEMMA StepAnswer ==
    ASSUME SearchInv, TypeOK', AnswerTrivial \/ AnswerUnknown
    PROVE  SearchInv'
  <1>1. /\ UNCHANGED <<call, pq, dist, parent, visited, curr, edge, path>>
        /\ pc = "call" /\ pc' = "done" /\ ~Searched /\ ~Searched'
    BY DEF AnswerTrivial, AnswerUnknown, Return, Searched
  <1>2. HasParent' /\ SettledFirst' /\ HeapCovers' /\ ParentEdge'
    BY <1>1 DEF SearchInv, HasParent, SettledFirst, HeapCovers, ParentEdge, Frontier, Running
  <1>3. Expanded'
    BY <1>1 DEF SearchInv, Expanded, Running, Untouched
  <1>4. Untouched' /\ Sourced' /\ Tracing' /\ Answered' /\ AnswerIsRide'
    BY <1>1 DEF Untouched, Sourced, Tracing, Answered, AnswerIsRide
  <1> QED BY <1>2, <1>3, <1>4 DEF SearchInv

LEMMA StepPushSource ==
    ASSUME SearchInv, TypeOK', PushSource
    PROVE  SearchInv'
  <1>1. /\ UNCHANGED <<call, parent, visited, curr, edge, path, result>>
        /\ pc = "call" /\ pc' = "loop" /\ visited' = {} /\ DOMAIN parent' = {}
        /\ pq' = {[cost |-> 0, id |-> call.start]} /\ Searched /\ Searched'
        /\ dist' = Put(dist, call.start, 0)
    BY DEF PushSource, SearchInv, Untouched, Searched
  <1>5. DOMAIN dist = {}
    BY <1>1 DEF SearchInv, Untouched
  <1>2. DOMAIN dist' = {call.start} /\ dist'[call.start] = 0
    BY <1>1, <1>5 DEF Put
  <1>3. HasParent' /\ SettledFirst' /\ HeapCovers' /\ ParentEdge'
    BY <1>1, <1>2 DEF HasParent, SettledFirst, HeapCovers, ParentEdge, Frontier
  <1>4. Expanded'
    BY <1>1 DEF Expanded
  <1>6. Untouched' /\ Sourced' /\ Tracing' /\ Answered' /\ AnswerIsRide'
    BY <1>1, <1>2 DEF Untouched, Sourced, Tracing, Answered, AnswerIsRide
  <1> QED BY <1>3, <1>4, <1>6 DEF SearchInv

LEMMA StepSkipStale ==
    ASSUME SearchInv, TypeOK', SkipStale
    PROVE  SearchInv'
  <1>1. PICK top \in pq : top.id \in visited /\ pq' = pq \ {top}
    BY DEF SkipStale
  <1>2. pc = "loop" /\ UNCHANGED <<call, pc, dist, parent, visited, curr, edge, path, result>>
    BY DEF SkipStale
  <1>3. HeapCovers'
    BY <1>1, <1>2 DEF SearchInv, HeapCovers, Running, Frontier
  <1>4. HasParent' /\ SettledFirst' /\ ParentEdge'
    BY <1>2 DEF SearchInv, HasParent, SettledFirst, ParentEdge, Frontier
  <1>5. Expanded'
    BY <1>2 DEF SearchInv, Expanded, Running, RelaxedEdge
  <1>6. Untouched' /\ Sourced' /\ Tracing' /\ Answered' /\ AnswerIsRide'
    BY <1>2 DEF SearchInv, Untouched, Sourced, Tracing, Answered, AnswerIsRide, Searched
  <1> QED BY <1>3, <1>4, <1>5, <1>6 DEF SearchInv

LEMMA StepExhausted ==
    ASSUME SearchInv, TypeOK', Exhausted
    PROVE  SearchInv'
  <1>1. /\ UNCHANGED <<call, pq, dist, parent, visited, curr, edge, path>>
        /\ pc = "loop" /\ pq = {} /\ pc' = "done" /\ result' = NoRoute
    BY DEF Exhausted, Return
  <1>2. Frontier = {} /\ call.end \notin visited /\ Sourced
    BY <1>1 DEF SearchInv, HeapCovers, Running, Expanded
  <1>3. Answered' /\ AnswerIsRide'
    <2>1. ~result'.found
      BY <1>1 DEF NoRoute
    <2>2. call.end \notin DOMAIN dist /\ Frontier' = {}
      BY <1>1, <1>2 DEF Frontier
    <2>3. call.start \in DOMAIN dist /\ dist[call.start] = 0
      BY <1>1, <1>2 DEF Sourced
    <2> QED BY <1>1, <2>1, <2>2, <2>3 DEF Answered, AnswerIsRide
  <1>4. HasParent' /\ SettledFirst' /\ ParentEdge' /\ HeapCovers'
    BY <1>1 DEF SearchInv, HasParent, SettledFirst, ParentEdge, HeapCovers, Frontier, Running
  <1>5. Expanded'
    BY <1>1 DEF SearchInv, Expanded, Running, RelaxedEdge
  <1>6. Untouched' /\ Sourced' /\ Tracing'
    BY <1>1 DEF Untouched, Sourced, Tracing
  <1> QED BY <1>3, <1>4, <1>5, <1>6 DEF SearchInv

\* The entry popped is the distance of its station, the least still open.
LEMMA StepSettle ==
    ASSUME SearchInv, TypeOK', Settle
    PROVE  SearchInv'
  <1>1. PICK top \in pq :
           /\ IsTop(top) /\ top.id \notin visited
           /\ pq' = pq \ {top} /\ visited' = visited \cup {top.id} /\ curr' = top
           /\ IF top.id = call.end THEN StartTracing ELSE StartRelaxing
    BY DEF Settle
  <1>2. pc = "loop" /\ UNCHANGED <<call, dist, parent, result>>
    BY DEF Settle
  <1>3. pc' \in {"relax", "trace"} /\ (pc' = "trace" <=> top.id = call.end)
    BY <1>1 DEF StartTracing, StartRelaxing
  <1>4. TypeOK /\ top \in Entry /\ top.cost \in Nat /\ top.id \in Id
    BY <1>1 DEF SearchInv, TypeOK, Entry
  <1>5. top.id \in DOMAIN dist /\ dist[top.id] <= top.cost
    BY <1>1 DEF SearchInv, HeapCovers
  <1>6. \A v \in Frontier : dist[v] \in Nat /\ top.cost <= dist[v]
    <2>1. TAKE v \in Frontier
    <2>2. [cost |-> dist[v], id |-> v] \in pq
      BY <1>2, <2>1 DEF SearchInv, HeapCovers, Running
    <2>3. dist[v] \in Nat
      BY <1>4, <2>1 DEF TypeOK, Frontier
    <2> QED BY <1>1, <1>4, <2>2, <2>3 DEF IsTop
  <1>7. top.id \in Frontier /\ dist[top.id] = top.cost
    BY <1>1, <1>4, <1>5, <1>6 DEF Frontier
  <1>8. Frontier' = Frontier \ {top.id}
    BY <1>1, <1>2 DEF Frontier
  <1>9. SettledFirst'
    BY <1>1, <1>2, <1>6, <1>7, <1>8 DEF SearchInv, SettledFirst
  <1>10. HeapCovers'
    BY <1>1, <1>2, <1>8 DEF SearchInv, HeapCovers, Running
  <1>11. HasParent'
    <2>1. ASSUME pc' = "trace" PROVE Current' = call.end
      <3>1. path' = <<call.end>>
        BY <1>1, <1>3, <2>1 DEF StartTracing
      <3>2. Len(path') = 1 /\ path'[1] = call.end
        BY <3>1
      <3> QED BY <3>2 DEF Current
    <2>2. HasParent /\ visited \subseteq visited'
      BY <1>1 DEF SearchInv
    <2>3. pc' = "trace" => call.end \in DOMAIN parent \cup {call.start}
      BY <1>3, <1>5, <2>2 DEF HasParent
    <2> QED BY <1>2, <2>1, <2>2, <2>3 DEF HasParent
  <1>12. Expanded'
    <2>1. visited' \subseteq DOMAIN dist'
      BY <1>1, <1>2, <1>5 DEF SearchInv, Expanded
    <2>2. ASSUME NEW u \in visited' \ {call.end}, pc' = "relax" => u # top.id
          PROVE  \A i \in DOMAIN Neighbors(call.graph, u) :
                    RelaxedEdge(u, Neighbors(call.graph, u)[i])'
      <3>1. u \in visited \ {call.end}
        BY <1>1, <1>3, <2>2
      <3> QED BY <1>2, <3>1 DEF SearchInv, Expanded, RelaxedEdge
    <2>3. pc' = "relax" =>
             /\ top.id \in visited' /\ top.cost = dist'[top.id] /\ edge' = 1
             /\ \A u \in visited' : dist'[u] <= top.cost
      BY <1>1, <1>2, <1>3, <1>7, <1>4 DEF SearchInv, SettledFirst, StartRelaxing
    <2>4. Running' => call.end \notin visited'
      BY <1>1, <1>2, <1>3 DEF SearchInv, Expanded, Running
    <2> QED BY <1>1, <1>2, <2>1, <2>2, <2>3, <2>4 DEF Expanded
  <1>13. ParentEdge' /\ Untouched' /\ Sourced'
    BY <1>2, <1>3 DEF SearchInv, ParentEdge, Untouched, Sourced, Searched
  <1>14. Tracing' /\ Answered' /\ AnswerIsRide'
    <2>1. pc' = "trace" => path' = <<call.end>> /\ Len(<<call.end>>) = 1
      BY <1>1, <1>3 DEF StartTracing
    <2>2. pc' = "trace" => Arrived'
      BY <1>1, <1>2, <1>3, <1>7 DEF Arrived
    <2> QED BY <1>2, <1>3, <2>1, <2>2 DEF Tracing, Answered, AnswerIsRide
  <1> QED BY <1>9, <1>10, <1>11, <1>12, <1>13, <1>14 DEF SearchInv

LEMMA StepNextPop ==
    ASSUME SearchInv, TypeOK', NextPop
    PROVE  SearchInv'
  <1>1. /\ pc = "relax" /\ pc' = "loop" /\ edge > Len(Edges)
        /\ UNCHANGED <<call, pq, dist, parent, visited, curr, edge, path, result>>
    BY DEF NextPop, Edges
  <1>2. DOMAIN Edges = 1..Len(Edges) /\ Len(Edges) \in Nat /\ edge \in Nat
    BY NeighborsType DEF SearchInv, TypeOK, IsCall, Edges
  <1>3. Expanded'
    <2>1. \A i \in DOMAIN Edges : RelaxedEdge(curr.id, Edges[i])
      BY <1>1, <1>2 DEF SearchInv, Expanded
    <2> QED BY <1>1, <2>1 DEF SearchInv, Expanded, RelaxedEdge, Edges, Running
  <1>4. HasParent' /\ SettledFirst' /\ ParentEdge' /\ HeapCovers'
    BY <1>1 DEF SearchInv, HasParent, SettledFirst, ParentEdge, HeapCovers, Frontier, Running
  <1>5. Untouched' /\ Sourced' /\ Tracing' /\ Answered' /\ AnswerIsRide'
    BY <1>1 DEF SearchInv, Untouched, Sourced, Tracing, Answered, AnswerIsRide, Searched
  <1> QED BY <1>3, <1>4, <1>5 DEF SearchInv

\* Relaxing touches no settled station and can only shorten a distance.
LEMMA StepRelaxEdge ==
    ASSUME SearchInv, TypeOK', RelaxEdge
    PROVE  SearchInv'
  <1> DEFINE e == Edges[edge]
             cost == curr.cost + e.weight
  <1>1. pc = "relax" /\ edge' = edge + 1 /\ edge <= Len(Edges)
        /\ UNCHANGED <<call, pc, visited, curr, path, result>>
    BY DEF RelaxEdge, Edges
  <1>2. TypeOK /\ curr.cost \in Nat /\ edge \in 1..Len(Edges) /\ edge \in Nat
    BY <1>1, NeighborsType DEF SearchInv, TypeOK, Entry, IsCall, Edges
  <1>3. e.target \in Id /\ e.weight \in Nat /\ e \in OutEdges(call.graph, curr.id)
    BY <1>2, NeighborsType DEF TypeOK, IsCall, Edges
  <1>4. cost \in Nat /\ curr.cost <= cost
    BY <1>2, <1>3
  <1>5. /\ curr.id \in visited /\ curr.cost = dist[curr.id] /\ visited \subseteq DOMAIN dist
        /\ \A u \in visited : dist[u] <= curr.cost
    BY <1>1 DEF SearchInv, Expanded
  <1>6. /\ Searched /\ call.start \in DOMAIN dist /\ dist[call.start] = 0
    BY <1>1 DEF SearchInv, Sourced
  <1>7. \A v \in DOMAIN dist : dist[v] \in Nat
    BY <1>2 DEF TypeOK
  <1>8. CASE e.target \notin visited /\ Improves(e.target, cost)
    <2>1. /\ dist' = Put(dist, e.target, cost)
          /\ parent' = Put(parent, e.target, curr.id)
          /\ pq' = pq \cup {[cost |-> cost, id |-> e.target]}
      BY <1>8 DEF RelaxEdge, Edges
    <2>2. /\ DOMAIN dist' = DOMAIN dist \cup {e.target} /\ dist'[e.target] = cost
          /\ \A v \in DOMAIN dist : v # e.target => dist'[v] = dist[v]
      BY <2>1 DEF Put
    <2>3. /\ DOMAIN parent' = DOMAIN parent \cup {e.target} /\ parent'[e.target] = curr.id
          /\ \A v \in DOMAIN parent : v # e.target => parent'[v] = parent[v]
      BY <2>1 DEF Put
    <2>4. e.target # call.start
      BY <1>4, <1>6, <1>8 DEF Improves
    <2>5. \A v \in DOMAIN dist : dist'[v] <= dist[v]
      BY <1>4, <1>7, <1>8, <2>2 DEF Improves
    <2>6. \A u \in visited : dist'[u] = dist[u]
      BY <1>5, <1>8, <2>2
    <2>7. HasParent'
      BY <1>1, <1>5, <2>2, <2>3, <2>4 DEF SearchInv, HasParent
    <2>8. Frontier' = Frontier \cup {e.target}
      BY <1>1, <1>8, <2>2 DEF Frontier
    <2>9. SettledFirst'
      <3>1. ASSUME NEW u \in visited, NEW v \in Frontier \cup {e.target}
            PROVE  dist'[u] <= dist'[v]
        <4>1. CASE v = e.target
          BY <1>4, <1>5, <1>7, <2>2, <2>6, <4>1
        <4>2. CASE v # e.target
          <5>1. dist'[v] = dist[v] /\ dist[u] <= dist[v]
            BY <2>2, <4>2 DEF SearchInv, SettledFirst, Frontier
          <5> QED BY <2>6, <5>1
        <4> QED BY <4>1, <4>2
      <3> QED BY <1>1, <2>8, <3>1 DEF SettledFirst
    <2>10. HeapCovers'
      <3>1. ASSUME NEW x \in pq'
            PROVE  x.id \in DOMAIN dist' /\ dist'[x.id] <= x.cost
        <4>1. CASE x \in pq
          <5>1. x.id \in DOMAIN dist /\ dist[x.id] <= x.cost /\ x.cost \in Nat
            BY <4>1, <1>2 DEF SearchInv, HeapCovers, TypeOK, Entry
          <5>2. dist'[x.id] <= dist[x.id] /\ dist[x.id] \in Nat /\ dist'[x.id] \in Nat
            BY <1>4, <1>7, <2>2, <2>5, <5>1
          <5> QED BY <2>2, <5>1, <5>2
        <4>2. CASE x = [cost |-> cost, id |-> e.target]
          BY <1>4, <2>2, <4>2
        <4> QED BY <2>1, <4>1, <4>2
      <3>2. ASSUME NEW v \in Frontier \cup {e.target}
            PROVE  [cost |-> dist'[v], id |-> v] \in pq'
        <4>1. CASE v = e.target
          BY <2>1, <2>2, <4>1
        <4>2. CASE v # e.target
          BY <1>1, <2>1, <2>2, <4>2 DEF SearchInv, HeapCovers, Running, Frontier
        <4> QED BY <4>1, <4>2
      <3> QED BY <2>8, <3>1, <3>2 DEF HeapCovers
    <2>11. ASSUME NEW u \in visited, NEW x, RelaxedEdge(u, x), x.weight \in Nat
           PROVE  RelaxedEdge(u, x)'
      <3>1. x.target \in DOMAIN dist /\ dist[x.target] <= dist[u] + x.weight
        BY <2>11 DEF RelaxedEdge
      <3>2. /\ dist'[x.target] <= dist[x.target] /\ dist'[u] = dist[u]
            /\ dist[u] \in Nat /\ dist[x.target] \in Nat /\ dist'[x.target] \in Nat
        BY <1>4, <1>5, <1>7, <2>2, <2>5, <2>6, <3>1
      <3> QED BY <2>2, <2>11, <3>1, <3>2 DEF RelaxedEdge
    <2>12. e.target \in DOMAIN dist' /\ dist'[e.target] <= dist'[curr.id] + e.weight
      <3>1. dist'[curr.id] = curr.cost
        BY <1>5, <2>6
      <3> QED BY <1>4, <2>2, <3>1
    <2>13. Expanded'
      <3>1. visited' \subseteq DOMAIN dist' /\ call.end \notin visited' /\ curr'.id \in visited'
            /\ curr'.cost = dist'[curr'.id] /\ \A u \in visited' : dist'[u] <= curr'.cost
        BY <1>1, <1>5, <2>2, <2>6 DEF SearchInv, Expanded, Running
      <3>2. ASSUME NEW u \in visited \ {call.end}, u # curr.id,
                   NEW i \in DOMAIN Neighbors(call.graph, u)
            PROVE  RelaxedEdge(u, Neighbors(call.graph, u)[i])'
        <4>1. RelaxedEdge(u, Neighbors(call.graph, u)[i])
          BY <3>2, <1>1 DEF SearchInv, Expanded
        <4>2. Neighbors(call.graph, u)[i].weight \in Nat
          BY <1>2, NeighborsType DEF TypeOK, IsCall
        <4> QED BY <1>1, <2>11, <4>1, <4>2 DEF RelaxedEdge
      <3>3. ASSUME NEW i \in 1..edge' - 1
            PROVE  RelaxedEdge(curr.id, Edges[i])'
        <4>1. CASE i = edge
          BY <4>1, <1>1, <2>12 DEF RelaxedEdge, Edges
        <4>2. CASE i # edge
          <5>1. i \in 1..edge - 1 /\ i \in 1..Len(Edges)
            BY <4>2, <1>1, <1>2, NeighborsType DEF TypeOK, IsCall, Edges
          <5>2. RelaxedEdge(curr.id, Edges[i]) /\ Edges[i].weight \in Nat
            BY <5>1, <1>1, <1>2, NeighborsType DEF SearchInv, Expanded, TypeOK, IsCall, Edges
          <5> QED BY <1>1, <1>5, <2>11, <5>2 DEF RelaxedEdge, Edges
        <4> QED BY <4>1, <4>2
      <3> QED BY <1>1, <3>1, <3>2, <3>3 DEF Expanded, Edges
    <2>14. ParentEdge'
      <3>1. ASSUME NEW v \in DOMAIN parent', v # e.target
            PROVE  \E x \in OutEdges(call.graph, parent'[v]) :
                      x.target = v /\ dist'[v] = dist'[parent'[v]] + x.weight
        <4>1. v \in DOMAIN parent /\ parent'[v] = parent[v] /\ parent[v] \in visited
          BY <2>3, <3>1 DEF SearchInv, HasParent
        <4>2. dist'[parent[v]] = dist[parent[v]] /\ dist'[v] = dist[v]
          BY <2>2, <2>6, <3>1, <4>1 DEF SearchInv, HasParent
        <4> QED BY <4>1, <4>2 DEF SearchInv, ParentEdge
      <3>2. dist'[e.target] = dist'[curr.id] + e.weight
        BY <1>5, <2>2, <2>6
      <3> QED BY <1>1, <1>3, <2>3, <3>1, <3>2 DEF ParentEdge
    <2>15. Untouched' /\ Sourced' /\ Tracing' /\ Answered' /\ AnswerIsRide'
      BY <1>1, <1>6, <2>2, <2>4 DEF Untouched, Sourced, Tracing, Answered, AnswerIsRide, Searched
    <2> QED BY <2>7, <2>9, <2>10, <2>13, <2>14, <2>15 DEF SearchInv
  <1>9. CASE ~(e.target \notin visited /\ Improves(e.target, cost))
    <2>1. UNCHANGED <<dist, parent, pq>>
      BY <1>9 DEF RelaxEdge, Edges
    <2>2. RelaxedEdge(curr.id, e)
      <3>1. e.target \in DOMAIN dist /\ dist[e.target] <= cost
        BY <1>4, <1>5, <1>7, <1>9 DEF Improves
      <3> QED BY <1>5, <3>1 DEF RelaxedEdge
    <2>3. Expanded'
      <3>1. ASSUME NEW i \in 1..edge' - 1
            PROVE  RelaxedEdge(curr.id, Edges[i])
        <4>1. CASE i = edge
          BY <4>1, <2>2
        <4>2. CASE i # edge
          <5>1. i \in 1..edge - 1
            BY <4>2, <1>1, <1>2
          <5> QED BY <5>1, <1>1 DEF SearchInv, Expanded
        <4> QED BY <4>1, <4>2
      <3> QED BY <1>1, <2>1, <3>1 DEF SearchInv, Expanded, Edges, RelaxedEdge, Running
    <2>4. HasParent' /\ SettledFirst' /\ ParentEdge' /\ HeapCovers'
      BY <1>1, <2>1 DEF SearchInv, HasParent, SettledFirst, ParentEdge, HeapCovers, Frontier, Running
    <2>5. Untouched' /\ Sourced' /\ Tracing' /\ Answered' /\ AnswerIsRide'
      BY <1>1, <2>1 DEF SearchInv, Untouched, Sourced, Tracing, Answered, AnswerIsRide, Searched
    <2> QED BY <2>3, <2>4, <2>5 DEF SearchInv
  <1> QED BY <1>8, <1>9

LEMMA StepTraceBack ==
    ASSUME SearchInv, TypeOK', TraceBack
    PROVE  SearchInv'
  <1>1. /\ pc = "trace" /\ Current # call.start /\ path' = Append(path, parent[Current])
        /\ UNCHANGED <<call, pc, pq, dist, parent, visited, curr, edge, result>>
    BY DEF TraceBack
  <1>2. path \in Seq(Id) /\ Len(path) \in Nat \ {0}
    BY <1>1 DEF SearchInv, TypeOK
  <1>3. Current \in DOMAIN parent /\ parent[Current] \in visited /\ parent[Current] \in Id
    BY <1>1 DEF SearchInv, HasParent, TypeOK
  <1>4. /\ Len(path') = Len(path) + 1 /\ path'[Len(path) + 1] = parent[Current]
        /\ \A i \in 1..Len(path) : path'[i] = path[i]
    BY <1>1, <1>2, <1>3
  <1>5. HasParent'
    <2>1. Current' = parent[Current]
      BY <1>4 DEF Current
    <2>2. parent[Current] \in DOMAIN parent \cup {call.start}
      BY <1>3 DEF SearchInv, Expanded, HasParent
    <2> QED BY <1>1, <2>1, <2>2 DEF SearchInv, HasParent
  <1>6. Tracing'
    <2>1. Arrived /\ path[1] = call.end
      BY <1>1 DEF SearchInv, Tracing
    <2>2. ASSUME NEW i \in 1..Len(path') - 1
          PROVE  path'[i] \in DOMAIN parent /\ path'[i + 1] = parent[path'[i]]
      <3>1. CASE i = Len(path)
        BY <1>2, <1>3, <1>4, <3>1 DEF Current
      <3>2. CASE i # Len(path)
        <4>1. i \in 1..Len(path) - 1 /\ i + 1 \in 1..Len(path) /\ i \in 1..Len(path)
          BY <1>2, <1>4, <2>2, <3>2
        <4>2. path[i] \in DOMAIN parent /\ path[i + 1] = parent[path[i]]
          BY <1>1, <4>1 DEF SearchInv, Tracing
        <4> QED BY <1>4, <4>1, <4>2
      <3> QED BY <3>1, <3>2
    <2>3. path'[1] = call.end
      BY <1>2, <1>4, <2>1
    <2> QED BY <1>1, <2>1, <2>2, <2>3 DEF Tracing, Arrived
  <1>7. SettledFirst' /\ ParentEdge' /\ HeapCovers'
    BY <1>1 DEF SearchInv, SettledFirst, ParentEdge, HeapCovers, Frontier, Running
  <1>8. Expanded'
    BY <1>1 DEF SearchInv, Expanded, RelaxedEdge, Running
  <1>9. Untouched' /\ Sourced' /\ Answered' /\ AnswerIsRide'
    BY <1>1 DEF SearchInv, Untouched, Sourced, Answered, AnswerIsRide, Searched
  <1> QED BY <1>5, <1>6, <1>7, <1>8, <1>9 DEF SearchInv

\* Reading the walk back from its end makes it a ride from start to end.
LEMMA StepReturnRoute ==
    ASSUME SearchInv, TypeOK', ReturnRoute
    PROVE  SearchInv'
  <1>1. /\ pc = "trace" /\ pc' = "done" /\ Current = call.start
        /\ result' = Route(call.graph, dist, Reversed(path), curr.cost)
        /\ UNCHANGED <<call, pq, dist, parent, visited, curr, edge, path>>
    BY DEF ReturnRoute, Return
  <1>2. path \in Seq(Id) /\ path # <<>> /\ path[Len(path)] = call.start
    BY <1>1 DEF SearchInv, TypeOK, Current
  <1>3. Arrived /\ WalksBack(path, parent, call.end)
    BY <1>1 DEF SearchInv, Tracing, WalksBack
  <1>4. Searched /\ call.start \in DOMAIN dist /\ dist[call.start] = 0
    BY <1>1 DEF SearchInv, Sourced
  <1>5. result'.found /\ result'.total = curr.cost
    BY <1>1 DEF Route
  <1>6. IsReverse(Reversed(path), path)
    BY <1>2 DEF IsReverse, Reversed
  <1>7. TightParents(call.graph, dist, parent)
    BY DEF SearchInv, ParentEdge, TightParents
  <1>8. IsRide(call.graph, result', call.start, call.end)
    <2>1. curr.cost = dist[call.end]
      BY <1>3 DEF Arrived
    <2> QED BY <1>1, <1>2, <1>3, <1>4, <1>6, <1>7, <2>1, WalkIsRide
  <1>9. AnswerIsRide' /\ Answered'
    BY <1>1, <1>3, <1>4, <1>5, <1>8 DEF AnswerIsRide, Answered, Arrived
  <1>10. HasParent' /\ SettledFirst' /\ ParentEdge' /\ HeapCovers'
    BY <1>1 DEF SearchInv, HasParent, SettledFirst, ParentEdge, HeapCovers, Frontier, Running
  <1>11. Expanded'
    BY <1>1 DEF SearchInv, Expanded, RelaxedEdge, Running
  <1>12. Untouched' /\ Sourced' /\ Tracing'
    BY <1>1 DEF Untouched, Sourced, Tracing
  <1> QED BY <1>9, <1>10, <1>11, <1>12 DEF SearchInv

LEMMA StepSearch == SearchInv /\ [Next]_vars => SearchInv'
  <1> SUFFICES ASSUME SearchInv, [Next]_vars PROVE SearchInv'
    OBVIOUS
  <1>1. TypeOK'
    BY StepType DEF SearchInv
  <1>2. CASE UNCHANGED vars
    <2>1. UNCHANGED <<call, pc, pq, dist, parent, visited, curr, edge, path, result>>
      BY <1>2 DEF vars
    <2>2. HasParent' /\ SettledFirst' /\ HeapCovers' /\ ParentEdge'
      BY <2>1 DEF SearchInv, HasParent, SettledFirst, HeapCovers, ParentEdge, Frontier,
                  Running, Current
    <2>3. Expanded'
      BY <2>1 DEF SearchInv, Expanded, Running, RelaxedEdge, Edges
    <2>4. Untouched' /\ Sourced' /\ Tracing' /\ Answered' /\ AnswerIsRide'
      BY <2>1 DEF SearchInv, Untouched, Sourced, Tracing, Answered, AnswerIsRide, Searched,
                  Arrived, Frontier
    <2> QED BY <1>1, <2>2, <2>3, <2>4 DEF SearchInv
  <1> QED
    BY <1>1, <1>2, StepAnswer, StepPushSource, StepSkipStale, StepSettle, StepExhausted,
       StepRelaxEdge, StepNextPop, StepTraceBack, StepReturnRoute DEF Next

-----------------------------------------------------------------------------
(* The results about a call.                                                *)

\* The inductive invariant: what holds between any two steps of a call, on
\* every graph. The theorems below are its parts.
THEOREM SearchCorrect == Spec => []SearchInv
  BY InitSearch, StepSearch, PTL DEF Spec

\* The locals keep their types and every index stays in its sequence.
THEOREM TypeCorrect == Spec => []TypeOK
  <1>1. SearchInv => TypeOK
    BY DEF SearchInv
  <1> QED BY <1>1, InitSearch, StepSearch, PTL DEF Spec

\* Stations are settled in order of distance, whatever the graph: lines 58
\* and 72 may ignore a settled station for the rest of the call.
THEOREM SettledInOrder == Spec => []SettledFirst
  <1>1. SearchInv => SettledFirst
    BY DEF SearchInv
  <1> QED BY <1>1, InitSearch, StepSearch, PTL DEF Spec

\* The walk back along parent never reads a key that parent does not hold.
THEOREM ParentsExist == Spec => []HasParent
  <1>1. SearchInv => HasParent
    BY DEF SearchInv
  <1> QED BY <1>1, InitSearch, StepSearch, PTL DEF Spec

\* A route that is found is a ride of the graph, hop by hop at the edges' own
\* weights, from start to end.
THEOREM FoundIsRide == Spec => []AnswerIsRide
  <1>1. SearchInv => AnswerIsRide
    BY DEF SearchInv
  <1> QED BY <1>1, InitSearch, StepSearch, PTL DEF Spec

\* The stations of the path have distances, so that no duration is garbage.
LEMMA WalkHasDistances ==
    ASSUME SearchInv, pc = "trace"
    PROVE  \A i \in 1..Len(path) : dist[path[i]] \in Nat
  <1>1. Len(path) \in Nat \ {0} /\ path \in Seq(Id)
    BY DEF SearchInv, TypeOK
  <1>2. \A v \in DOMAIN dist : dist[v] \in Nat
    BY DEF SearchInv, TypeOK
  <1>3. Current \in DOMAIN dist
    BY DEF SearchInv, HasParent, Sourced
  <1>4. ASSUME NEW i \in 1..Len(path), i # Len(path) PROVE path[i] \in DOMAIN dist
    <2>1. i \in 1..Len(path) - 1
      BY <1>1, <1>4
    <2> QED BY <2>1 DEF SearchInv, Tracing, HasParent
  <1> QED BY <1>1, <1>2, <1>3, <1>4 DEF Current

LEMMA StepSegments == SearchInv /\ SegmentsMatchPath /\ [Next]_vars => SegmentsMatchPath'
  <1> SUFFICES ASSUME SearchInv, SegmentsMatchPath, [Next]_vars PROVE SegmentsMatchPath'
    OBVIOUS
  <1>1. CASE AnswerTrivial
    <2>1. result'.segments = <<>> /\ Len(result'.rawPath) = 1
      BY <1>1 DEF AnswerTrivial, Return, TrivialRoute, NoRoute
    <2>2. ASSUME NEW i \in 1..Len(result'.rawPath) - 1 PROVE FALSE
      BY <2>1
    <2>3. Len(result'.segments) = 0 /\ Cardinality({}) = 0
      BY <2>1, FS_EmptySet
    <2> QED BY <2>2, <2>3 DEF SegmentsMatchPath
  <1>2. CASE AnswerUnknown \/ Exhausted
    <2>1. ~result'.found
      BY <1>2 DEF AnswerUnknown, Exhausted, Return, NoRoute
    <2> QED BY <2>1 DEF SegmentsMatchPath
  <1>3. CASE PushSource \/ SkipStale \/ Settle \/ RelaxEdge \/ NextPop \/ TraceBack
    <2>1. pc' # "done"
      BY <1>3 DEF PushSource, SkipStale, Settle, StartTracing, StartRelaxing, RelaxEdge, NextPop, TraceBack
    <2> QED BY <2>1 DEF SegmentsMatchPath
  <1>4. CASE ReturnRoute
    <2> DEFINE rev == Reversed(path)
               n == Len(path)
               raw == result'.rawPath
               segs == result'.segments
    <2>1. /\ pc = "trace" /\ call' = call
          /\ result' = Route(call.graph, dist, rev, curr.cost)
      BY <1>4 DEF ReturnRoute, Return
    <2>2. n \in Nat \ {0}
      BY <2>1 DEF SearchInv, TypeOK
    <2>3. Len(rev) = n /\ \A i \in 1..n : rev[i] = path[n + 1 - i] /\ dist[rev[i]] \in Nat
      <3>1. Len(rev) = n /\ \A i \in 1..n : rev[i] = path[n + 1 - i]
        BY <2>2 DEF Reversed
      <3>2. \A i \in 1..n : n + 1 - i \in 1..n
        BY <2>2
      <3> HIDE DEF rev, n
      <3> QED BY <2>1, <3>1, <3>2, WalkHasDistances DEF n
    <2>4. /\ raw = RawPath(dist, rev) /\ segs = Segments(call.graph, dist, rev)
          /\ result'.stations = Len(rev)
      BY <2>1 DEF Route
    <2>5. /\ DOMAIN raw = 1..n
          /\ \A i \in 1..n : raw[i][1] = rev[i] /\ raw[i][2] = dist[rev[i]]
      <3> HIDE DEF rev, n
      <3> QED BY <2>3, <2>4 DEF RawPath
    <2>6. Len(raw) = n /\ n - 1 \in Nat
      <3> HIDE DEF rev, n, raw
      <3> QED BY <2>2, <2>3, <2>4 DEF RawPath
    <2> DEFINE shown == {i \in 1..Len(raw) - 1 : /\ HasStation(call.graph, raw[i][1])
                                                 /\ HasStation(call.graph, raw[i + 1][1])}
    <2>7. shown = Hops(call.graph, rev)
      <3> HIDE DEF rev, n, raw
      <3>1. \A i \in 1..n - 1 : raw[i][1] = rev[i] /\ raw[i + 1][1] = rev[i + 1]
        BY <2>2, <2>5
      <3> QED BY <2>3, <2>6, <3>1 DEF Hops
    <2>8. /\ Len(segs) = Cardinality(shown)
          /\ \A i \in shown : segs[Place(shown, i)] = Segment(call.graph, dist, rev[i], rev[i + 1])
      <3> HIDE DEF rev, n, raw, segs, shown
      <3>1. SegmentsAreHops(call.graph, dist, rev)
        BY <2>2, <2>3, SegmentsOfHops
      <3> QED BY <2>4, <2>7, <3>1 DEF SegmentsAreHops
    <2>9. ASSUME NEW i \in shown
          PROVE  LET s == segs[Place(shown, i)] IN
                 /\ s.from = raw[i][1] /\ s.to = raw[i + 1][1]
                 /\ raw[i][2] + s.duration = raw[i + 1][2]
      <3>1. i \in 1..n /\ i + 1 \in 1..n
        <4>1. i \in 1..n - 1
          BY <2>6
        <4> QED BY <2>2, <4>1
      <3> HIDE DEF rev, n, raw, segs, shown
      <3>2. segs[Place(shown, i)] = Segment(call.graph, dist, rev[i], rev[i + 1])
        BY <2>8
      <3>3. dist[rev[i]] \in Nat /\ dist[rev[i + 1]] \in Nat
        BY <2>3, <3>1
      <3> DEFINE s == segs[Place(shown, i)]
      <3>4. /\ s.from = rev[i] /\ s.to = rev[i + 1]
            /\ s.duration = dist[rev[i + 1]] - dist[rev[i]]
        BY <3>2 DEF Segment
      <3>5. /\ raw[i][1] = rev[i] /\ raw[i][2] = dist[rev[i]]
            /\ raw[i + 1][1] = rev[i + 1] /\ raw[i + 1][2] = dist[rev[i + 1]]
        BY <2>5, <3>1
      <3> HIDE DEF s
      <3>6. /\ s.from = raw[i][1] /\ s.to = raw[i + 1][1]
            /\ raw[i][2] + s.duration = raw[i + 1][2]
        BY <3>3, <3>4, <3>5
      <3> QED BY <3>6 DEF s
    <2>10. pc' = "done" /\ call' = call
      BY <1>4 DEF ReturnRoute, Return
    <2>11. SegmentsMatchPath'
             <=> /\ Len(segs) = Cardinality(shown)
                 /\ \A i \in shown :
                       LET s == segs[Cardinality({j \in shown : j <= i})] IN
                       /\ s.from = raw[i][1] /\ s.to = raw[i + 1][1]
                       /\ raw[i][2] + s.duration = raw[i + 1][2]
      <3> HIDE DEF rev, n
      <3> QED BY <2>1, <2>10 DEF SegmentsMatchPath, Route
    <2> HIDE DEF rev, n, segs, raw, shown
    <2> QED BY <2>8, <2>9, <2>11 DEF Place
  <1>5. CASE UNCHANGED vars
    BY <1>5 DEF vars, SegmentsMatchPath
  <1> QED BY <1>1, <1>2, <1>3, <1>4, <1>5 DEF Next

\* The segments are the hops of the path between stations the graph knows, in
\* order and lasting exactly as long: raw_path and segments cannot disagree.
THEOREM SegmentsTellThePath == Spec => []SegmentsMatchPath
  <1>1. Init => SegmentsMatchPath
    BY DEF Init, Fresh, SegmentsMatchPath
  <1> QED BY <1>1, InitSearch, StepSearch, StepSegments, PTL DEF Spec

-----------------------------------------------------------------------------
(* The rider.                                                               *)

LEMMA InitRider == RideInit => SearchInv /\ RiderInv
  <1> SUFFICES ASSUME RideInit PROVE SearchInv /\ RiderInv
    OBVIOUS
  <1>1. SearchInv
    BY InitSearch DEF RideInit
  <1>2. pc = "call" /\ call.start \in Id
    BY <1>1 DEF RideInit, Init, Fresh, SearchInv, TypeOK, IsCall
  <1> QED BY <1>1, <1>2 DEF RideInit, RiderInv

LEMMA ComputeRider ==
    ASSUME SearchInv, SearchInv', RiderInv, Compute
    PROVE  RiderInv'
  <1>1. pc # "done" /\ call' = call /\ rider' = rider
    BY DEF Compute, Next, AnswerTrivial, AnswerUnknown, PushSource, SkipStale, Settle,
           Exhausted, RelaxEdge, NextPop, TraceBack, ReturnRoute
  <1>2. rider.at = call.start /\ rider.time = 0 /\ rider.at \in Id /\ rider.time \in Nat
    BY <1>1 DEF RiderInv
  <1>3. pc' = "done" /\ Searched' => rider.at \in DOMAIN dist' /\ dist'[rider.at] <= rider.time
    BY <1>1, <1>2 DEF SearchInv, Answered
  <1> QED BY <1>1, <1>2, <1>3 DEF RiderInv

\* What the search knows when it returns: when a rider may have got where.
Behind == {x \in Id \X Nat : \/ x[1] \in DOMAIN dist /\ dist[x[1]] <= x[2]
                             \/ result.found /\ dist[call.end] <= x[2]}

\* A rider who is behind the distances, or behind the route, stays behind.
LEMMA BehindClosed ==
    ASSUME SearchInv, pc = "done", Searched,
           NEW u \in Id, NEW t \in Nat, <<u, t>> \in Behind, NEW e \in OutEdges(call.graph, u)
    PROVE  <<e.target, t + e.weight>> \in Behind
  <1>1. PICK i \in DOMAIN Neighbors(call.graph, u) : e = Neighbors(call.graph, u)[i]
    BY DEF OutEdges
  <1>2. e.target \in Id /\ e.weight \in Nat
    BY <1>1, NeighborsType DEF SearchInv, TypeOK, IsCall
  <1>3. t + e.weight \in Nat /\ t <= t + e.weight
    BY <1>2
  <1>4. \A v \in DOMAIN dist : dist[v] \in Nat
    BY DEF SearchInv, TypeOK
  <1>5. visited \subseteq DOMAIN dist
    BY DEF SearchInv, Expanded
  <1>6. CASE result.found /\ dist[call.end] <= t
    <2>1. call.end \in DOMAIN dist
      BY <1>5, <1>6 DEF SearchInv, Answered, Arrived
    <2> QED BY <1>2, <1>3, <1>4, <1>6, <2>1 DEF Behind
  <1>7. CASE u \in DOMAIN dist /\ dist[u] <= t /\ ~(result.found /\ dist[call.end] <= t)
    <2>1. u \in visited \ {call.end}
      <3>1. CASE result.found
        <4>1. call.end \in visited /\ u # call.end
          BY <1>7, <3>1 DEF SearchInv, Answered, Arrived
        <4>2. ASSUME u \notin visited PROVE FALSE
          <5>1. dist[call.end] <= dist[u]
            BY <1>7, <4>1, <4>2 DEF SearchInv, SettledFirst, Frontier
          <5> QED BY <1>4, <1>5, <1>7, <3>1, <4>1, <5>1
        <4> QED BY <4>1, <4>2
      <3>2. CASE ~result.found
        BY <1>7, <3>2 DEF SearchInv, Answered, Frontier
      <3> QED BY <3>1, <3>2
    <2>2. RelaxedEdge(u, e)
      BY <1>1, <2>1 DEF SearchInv, Expanded
    <2>3. e.target \in DOMAIN dist /\ dist[e.target] <= dist[u] + e.weight
      BY <2>2 DEF RelaxedEdge
    <2> QED BY <1>2, <1>3, <1>4, <1>7, <2>3 DEF Behind
  <1> QED BY <1>6, <1>7 DEF Behind

\* Behind is closed under the edges of the graph.
Closed ==
    pc = "done" /\ Searched =>
       \A u \in Id, t \in Nat : \A e \in OutEdges(call.graph, u) :
          <<u, t>> \in Behind => <<e.target, t + e.weight>> \in Behind

LEMMA SearchCloses == SearchInv => Closed
  BY BehindClosed DEF Closed

LEMMA RideRider ==
    ASSUME SearchInv, RiderInv, Ride
    PROVE  RiderInv'
  <1>1. pc = "done" /\ UNCHANGED <<call, pc, dist, result>>
    BY DEF Ride, vars
  <1>2. PICK e \in OutEdges(call.graph, rider.at) :
           rider'.at = e.target /\ rider'.time = rider.time + e.weight
    BY DEF Ride
  <1>3. rider.at \in Id /\ rider.time \in Nat /\ IsGraph(call.graph)
    BY DEF RiderInv, SearchInv, TypeOK, IsCall
  <1>4. e.target \in Id /\ e.weight \in Nat
    BY <1>3, NeighborsType DEF OutEdges
  <1>5. ASSUME Searched PROVE <<rider'.at, rider'.time>> \in Behind
    <2>1. <<rider.at, rider.time>> \in Behind
      BY <1>1, <1>3, <1>5 DEF RiderInv, Behind
    <2> QED BY <1>1, <1>2, <1>3, <1>5, <2>1, BehindClosed
  <1> QED BY <1>1, <1>2, <1>3, <1>4, <1>5 DEF RiderInv, Searched, Behind

\* No ride through the graph reaches end before the route that is returned,
\* and where there is a ride a route is returned.
THEOREM ShortestRoute == RideSpec => []NoFasterRide
  <1>1. SearchInv /\ RiderInv /\ [RideNext]_rideVars => SearchInv' /\ RiderInv'
    <2> SUFFICES ASSUME SearchInv, RiderInv, [RideNext]_rideVars
                 PROVE  SearchInv' /\ RiderInv'
      OBVIOUS
    <2>1. SearchInv'
      BY StepSearch DEF RideNext, Compute, Ride, rideVars, vars
    <2>2. CASE Compute
      BY <2>1, <2>2, ComputeRider
    <2>3. CASE Ride
      BY <2>1, <2>3, RideRider
    <2>4. CASE UNCHANGED rideVars
      <3>1. UNCHANGED <<call, pc, dist, result, rider>>
        BY <2>4 DEF rideVars
      <3>2. RiderInv'
        BY <3>1 DEF RiderInv, Searched
      <3> QED BY <2>1, <3>2
    <2> QED BY <2>1, <2>2, <2>3, <2>4 DEF RideNext
  <1>2. SearchInv /\ RiderInv => NoFasterRide
    <2> SUFFICES ASSUME SearchInv, RiderInv, pc = "done", Searched, rider.at = call.end
                 PROVE  result.found /\ result.total <= rider.time
      BY DEF NoFasterRide
    <2>1. /\ result.found => Arrived /\ result.total = curr.cost
          /\ ~result.found => call.end \notin DOMAIN dist
      BY DEF SearchInv, Answered
    <2>2. \/ call.end \in DOMAIN dist /\ dist[call.end] <= rider.time
          \/ result.found /\ dist[call.end] <= rider.time
      BY DEF RiderInv
    <2> QED BY <2>1, <2>2 DEF Arrived
  <1> QED BY <1>1, <1>2, InitRider, PTL DEF RideSpec

-----------------------------------------------------------------------------
(* The promise of IPathfinder: the distance of Bellman and Ford.            *)

(* A distance is that of a ride over settled stations, so that a round for  *)
(* each of them reckons it.                                                 *)
Reckoned ==
    pc \in {"loop", "relax", "trace"} =>
       /\ \A v \in DOMAIN dist :
             Reckons(call.graph, call.start, v, dist[v], Cardinality(visited))
       /\ pc = "relax" =>
             Reckons(call.graph, call.start, curr.id, curr.cost, Cardinality(visited) - 1)

LEMMA SettledCount ==
    ASSUME SearchInv
    PROVE  /\ IsFiniteSet(visited) /\ Cardinality(visited) \in Nat
           /\ Cardinality(visited) <= Last
           /\ visited # {} => Cardinality(visited) # 0
  <1>1. visited \subseteq Id
    BY DEF SearchInv, TypeOK
  <1>2. IsFiniteSet(visited) /\ Cardinality(visited) <= Last
    BY <1>1, FiniteIds, FS_Subset DEF Last
  <1> QED BY <1>2, FS_CardinalityType, FS_EmptySet

LEMMA StepReckoned == SearchInv /\ Reckoned /\ [Next]_vars => Reckoned'
  <1> SUFFICES ASSUME SearchInv, Reckoned, [Next]_vars PROVE Reckoned'
    OBVIOUS
  <1> DEFINE n == Cardinality(visited)
             R(v, c, m) == Reckons(call.graph, call.start, v, c, m)
  <1>a. IsGraph(call.graph) /\ call.start \in Id /\ call.end \in Id
    BY DEF SearchInv, TypeOK, IsCall
  <1>b. n \in Nat /\ IsFiniteSet(visited) /\ (visited # {} => n # 0)
    BY SettledCount
  <1>c. pc \in {"loop", "relax", "trace"} => \A v \in DOMAIN dist : R(v, dist[v], n)
    BY DEF Reckoned
  <1>d. pc = "relax" => R(curr.id, curr.cost, n - 1)
    BY DEF Reckoned
  <1>1. CASE AnswerTrivial \/ AnswerUnknown \/ Exhausted \/ ReturnRoute
    BY <1>1 DEF AnswerTrivial, AnswerUnknown, Exhausted, ReturnRoute, Return, Reckoned
  <1>2. CASE PushSource
    <2>1. DOMAIN dist' = {call.start} /\ dist'[call.start] = 0 /\ visited' = visited
          /\ call' = call /\ pc' = "loop"
      BY <1>2 DEF PushSource, Put, SearchInv, Untouched
    <2>2. R(call.start, 0, n)
      BY <1>a, <1>b, ReckonsSource
    <2> HIDE DEF R
    <2> QED BY <2>1, <2>2 DEF Reckoned, R
  <1>3. CASE SkipStale \/ TraceBack \/ UNCHANGED vars
    <2>1. UNCHANGED <<call, pc, dist, visited, curr>>
      BY <1>3 DEF SkipStale, TraceBack, vars
    <2> QED BY <2>1 DEF Reckoned
  <1>4. CASE Settle
    <2>1. PICK top \in pq :
             /\ top.id \notin visited /\ visited' = visited \cup {top.id} /\ curr' = top
             /\ IsTop(top)
      BY <1>4 DEF Settle
    <2>2. pc = "loop" /\ call' = call /\ dist' = dist
      BY <1>4 DEF Settle
    <2>3. Cardinality(visited') = n + 1
      BY <1>b, <2>1, FS_AddElement
    <2>4. \A v \in DOMAIN dist : R(v, dist[v], n + 1)
      <3>1. \A k \in 0..Last : k >= n + 1 => k >= n
        BY <1>b, LastIsNat
      <3> QED BY <1>c, <2>2, <3>1 DEF Reckons
    <2>5. top.id \in DOMAIN dist /\ dist[top.id] <= top.cost
      BY <2>1 DEF SearchInv, HeapCovers
    <2>6. dist[top.id] \in Nat /\ top.cost \in Nat
      BY <2>1, <2>5 DEF SearchInv, TypeOK, Entry
    <2>7. R(top.id, top.cost, n)
      <3>1. R(top.id, dist[top.id], n)
        BY <1>c, <2>2, <2>5
      <3>2. \A k \in 0..Last : \A x \in Rounds(call.graph, call.start)[k][top.id] : x \in Nat
        BY <1>a, <2>1, RoundsType DEF SearchInv, TypeOK, Entry
      <3> QED BY <2>5, <2>6, <3>1, <3>2 DEF Reckons
    <2>8. Cardinality(visited') - 1 = n
      BY <1>b, <2>3
    <2> HIDE DEF R, n
    <2>9. \A v \in DOMAIN dist' : R(v, dist'[v], Cardinality(visited'))
      BY <2>2, <2>3, <2>4
    <2>10. R(curr'.id, curr'.cost, Cardinality(visited') - 1)
      BY <2>1, <2>7, <2>8
    <2> QED BY <2>2, <2>9, <2>10 DEF Reckoned, R
  <1>5. CASE NextPop
    <2>1. pc = "relax" /\ UNCHANGED <<call, dist, visited>> /\ pc' = "loop"
      BY <1>5 DEF NextPop
    <2> QED BY <1>c, <2>1 DEF Reckoned
  <1>6. CASE RelaxEdge
    <2> DEFINE e == Edges[edge]
               cost == curr.cost + e.weight
    <2>1. pc = "relax" /\ UNCHANGED <<call, pc, visited, curr>>
      BY <1>6 DEF RelaxEdge
    <2>2. curr.cost \in Nat /\ curr.id \in Id /\ edge \in 1..Len(Edges)
      BY <1>6, <1>a, NeighborsType DEF RelaxEdge, SearchInv, TypeOK, Entry, Edges
    <2>3. e \in OutEdges(call.graph, curr.id)
      BY <1>a, <2>2, NeighborsType DEF Edges
    <2>4. n \in Nat \ {0}
      BY <1>b, <2>1 DEF SearchInv, Expanded
    <2>5. R(e.target, cost, n)
      <3> HIDE DEF e, n
      <3> QED BY <1>a, <1>d, <2>1, <2>2, <2>3, <2>4, ReckonsEdge
    <2>6. \/ dist' = Put(dist, e.target, cost)
          \/ dist' = dist
      BY <1>6 DEF RelaxEdge, Edges
    <2>7. ASSUME NEW v \in DOMAIN dist' PROVE R(v, dist'[v], n)
      <3> HIDE DEF R, n, e
      <3>1. CASE dist' = dist
        BY <1>c, <2>1, <2>7, <3>1
      <3>2. CASE dist' = Put(dist, e.target, cost)
        BY <1>c, <2>1, <2>5, <2>7, <3>2 DEF Put
      <3> QED BY <2>6, <3>1, <3>2
    <2> HIDE DEF R, n, e
    <2> QED BY <1>d, <2>1, <2>7 DEF Reckoned, R, n
  <1> QED BY <1>1, <1>2, <1>3, <1>4, <1>5, <1>6 DEF Next

LEMMA InitReckoned == Init => Reckoned
  BY DEF Init, Fresh, Reckoned


\* The instance of Pathfinder speaks of the same graphs, routes and distances.
LEMMA SamePromise ==
    /\ \A c : P!IsCall(c) <=> IsCall(c)
    /\ P!NoRoute = NoRoute
    /\ \A id : P!TrivialRoute(id) = TrivialRoute(id)
    /\ \A g, id : P!HasStation(g, id) <=> HasStation(g, id)
    /\ \A g, r, s, e : P!IsRide(g, r, s, e) <=> IsRide(g, r, s, e)
    /\ \A g, s : P!Distance(g, s) = Distance(g, s)
  <1>1. /\ \A c : P!IsCall(c) <=> IsCall(c)
        /\ P!NoRoute = NoRoute
        /\ \A id : P!TrivialRoute(id) = TrivialRoute(id)
        /\ \A g, id : P!HasStation(g, id) <=> HasStation(g, id)
        /\ \A g, r, s, e : P!IsRide(g, r, s, e) <=> IsRide(g, r, s, e)
    BY DEF P!IsCall, IsCall, P!IsGraph, IsGraph, P!Station, Station, P!WeightedEdge, WeightedEdge,
           P!ConnectionType, ConnectionType, P!NoRoute, NoRoute, P!TrivialRoute, TrivialRoute,
           P!HasStation, HasStation, P!IsRide, IsRide, P!OutEdges, OutEdges, P!Neighbors, Neighbors
  <1>2. ASSUME NEW g, NEW s PROVE P!Distance(g, s) = Distance(g, s)
    BY DEF P!Distance, Distance, P!Rounds, Rounds, P!AtSource, AtSource, P!Improved, Improved,
           P!Least, Least, P!Arrivals, Arrivals, P!OutEdges, OutEdges, P!Neighbors, Neighbors,
           P!Cardinality, Cardinality
  <1> QED BY <1>1, <1>2

\* What is returned is the distance, or nothing where there is none.
LEMMA ReturnsDistance ==
    ASSUME SearchInv, SearchInv', Reckoned, Exhausted \/ ReturnRoute
    PROVE  P!IsAnswer(call, result')
  <1> DEFINE g == call.graph
             s == call.start
             e == call.end
             R == Behind'
  <1>1. /\ call' = call /\ dist' = dist /\ visited' = visited /\ pc' = "done" /\ curr' = curr
        /\ pc \in {"loop", "trace"}
    BY DEF Exhausted, ReturnRoute, Return
  <1>2. IsGraph(g) /\ s \in Id /\ e \in Id
    BY DEF SearchInv, TypeOK, IsCall
  <1>3. Searched /\ Searched' /\ s \in DOMAIN dist /\ dist[s] = 0
    BY <1>1 DEF SearchInv, Sourced, Searched
  <1>4. <<s, 0>> \in R
    BY <1>1, <1>2, <1>3 DEF Behind
  <1>5. \A u \in Id, t \in Nat : \A x \in OutEdges(g, u) :
           <<u, t>> \in R => <<x.target, t + x.weight>> \in R
    <2>1. Closed'
      BY SearchCloses, PTL
    <2> QED BY <1>1, <1>3, <2>1 DEF Closed
  <1>6. CASE result'.found
    <2>1. result'.total = dist[e] /\ e \in DOMAIN dist /\ dist[e] \in Nat /\ curr.id = e
      BY <1>1, <1>3, <1>6 DEF SearchInv, Answered, Arrived, Expanded, TypeOK
    <2>2. IsRide(g, result', s, e)
      BY <1>1, <1>3, <1>6 DEF SearchInv, AnswerIsRide
    <2>3. Reckons(g, s, e, dist[e], Last)
      <3>1. Reckons(g, s, e, dist[e], Cardinality(visited))
        BY <1>1, <2>1 DEF Reckoned
      <3>2. Cardinality(visited) \in Nat /\ Cardinality(visited) <= Last
        BY SettledCount
      <3> QED BY <3>1, <3>2, LastIsNat DEF Reckons
    <2>4. \A t \in Nat : <<e, t>> \in R => dist[e] <= t
      BY <1>1 DEF Behind
    <2>5. dist[e] \in Distance(g, s)[e]
      <3> HIDE DEF R
      <3> QED BY <1>2, <1>4, <1>5, <2>1, <2>3, <2>4, ReckonedIsDistance
    <2> QED BY <1>3, <1>6, <2>1, <2>2, <2>5, SamePromise DEF P!IsAnswer, Searched
  <1>7. CASE ~result'.found
    <2>1. e \notin DOMAIN dist
      BY <1>1, <1>3, <1>7 DEF SearchInv, Answered
    <2>2. \A t \in Nat : <<e, t>> \notin R
      BY <1>1, <1>7, <2>1 DEF Behind
    <2>3. \A t \in Distance(g, s)[e] : t \in Nat /\ <<e, t>> \in R
      <3>1. Last \in 0..Last
        BY LastIsNat
      <3> HIDE DEF R
      <3> QED BY <1>2, <1>4, <1>5, <3>1, RoundsWithin DEF Distance, Last
    <2>4. Distance(g, s)[e] = {}
      BY <2>2, <2>3
    <2> QED BY <1>3, <1>7, <2>4, SamePromise DEF P!IsAnswer, Searched
  <1> QED BY <1>6, <1>7

LEMMA StepAnswers ==
    ASSUME SearchInv, SearchInv', Reckoned, [Next]_vars
    PROVE  [P!Answer]_(P!vars)
  <1>1. CASE AnswerTrivial
    <2>1. /\ pc = "call" /\ pc' = "done" /\ call' = call /\ call.start = call.end
          /\ result' = TrivialRoute(call.start)
      BY <1>1 DEF AnswerTrivial, Return
    <2>2. P!IsAnswer(call, result')
      BY <2>1, SamePromise DEF P!IsAnswer
    <2> QED BY <2>1, <2>2 DEF P!Answer
  <1>2. CASE AnswerUnknown
    <2>1. /\ pc = "call" /\ pc' = "done" /\ call' = call /\ call.start # call.end
          /\ ~HasStation(call.graph, call.start) \/ ~HasStation(call.graph, call.end)
          /\ ~result'.found
      BY <1>2 DEF AnswerUnknown, Return, NoRoute
    <2>2. P!IsAnswer(call, result')
      BY <2>1, SamePromise DEF P!IsAnswer
    <2> QED BY <2>1, <2>2 DEF P!Answer
  <1>3. CASE Exhausted \/ ReturnRoute
    <2>1. pc # "done" /\ pc' = "done" /\ call' = call
      BY <1>3 DEF Exhausted, ReturnRoute, Return
    <2>2. P!IsAnswer(call, result')
      BY <1>3, ReturnsDistance
    <2> QED BY <2>1, <2>2 DEF P!Answer
  <1>4. CASE PushSource \/ SkipStale \/ Settle \/ RelaxEdge \/ NextPop \/ TraceBack
    <2>1. pc # "done" /\ pc' # "done" /\ call' = call /\ result' = result
      BY <1>4 DEF PushSource, SkipStale, Settle, StartTracing, StartRelaxing, RelaxEdge, NextPop, TraceBack
    <2> QED BY <2>1 DEF P!vars
  <1>5. CASE UNCHANGED vars
    BY <1>5 DEF vars, P!vars
  <1> QED BY <1>1, <1>2, <1>3, <1>4, <1>5 DEF Next

\* The safety part of the refinement: every step of the search is a step of
\* the promise or none, and the answer is the distance and a ride that long,
\* or "not found" where Bellman and Ford find no way either.
THEOREM KeepsPromise == Spec => P!Init /\ [][P!Answer]_(P!vars)
  <1>1. Init => P!Init
    BY CallsAssumption, SamePromise DEF Init, Fresh, P!Init
  <1>2. SearchInv /\ Reckoned /\ [Next]_vars => SearchInv' /\ Reckoned' /\ [P!Answer]_(P!vars)
    BY StepSearch, StepReckoned, StepAnswers
  <1> QED BY <1>1, <1>2, InitSearch, InitReckoned, PTL DEF Spec
=============================================================================

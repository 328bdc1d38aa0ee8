----------------------------- MODULE RouteFacts -----------------------------
(***************************************************************************)
(* What the proofs about both searches say of maps, walks back, segments    *)
(* and the rounds of Bellman and Ford.                                      *)
(***************************************************************************)
EXTENDS RouteResult

\* A map from some of D to T, as the searches fill them.
IsMap(f, D, T) == DOMAIN f \subseteq D /\ f \in [DOMAIN f -> T]

\* rev is walk, read from its end.
IsReverse(rev, walk) ==
    /\ Len(rev) = Len(walk) /\ DOMAIN rev = 1..Len(walk)
    /\ \A i \in 1..Len(walk) : rev[i] = walk[Len(walk) + 1 - i]

\* A walk back from e along parent, as far as its last station.
WalksBack(walk, parent, e) ==
    /\ walk[1] = e
    /\ \A i \in 1..Len(walk) - 1 : walk[i] \in DOMAIN parent /\ walk[i + 1] = parent[walk[i]]

\* Every parent is one edge away, at exactly the difference of the costs.
TightParents(g, cost, parent) ==
    \A v \in DOMAIN parent :
       \E x \in OutEdges(g, parent[v]) : x.target = v /\ cost[v] = cost[parent[v]] + x.weight

\* The hops of a path both of whose ends are stations of the graph.
Hops(g, path) ==
    {i \in 1..Len(path) - 1 : HasStation(g, path[i]) /\ HasStation(g, path[i + 1])}

\* The place of a hop among them.
Place(hops, i) == Cardinality({j \in hops : j <= i})

\* Every such hop has its segment, at its own place, and there are no others.
SegmentsAreHops(g, cost, path) ==
    /\ Len(Segments(g, cost, path)) = Cardinality(Hops(g, path))
    /\ \A i \in Hops(g, path) :
          Segments(g, cost, path)[Place(Hops(g, path), i)]
             = Segment(g, cost, path[i], path[i + 1])

-----------------------------------------------------------------------------
(* Distances, as Bellman and Ford reckon them.                              *)

\* the round that ends them
Last == Cardinality(Id)

\* D holds the rounds from 0 to m.
IsRounds(D, g, s, m) ==
    D = [k \in 0..m |-> IF k = 0 THEN AtSource(s) ELSE Improved(g, D[k - 1])]

\* From round m on, v is reckoned to cost no more than c.
Reckons(g, s, v, c, m) == \A k \in 0..Last : k >= m => \E x \in Rounds(g, s)[k][v] : x <= c
=============================================================================

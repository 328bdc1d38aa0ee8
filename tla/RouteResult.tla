---------------------------- MODULE RouteResult ----------------------------
(***************************************************************************)
(* What a pathfinder answers (core/graph/RouteResult.hpp) and how both      *)
(* searches build it from the path they walked back and the cost map they   *)
(* filled (the tail of Dijkstra::compute, repeated in AStar::compute).      *)
(***************************************************************************)
EXTENDS TransitGraph, FiniteSets

\* the arguments of compute(graph, start, end)
IsCall(c) == IsGraph(c.graph) /\ c.start \in Id /\ c.end \in Id

NoRoute == [found |-> FALSE, total |-> 0, transfers |-> 0, stations |-> 0,
            rawPath |-> <<>>, segments |-> <<>>]

\* start = end is answered before the graph is looked at
TrivialRoute(s) == [NoRoute EXCEPT !.found = TRUE, !.stations = 1,
                                   !.rawPath = << <<s, 0>> >>]

(* The type of a segment is the type of the FIRST edge towards the next     *)
(* station, whichever of several parallel edges the search used.            *)
EdgeType(g, from, to) ==
    LET hits == {i \in DOMAIN Neighbors(g, from) : Neighbors(g, from)[i].target = to}
    IN  IF hits = {} THEN "RIDE"
        ELSE Neighbors(g, from)[CHOOSE i \in hits : \A j \in hits : i <= j].type

SegmentCumulativeMutant(g, cost, from, to) ==
    [from |-> from, to |-> to, duration |-> cost[to],
     type |-> EdgeType(g, from, to), line |-> g.station[from].line]

Segment(g, cost, from, to) ==
    [from |-> from, to |-> to, duration |-> cost[to] - cost[from],
     type |-> EdgeType(g, from, to), line |-> g.station[from].line]

\* A hop with an end the graph has no station for is left out: the k-th
\* segment is the k-th of the hops with both.
Segments(g, cost, path) ==
    LET hops   == {i \in 1..Len(path) - 1 : HasStation(g, path[i]) /\ HasStation(g, path[i + 1])}
        Nth(k) == CHOOSE i \in hops : Cardinality({j \in hops : j <= i}) = k
    IN  [k \in 1..Cardinality(hops) |-> Segment(g, cost, path[Nth(k)], path[Nth(k) + 1])]

(* A transfer is counted when a segment leaves from another line than the   *)
(* segment before; an empty line id never counts as a line to change from.  *)
Transfers(segs) ==
    Cardinality({i \in 2..Len(segs) : /\ segs[i - 1].line # NoLine
                                      /\ segs[i - 1].line # segs[i].line})

RawPath(cost, path) == [i \in 1..Len(path) |-> <<path[i], cost[path[i]]>>]

Route(g, cost, path, total) ==
    LET segs == Segments(g, cost, path)
    IN  [found |-> TRUE, total |-> total, transfers |-> Transfers(segs),
         stations |-> Len(path), rawPath |-> RawPath(cost, path), segments |-> segs]

-----------------------------------------------------------------------------
(* What it means for an answer to be right, for the searches to be checked  *)
(* against.                                                                 *)

\* The route is a ride of the network: it starts at s at time 0, every step
\* follows an edge and takes exactly its weight, and it ends at e at its total.
IsRide(g, r, s, e) ==
    LET p == r.rawPath
    IN  /\ Len(p) > 0
        /\ p[1] = <<s, 0>>
        /\ p[Len(p)] = <<e, r.total>>
        /\ \A i \in 1..Len(p) - 1 :
              \E x \in OutEdges(g, p[i][1]) :
                 /\ x.target = p[i + 1][1]
                 /\ p[i + 1][2] = p[i][2] + x.weight

(* The cost of a shortest ride, by Bellman and Ford: in round k the best of *)
(* the rides of at most k hops.  A cost is a set, empty for "unreachable".  *)

ASSUME FiniteIds == IsFiniteSet(Id) \* ids are uint64_t

Least(S) == {x \in S : \A y \in S : x <= y}

Arrivals(g, d, v) ==
    UNION {{c + e.weight : c \in d[u], e \in {x \in OutEdges(g, u) : x.target = v}}
              : u \in Id}

AtSource(s) == [v \in Id |-> IF v = s THEN {0} ELSE {}]

Improved(g, d) == [v \in Id |-> Least(d[v] \cup Arrivals(g, d, v))]

Rounds(g, s) ==
    LET D[k \in 0..Cardinality(Id)] == IF k = 0 THEN AtSource(s) ELSE Improved(g, D[k - 1])
    IN  D

Distance(g, s) == Rounds(g, s)[Cardinality(Id)]
=============================================================================

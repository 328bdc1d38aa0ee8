----------------------------- MODULE AStarProofs -----------------------------
(***************************************************************************)
(* Proofs about AStar and GuidedRide, for every graph, every set of calls,  *)
(* every estimate of travel time and every bound on the rider.              *)
(***************************************************************************)
EXTENDS GuidedRide, RouteFacts, FiniteSetTheorems, TLAPS

-----------------------------------------------------------------------------
(* What holds of any graph and any search is proved beside Dijkstra.        *)
DP == INSTANCE DijkstraProofs WITH pq <- open, dist <- gScore, visited <- closed

LEMMA SameNetworks ==
    /\ \A g : DP!IsGraph(g) <=> IsGraph(g)
    /\ DP!IsFiniteSet(Id) /\ \A c \in Calls : DP!IsCall(c)
    /\ \A g, id : DP!Neighbors(g, id) = Neighbors(g, id) /\ DP!OutEdges(g, id) = OutEdges(g, id)
    /\ \A g, s : DP!Rounds(g, s) = Rounds(g, s) /\ DP!Distance(g, s) = Distance(g, s)
    /\ DP!Last = Last /\ DP!WeightedEdge = WeightedEdge
    /\ \A g, s, v, c, m : DP!Reckons(g, s, v, c, m) <=> Reckons(g, s, v, c, m)
  <1>1. \A g : DP!IsGraph(g) <=> IsGraph(g)
    BY DEF DP!IsGraph, IsGraph, DP!Station, Station, DP!WeightedEdge, WeightedEdge,
           DP!ConnectionType, ConnectionType
  <1>2. \A g, id : DP!Neighbors(g, id) = Neighbors(g, id) /\ DP!OutEdges(g, id) = OutEdges(g, id)
    BY DEF DP!Neighbors, Neighbors, DP!OutEdges, OutEdges
  <1>3. ASSUME NEW g, NEW s PROVE DP!Rounds(g, s) = Rounds(g, s)
    BY DEF DP!Rounds, Rounds, DP!AtSource, AtSource, DP!Improved, Improved, DP!Least, Least,
           DP!Arrivals, Arrivals, DP!OutEdges, OutEdges, DP!Neighbors, Neighbors,
           DP!Cardinality, Cardinality
  <1>4. DP!Last = Last
    BY DEF DP!Last, Last, DP!Cardinality, Cardinality
  <1>5. \A g, s : DP!Distance(g, s) = Distance(g, s)
    BY <1>3 DEF DP!Distance, Distance, DP!Cardinality, Cardinality
  <1>6. DP!WeightedEdge = WeightedEdge
    BY DEF DP!WeightedEdge, WeightedEdge, DP!ConnectionType, ConnectionType
  <1>7. \A g, s, v, c, m : DP!Reckons(g, s, v, c, m) <=> Reckons(g, s, v, c, m)
    BY <1>3, <1>4 DEF DP!Reckons, Reckons
  <1>8. \A c \in Calls : DP!IsCall(c)
    BY <1>1, CallsAssumption DEF DP!IsCall, IsCall
  <1>9. DP!IsFiniteSet(Id)
    BY FiniteIds DEF DP!IsFiniteSet, IsFiniteSet
  <1> QED BY <1>1, <1>2, <1>3, <1>4, <1>5, <1>6, <1>7, <1>8, <1>9

LEMMA PutType ==
    ASSUME NEW D0, NEW T, NEW f, IsMap(f, D0, T), NEW k \in D0, NEW v \in T
    PROVE  IsMap(Put(f, k, v), D0, T)
  BY DEF Put, IsMap

\* The neighbours of any station are a sequence of edges.
LEMMA NeighborsType ==
    ASSUME NEW g, IsGraph(g), NEW id
    PROVE  /\ Neighbors(g, id) \in Seq(WeightedEdge)
           /\ DOMAIN Neighbors(g, id) = 1..Len(Neighbors(g, id))
           /\ Len(Neighbors(g, id)) \in Nat
           /\ \A i \in 1..Len(Neighbors(g, id)) :
                 /\ Neighbors(g, id)[i].target \in Id
                 /\ Neighbors(g, id)[i].weight \in Nat
                 /\ Neighbors(g, id)[i] \in OutEdges(g, id)
  BY SameNetworks, DP!NeighborsType, IdAssumption, FiniteIds, CallsAssumption

(* Read from its end, a walk back over tight parents is a ride.             *)
LEMMA WalkIsRide ==
    ASSUME NEW g, NEW cost, NEW up, NEW s, NEW e,
           NEW walk \in Seq(Id), walk # <<>>, NEW rev, IsReverse(rev, walk),
           TightParents(g, cost, up), WalksBack(walk, up, e),
           walk[Len(walk)] = s, cost[s] = 0
    PROVE  IsRide(g, Route(g, cost, rev, cost[e]), s, e)
  <1>1. DP!IsReverse(rev, walk) /\ DP!WalksBack(walk, up, e)
    BY DEF DP!IsReverse, IsReverse, DP!WalksBack, WalksBack
  <1>2. DP!TightParents(g, cost, up)
    BY SameNetworks DEF DP!TightParents, TightParents
  <1>3. DP!Route(g, cost, rev, cost[e]).total = Route(g, cost, rev, cost[e]).total
        /\ DP!Route(g, cost, rev, cost[e]).rawPath = Route(g, cost, rev, cost[e]).rawPath
    BY DEF DP!Route, Route, DP!RawPath, RawPath
  <1>4. DP!IsRide(g, DP!Route(g, cost, rev, cost[e]), s, e)
    BY <1>1, <1>2, DP!WalkIsRide, SameNetworks, IdAssumption, FiniteIds, CallsAssumption
  <1> QED BY <1>3, <1>4, SameNetworks DEF DP!IsRide, IsRide

LEMMA LastIsNat == Last \in Nat
  BY FiniteIds, FS_CardinalityType DEF Last

\* Whatever holds of the source and is kept by an edge holds of every round.
LEMMA RoundsWithin ==
    ASSUME NEW g, IsGraph(g), NEW s \in Id, NEW R,
           <<s, 0>> \in R,
           \A u \in Id, c \in Nat : \A e \in OutEdges(g, u) :
              <<u, c>> \in R => <<e.target, c + e.weight>> \in R
    PROVE  \A k \in 0..Last, v \in Id : \A c \in Rounds(g, s)[k][v] : c \in Nat /\ <<v, c>> \in R
  BY SameNetworks, DP!RoundsWithin, IdAssumption, FiniteIds, CallsAssumption

LEMMA ReckonsSource ==
    ASSUME NEW g, IsGraph(g), NEW s \in Id, NEW m \in Nat
    PROVE  Reckons(g, s, s, 0, m)
  BY SameNetworks, DP!ReckonsSource, IdAssumption, FiniteIds, CallsAssumption

\* The target of an edge is reckoned one round after its source.
LEMMA ReckonsEdge ==
    ASSUME NEW g, IsGraph(g), NEW s \in Id, NEW u \in Id, NEW c \in Nat, NEW m \in Nat \ {0},
           Reckons(g, s, u, c, m - 1), NEW e \in OutEdges(g, u)
    PROVE  Reckons(g, s, e.target, c + e.weight, m)
  BY SameNetworks, DP!ReckonsEdge, IdAssumption, FiniteIds, CallsAssumption

\* A cost that is reckoned and that nothing undercuts is the distance.
LEMMA ReckonedIsDistance ==
    ASSUME NEW g, IsGraph(g), NEW s \in Id, NEW e \in Id, NEW c \in Nat, Reckons(g, s, e, c, Last),
           NEW R, <<s, 0>> \in R,
           \A u \in Id, b \in Nat : \A x \in OutEdges(g, u) :
              <<u, b>> \in R => <<x.target, b + x.weight>> \in R,
           \A b \in Nat : <<e, b>> \in R => c <= b
    PROVE  c \in Distance(g, s)[e]
  BY SameNetworks, DP!ReckonedIsDistance, IdAssumption, FiniteIds, CallsAssumption

-----------------------------------------------------------------------------
(* Estimates.                                                               *)

LEMMA HeuristicType ==
    ASSUME IsCall(call), Searched, NEW v
    PROVE  Heuristic(call, v) \in Nat
  <1> DEFINE to == call.graph.station[call.end]
  <1>1. to \in Station
    BY DEF IsCall, IsGraph, Searched, HasStation
  <1>2. HasStation(call.graph, v) => call.graph.station[v] \in Station
    BY DEF IsCall, IsGraph, HasStation
  <1>3. CASE ~HasCoordinates(to) \/ ~HasStation(call.graph, v)
    BY <1>3 DEF Heuristic
  <1>4. CASE ~(~HasCoordinates(to) \/ ~HasStation(call.graph, v))
    <2>1. to.pos \in Position
      BY <1>1, <1>4 DEF Station, HasCoordinates
    <2>2. HasCoordinates(call.graph.station[v]) => call.graph.station[v].pos \in Position
      BY <1>2, <1>4 DEF Station, HasCoordinates
    <2> QED BY <1>4, <2>1, <2>2, TravelTimeAssumption DEF Heuristic
  <1> QED BY <1>3, <1>4

\* At the destination nothing is left to ride.
LEMMA HeuristicAtEnd ==
    ASSUME IsCall(call), Searched
    PROVE  Heuristic(call, call.end) = 0
  <1>1. call.graph.station[call.end] \in Station
    BY DEF IsCall, IsGraph, Searched, HasStation
  <1>2. HasCoordinates(call.graph.station[call.end]) => call.graph.station[call.end].pos \in Position
    BY <1>1 DEF Station, HasCoordinates
  <1> QED BY <1>2, SamePlaceAssumption DEF Heuristic

LEMMA ConsistentEdge ==
    ASSUME Consistent(call), NEW u \in Id, NEW e \in OutEdges(call.graph, u)
    PROVE  Heuristic(call, u) <= e.weight + Heuristic(call, e.target)
  BY DEF Consistent

-----------------------------------------------------------------------------
(* Type correctness.                                                        *)

LEMMA InitType == Init => TypeOK
  BY CallsAssumption DEF Init, TypeOK, IsCall, Entry

LEMMA StepType == TypeOK /\ HasParent /\ Sourced /\ HeapCovers /\ [Next]_vars => TypeOK'
  <1> SUFFICES ASSUME TypeOK, HasParent, Sourced, HeapCovers, [Next]_vars PROVE TypeOK'
    OBVIOUS
  <1> USE DEF TypeOK
  <1>a. IsMap(gScore, Id, Nat) /\ IsMap(parent, Id, Id)
    BY DEF IsMap
  <1>1. CASE AnswerTrivial BY <1>1 DEF AnswerTrivial, Return
  <1>2. CASE AnswerUnknown BY <1>2 DEF AnswerUnknown, Return
  <1>3. CASE PushSource
    <2>1. call.start \in Id /\ 0 \in Nat /\ Searched
      BY <1>3 DEF IsCall, PushSource, Searched
    <2>2. IsMap(gScore', Id, Nat)
      BY <1>3, <1>a, <2>1, PutType DEF PushSource
    <2>3. open' \subseteq Entry
      BY <1>3, <2>1, HeuristicType DEF PushSource, Entry
    <2> QED BY <1>3, <2>2, <2>3 DEF PushSource, IsMap
  <1>4. CASE SkipStale BY <1>4 DEF SkipStale
  <1>5. CASE Close
    <2>1. PICK top \in open :
             /\ open' = open \ {top} /\ closed' = closed \cup {top.id}
             /\ curr' = [cost |-> gScore[top.id], id |-> top.id]
             /\ IF top.id = call.end THEN StartTracing ELSE StartExpanding
             /\ UNCHANGED <<call, gScore, parent, result>>
      BY <1>5 DEF Close
    <2>2. top.id \in Id /\ call.end \in Id /\ top.id \in DOMAIN gScore
      BY <2>1 DEF Entry, IsCall, HeapCovers
    <2>3. Len(Neighbors(call.graph, top.id)) \in Nat
      BY NeighborsType, <2>2 DEF IsCall
    <2>6. curr' \in Entry /\ curr'.id = top.id
      BY <2>1, <2>2 DEF Entry
    <2>4. CASE top.id = call.end
      <3>1. <<call.end>> \in Seq(Id) /\ Len(<<call.end>>) = 1 /\ Len(<< >>) = 0
        BY <2>2
      <3>2. path' = <<call.end>> /\ pc' = "trace" /\ edge' = edge
        BY <2>1, <2>4 DEF StartTracing
      <3>3. path' \in Seq(Id)
        BY <3>1, <3>2
      <3>4. path' # <<>>
        BY <3>1, <3>2
      <3>5. closed' \subseteq Id /\ open' \subseteq Entry
        BY <2>1, <2>2
      <3> QED BY <2>1, <2>6, <3>2, <3>3, <3>4, <3>5
    <2>5. CASE top.id # call.end
      <3>1. pc' = "relax" /\ edge' = 1 /\ path' = path
        BY <2>1, <2>5 DEF StartExpanding
      <3>2. Edges' = Neighbors(call.graph, top.id)
        BY <2>1, <2>6 DEF Edges
      <3>3. closed' \subseteq Id /\ open' \subseteq Entry
        BY <2>1, <2>2
      <3> QED BY <2>1, <2>3, <2>6, <3>1, <3>2, <3>3
    <2> QED BY <2>4, <2>5
  <1>6. CASE Exhausted BY <1>6 DEF Exhausted, Return
  <1>7. CASE ExpandEdge
    <2> DEFINE e == Edges[edge]
               g == curr.cost + e.weight
    <2>1. curr.id \in Id /\ curr.cost \in Nat
      BY DEF Entry
    <2>2. edge \in 1..Len(Edges) /\ e.target \in Id /\ e.weight \in Nat /\ Len(Edges) \in Nat
      BY <1>7, <2>1, NeighborsType DEF ExpandEdge, Edges, IsCall
    <2>3. g \in Nat
      BY <2>1, <2>2
    <2>4. IsMap(Put(gScore, e.target, g), Id, Nat)
      BY <1>a, <2>2, <2>3, PutType
    <2>5. IsMap(Put(parent, e.target, curr.id), Id, Id)
      BY <1>a, <2>1, <2>2, PutType
    <2>6. [cost |-> FScore(e.target, g), id |-> e.target] \in Entry
      <3>1. Heuristic(call, e.target) \in Nat
        BY <1>7, HeuristicType DEF ExpandEdge, Sourced
      <3> QED BY <2>2, <2>3, <3>1 DEF Entry, FScore
    <2>7. IsMap(gScore', Id, Nat) /\ IsMap(parent', Id, Id) /\ open' \subseteq Entry
      BY <1>7, <1>a, <2>4, <2>5, <2>6 DEF ExpandEdge, Edges
    <2>8. edge' = edge + 1 /\ UNCHANGED <<call, pc, closed, curr, path, result>>
      BY <1>7 DEF ExpandEdge
    <2> QED BY <2>2, <2>7, <2>8 DEF IsMap, Edges
  <1>8. CASE NextPop BY <1>8 DEF NextPop
  <1>9. CASE TraceBack
    <2>1. parent[Current] \in Id
      BY <1>9 DEF TraceBack, HasParent
    <2>2. path' = Append(path, parent[Current])
      BY <1>9 DEF TraceBack
    <2>3. path' \in Seq(Id) /\ path' # <<>>
      BY <2>1, <2>2
    <2> QED BY <1>9, <2>3 DEF TraceBack
  <1>10. CASE ReturnRoute BY <1>10 DEF ReturnRoute, Return
  <1>11. CASE UNCHANGED vars BY <1>11 DEF vars, Edges
  <1> QED
    BY <1>1, <1>2, <1>3, <1>4, <1>5, <1>6, <1>7, <1>8, <1>9, <1>10, <1>11 DEF Next

-----------------------------------------------------------------------------
(* The search invariant holds at the start and every action keeps it.       *)

LEMMA InitGuided == Init => GuidedInv
  <1> SUFFICES ASSUME Init PROVE GuidedInv
    OBVIOUS
  <1>1. TypeOK
    BY InitType
  <1>2. DOMAIN gScore = {} /\ DOMAIN parent = {} /\ closed = {} /\ open = {} /\ pc = "call"
    BY DEF Init
  <1>3. HasParent /\ ClosedInOrder /\ HeapCovers /\ ParentEdge
    BY <1>2 DEF HasParent, ClosedInOrder, HeapCovers, ParentEdge, Frontier, Running
  <1>4. Expanded
    BY <1>2 DEF Expanded, Running
  <1>5. Untouched /\ Sourced /\ Tracing /\ Answered /\ AnswerIsRide
    BY <1>2 DEF Init, Untouched, Sourced, Tracing, Answered, AnswerIsRide
  <1> QED BY <1>1, <1>3, <1>4, <1>5 DEF GuidedInv

\* What the f scores and estimates of a call depend on.
LEMMA SameScores ==
    ASSUME UNCHANGED <<call, gScore>>
    PROVE  /\ Consistent(call)' <=> Consistent(call)
           /\ \A v : F(v)' = F(v)
  BY DEF F, FScore, Consistent, Heuristic

\* Answering without a search: what it says of a search does not apply.
LEMMA StepAnswer ==
    ASSUME GuidedInv, TypeOK', AnswerTrivial \/ AnswerUnknown
    PROVE  GuidedInv'
  <1>1. /\ UNCHANGED <<call, open, gScore, parent, closed, curr, edge, path>>
        /\ pc = "call" /\ pc' = "done" /\ ~Searched /\ ~Searched'
    BY DEF AnswerTrivial, AnswerUnknown, Return, Searched
  <1>2. open' = {} /\ DOMAIN gScore' = {} /\ DOMAIN parent' = {} /\ closed' = {}
    BY <1>1 DEF GuidedInv, Untouched
  <1>3. HasParent' /\ ClosedInOrder' /\ HeapCovers' /\ ParentEdge'
    BY <1>1, <1>2 DEF HasParent, ClosedInOrder, HeapCovers, ParentEdge, Frontier, Running
  <1>4. Expanded'
    BY <1>1, <1>2 DEF Expanded, Running
  <1>5. Untouched' /\ Sourced' /\ Tracing' /\ Answered' /\ AnswerIsRide'
    BY <1>1 DEF Untouched, Sourced, Tracing, Answered, AnswerIsRide
  <1> QED BY <1>3, <1>4, <1>5 DEF GuidedInv

LEMMA StepPushSource ==
    ASSUME GuidedInv, TypeOK', PushSource
    PROVE  GuidedInv'
  <1>1. /\ UNCHANGED <<call, parent, closed, curr, edge, path, result>>
        /\ pc = "call" /\ pc' = "loop" /\ closed' = {} /\ DOMAIN parent' = {}
        /\ open' = {[cost |-> Heuristic(call, call.start), id |-> call.start]}
        /\ Searched /\ Searched' /\ gScore' = Put(gScore, call.start, 0)
    BY DEF PushSource, GuidedInv, Untouched, Searched
  <1>2. DOMAIN gScore' = {call.start} /\ gScore'[call.start] = 0
    <2>1. DOMAIN gScore = {}
      BY <1>1 DEF GuidedInv, Untouched
    <2> QED BY <1>1, <2>1 DEF Put
  <1>3. HasParent' /\ ClosedInOrder' /\ ParentEdge'
    BY <1>1, <1>2 DEF HasParent, ClosedInOrder, ParentEdge, Frontier
  <1>4. HeapCovers'
    <2>1. Heuristic(call, call.start) \in Nat
      BY <1>1, HeuristicType DEF GuidedInv, TypeOK
    <2>2. F(call.start)' = Heuristic(call, call.start)
      BY <1>1, <1>2, <2>1 DEF F, FScore, Heuristic
    <2>3. Frontier' = {call.start} /\ call'.start = call.start
      BY <1>1, <1>2 DEF Frontier
    <2>4. ASSUME NEW e \in open' PROVE e.id \in DOMAIN gScore' /\ F(e.id)' <= e.cost
      BY <1>1, <1>2, <2>1, <2>2, <2>4
    <2>5. ASSUME NEW v \in Frontier' PROVE [cost |-> F(v)', id |-> v] \in open'
      BY <1>1, <2>2, <2>3, <2>5
    <2> QED BY <2>4, <2>5 DEF HeapCovers
  <1>5. Expanded'
    BY <1>1 DEF Expanded
  <1>6. Untouched' /\ Sourced' /\ Tracing' /\ Answered' /\ AnswerIsRide'
    BY <1>1, <1>2 DEF Untouched, Sourced, Tracing, Answered, AnswerIsRide
  <1> QED BY <1>3, <1>4, <1>5, <1>6 DEF GuidedInv

LEMMA StepSkipStale ==
    ASSUME GuidedInv, TypeOK', SkipStale
    PROVE  GuidedInv'
  <1>1. PICK top \in open : top.id \in closed /\ open' = open \ {top}
    BY DEF SkipStale
  <1>2. pc = "loop" /\ UNCHANGED <<call, pc, gScore, parent, closed, curr, edge, path, result>>
    BY DEF SkipStale
  <1>s. (Consistent(call)' <=> Consistent(call)) /\ \A v : F(v)' = F(v)
    BY <1>2, SameScores
  <1>3. HeapCovers'
    BY <1>1, <1>2, <1>s DEF GuidedInv, HeapCovers, Running, Frontier
  <1>4. HasParent' /\ ClosedInOrder' /\ ParentEdge'
    BY <1>2, <1>s DEF GuidedInv, HasParent, ClosedInOrder, ParentEdge, Frontier, Current
  <1>5. Expanded'
    BY <1>2, <1>s DEF GuidedInv, Expanded, Running, Looked
  <1>6. Untouched' /\ Sourced' /\ Tracing' /\ Answered' /\ AnswerIsRide'
    BY <1>2 DEF GuidedInv, Untouched, Sourced, Tracing, Answered, AnswerIsRide, Searched
  <1> QED BY <1>3, <1>4, <1>5, <1>6 DEF GuidedInv

LEMMA StepExhausted ==
    ASSUME GuidedInv, TypeOK', Exhausted
    PROVE  GuidedInv'
  <1>1. /\ UNCHANGED <<call, open, gScore, parent, closed, curr, edge, path>>
        /\ pc = "loop" /\ open = {} /\ pc' = "done" /\ result' = NoRoute
    BY DEF Exhausted, Return
  <1>s. (Consistent(call)' <=> Consistent(call)) /\ \A v : F(v)' = F(v)
    BY <1>1, SameScores
  <1>2. Frontier = {} /\ call.end \notin closed /\ Sourced
    BY <1>1 DEF GuidedInv, HeapCovers, Running, Expanded
  <1>3. Answered' /\ AnswerIsRide'
    <2>1. ~result'.found
      BY <1>1 DEF NoRoute
    <2>2. call.end \notin DOMAIN gScore /\ Frontier' = {}
      BY <1>1, <1>2 DEF Frontier
    <2>3. call.start \in DOMAIN gScore /\ gScore[call.start] = 0
      BY <1>1, <1>2 DEF Sourced
    <2> QED BY <1>1, <2>1, <2>2, <2>3 DEF Answered, AnswerIsRide
  <1>4. HasParent' /\ ClosedInOrder' /\ ParentEdge' /\ HeapCovers'
    BY <1>1, <1>s DEF GuidedInv, HasParent, ClosedInOrder, ParentEdge, HeapCovers, Frontier, Running
  <1>5. Expanded'
    BY <1>1, <1>s DEF GuidedInv, Expanded, Running, Looked
  <1>6. Untouched' /\ Sourced' /\ Tracing'
    BY <1>1 DEF Untouched, Sourced, Tracing
  <1> QED BY <1>3, <1>4, <1>5, <1>6 DEF GuidedInv

\* The entry popped is the f score of its station, the least still open.
LEMMA TopIsLeast ==
    ASSUME GuidedInv, pc = "loop", NEW top \in open, IsTop(top), top.id \notin closed
    PROVE  /\ top.id \in Frontier /\ gScore[top.id] \in Nat /\ F(top.id) = top.cost
           /\ \A v \in Frontier : F(v) \in Nat /\ F(top.id) <= F(v)
  <1>1. TypeOK /\ top.cost \in Nat /\ top.id \in Id /\ Searched
    BY DEF GuidedInv, TypeOK, Entry, Sourced
  <1>2. top.id \in Frontier /\ F(top.id) <= top.cost
    BY DEF GuidedInv, HeapCovers, Frontier
  <1>3. \A v \in Frontier : F(v) \in Nat /\ gScore[v] \in Nat
    <2>1. \A v \in Frontier : gScore[v] \in Nat
      BY <1>1 DEF TypeOK, Frontier
    <2>2. \A v \in Frontier : Heuristic(call, v) \in Nat
      BY <1>1, HeuristicType DEF TypeOK
    <2> QED BY <2>1, <2>2 DEF F, FScore
  <1>4. ASSUME NEW v \in Frontier PROVE top.cost <= F(v)
    <2>1. [cost |-> F(v), id |-> v] \in open
      BY <1>4 DEF GuidedInv, HeapCovers, Running
    <2> QED BY <1>1, <1>3, <2>1 DEF IsTop
  <1> QED BY <1>1, <1>2, <1>3, <1>4

LEMMA StepClose ==
    ASSUME GuidedInv, TypeOK', Close
    PROVE  GuidedInv'
  <1>1. PICK top \in open :
           /\ IsTop(top) /\ top.id \notin closed
           /\ open' = open \ {top} /\ closed' = closed \cup {top.id}
           /\ curr' = [cost |-> gScore[top.id], id |-> top.id]
           /\ IF top.id = call.end THEN StartTracing ELSE StartExpanding
    BY DEF Close
  <1>2. pc = "loop" /\ UNCHANGED <<call, gScore, parent, result>>
    BY DEF Close
  <1>s. (Consistent(call)' <=> Consistent(call)) /\ \A v : F(v)' = F(v)
    BY <1>2, SameScores
  <1>3. pc' \in {"relax", "trace"} /\ (pc' = "trace" <=> top.id = call.end)
    BY <1>1 DEF StartTracing, StartExpanding
  <1>4. /\ top.id \in Frontier /\ gScore[top.id] \in Nat /\ F(top.id) = top.cost
        /\ \A v \in Frontier : F(v) \in Nat /\ F(top.id) <= F(v)
    BY <1>1, <1>2, TopIsLeast
  <1>5. curr'.id = top.id /\ curr'.cost = gScore[top.id] /\ top.id \in DOMAIN gScore
    BY <1>1, <1>4 DEF Frontier
  <1>6. Frontier' = Frontier \ {top.id}
    BY <1>1, <1>2 DEF Frontier
  <1>7. ClosedInOrder'
    BY <1>1, <1>s, <1>4, <1>6 DEF GuidedInv, ClosedInOrder
  <1>8. HeapCovers'
    BY <1>1, <1>2, <1>s, <1>6 DEF GuidedInv, HeapCovers, Running
  <1>9. HasParent'
    <2>1. ASSUME pc' = "trace" PROVE Current' = call.end /\ call.end \in closed'
      <3>1. path' = <<call.end>> /\ call.end \in closed'
        BY <1>1, <1>3, <2>1 DEF StartTracing
      <3>2. Len(path') = 1 /\ path'[1] = call.end
        BY <3>1
      <3> QED BY <3>1, <3>2 DEF Current
    <2>2. HasParent /\ closed \subseteq closed'
      BY <1>1 DEF GuidedInv
    <2>3. pc' = "trace" => call.end \in DOMAIN parent \cup {call.start}
      BY <1>3, <1>5, <2>2 DEF HasParent
    <2> QED BY <1>2, <2>1, <2>2, <2>3 DEF HasParent
  <1>10. Expanded'
    <2>1. closed' \subseteq DOMAIN gScore'
      BY <1>1, <1>2, <1>5 DEF GuidedInv, Expanded
    <2>2. ASSUME NEW u \in closed' \ {call.end}, pc' = "relax" => u # top.id
          PROVE  \A i \in DOMAIN Neighbors(call.graph, u) :
                    Looked(u, Neighbors(call.graph, u)[i])'
      <3>1. u \in closed \ {call.end}
        BY <1>1, <1>3, <2>2
      <3> QED BY <1>2, <1>s, <3>1 DEF GuidedInv, Expanded, Looked
    <2>3. pc' = "relax" =>
             /\ top.id \in closed' /\ curr'.cost = gScore'[top.id] /\ edge' = 1
             /\ Consistent(call) => \A u \in closed' : F(u) <= F(top.id)
      BY <1>1, <1>2, <1>3, <1>4, <1>5 DEF GuidedInv, ClosedInOrder, StartExpanding
    <2>4. Running' => call.end \notin closed'
      BY <1>1, <1>2, <1>3 DEF GuidedInv, Expanded, Running
    <2> QED BY <1>1, <1>2, <1>s, <1>5, <2>1, <2>2, <2>3, <2>4 DEF Expanded
  <1>11. ParentEdge' /\ Untouched' /\ Sourced'
    BY <1>2, <1>3 DEF GuidedInv, ParentEdge, Untouched, Sourced, Searched
  <1>12. Tracing' /\ Answered' /\ AnswerIsRide'
    <2>1. pc' = "trace" => path' = <<call.end>> /\ Len(<<call.end>>) = 1
      BY <1>1, <1>3 DEF StartTracing
    <2>2. pc' = "trace" => Arrived'
      BY <1>1, <1>2, <1>3, <1>5 DEF Arrived
    <2> QED BY <1>2, <1>3, <2>1, <2>2 DEF Tracing, Answered, AnswerIsRide
  <1> QED BY <1>7, <1>8, <1>9, <1>10, <1>11, <1>12 DEF GuidedInv

LEMMA StepNextPop ==
    ASSUME GuidedInv, TypeOK', NextPop
    PROVE  GuidedInv'
  <1>1. /\ pc = "relax" /\ pc' = "loop" /\ edge > Len(Edges)
        /\ UNCHANGED <<call, open, gScore, parent, closed, curr, edge, path, result>>
    BY DEF NextPop, Edges
  <1>s. (Consistent(call)' <=> Consistent(call)) /\ \A v : F(v)' = F(v)
    BY <1>1, SameScores
  <1>2. DOMAIN Edges = 1..Len(Edges) /\ Len(Edges) \in Nat /\ edge \in Nat
    BY NeighborsType DEF GuidedInv, TypeOK, IsCall, Edges
  <1>3. Expanded'
    <2>1. \A i \in DOMAIN Edges : Looked(curr.id, Edges[i])
      BY <1>1, <1>2 DEF GuidedInv, Expanded
    <2> QED BY <1>1, <1>s, <2>1 DEF GuidedInv, Expanded, Looked, Edges, Running
  <1>4. HasParent' /\ ClosedInOrder' /\ ParentEdge' /\ HeapCovers'
    BY <1>1, <1>s DEF GuidedInv, HasParent, ClosedInOrder, ParentEdge, HeapCovers, Frontier, Running
  <1>5. Untouched' /\ Sourced' /\ Tracing' /\ Answered' /\ AnswerIsRide'
    BY <1>1 DEF GuidedInv, Untouched, Sourced, Tracing, Answered, AnswerIsRide, Searched
  <1> QED BY <1>3, <1>4, <1>5 DEF GuidedInv

\* What looking at an edge may promise, when it improves nothing.
LEMMA LookedWithoutImproving ==
    ASSUME GuidedInv, pc = "relax", NEW e \in OutEdges(call.graph, curr.id),
           e.target \in Id, e.weight \in Nat,
           e.target \in closed \/ ~Improves(e.target, curr.cost + e.weight)
    PROVE  Looked(curr.id, e)
  <1>1. TypeOK /\ Searched /\ curr.id \in Id /\ curr.cost \in Nat
    BY DEF GuidedInv, TypeOK, Entry, Sourced
  <1>2. /\ curr.id \in closed /\ curr.cost = gScore[curr.id] /\ closed \subseteq DOMAIN gScore
        /\ Consistent(call) => \A u \in closed : F(u) <= F(curr.id)
    BY DEF GuidedInv, Expanded
  <1>3. \A v \in DOMAIN gScore : gScore[v] \in Nat
    BY <1>1 DEF TypeOK
  <1>4. CASE ~Improves(e.target, curr.cost + e.weight)
    BY <1>1, <1>2, <1>3, <1>4 DEF Improves, Looked
  <1>5. CASE e.target \in closed
    <2>1. ASSUME Consistent(call) PROVE gScore[e.target] <= gScore[curr.id] + e.weight
      <3>1. Heuristic(call, curr.id) <= e.weight + Heuristic(call, e.target)
        BY <1>1, <2>1, ConsistentEdge
      <3>2. /\ gScore[e.target] + Heuristic(call, e.target)
                 <= gScore[curr.id] + Heuristic(call, curr.id)
        BY <1>2, <1>5, <2>1 DEF F, FScore
      <3>3. /\ Heuristic(call, e.target) \in Nat /\ Heuristic(call, curr.id) \in Nat
            /\ gScore[e.target] \in Nat /\ gScore[curr.id] \in Nat
        BY <1>1, <1>2, <1>3, <1>5, HeuristicType DEF TypeOK
      <3> QED BY <3>1, <3>2, <3>3
    <2> QED BY <1>2, <1>5, <2>1 DEF Looked
  <1> QED BY <1>4, <1>5

LEMMA StepExpandEdge ==
    ASSUME GuidedInv, TypeOK', ExpandEdge
    PROVE  GuidedInv'
  <1> DEFINE e == Edges[edge]
             g == curr.cost + e.weight
             h(v) == Heuristic(call, v)
  <1>1. pc = "relax" /\ edge' = edge + 1 /\ edge <= Len(Edges)
        /\ UNCHANGED <<call, pc, closed, curr, path, result>>
    BY DEF ExpandEdge, Edges
  <1>2. TypeOK /\ curr.cost \in Nat /\ edge \in 1..Len(Edges) /\ edge \in Nat /\ curr.id \in Id
    BY <1>1, NeighborsType DEF GuidedInv, TypeOK, Entry, IsCall, Edges
  <1>3. e.target \in Id /\ e.weight \in Nat /\ e \in OutEdges(call.graph, curr.id)
    BY <1>2, NeighborsType DEF TypeOK, IsCall, Edges
  <1>4. g \in Nat /\ curr.cost <= g
    BY <1>2, <1>3
  <1>5. /\ curr.id \in closed /\ curr.cost = gScore[curr.id] /\ closed \subseteq DOMAIN gScore
        /\ Consistent(call) => \A u \in closed : F(u) <= F(curr.id)
    BY <1>1 DEF GuidedInv, Expanded
  <1>6. /\ Searched /\ call.start \in DOMAIN gScore /\ gScore[call.start] = 0
    BY <1>1 DEF GuidedInv, Sourced
  <1>7. \A v \in DOMAIN gScore : gScore[v] \in Nat
    BY <1>2 DEF TypeOK
  <1>h. \A v : h(v) \in Nat
    BY <1>2, <1>6, HeuristicType DEF TypeOK
  <1>f. /\ \A v : F(v) = gScore[v] + h(v) /\ F(v)' = gScore'[v] + h(v)
        /\ Consistent(call)' <=> Consistent(call)
    BY <1>1 DEF F, FScore, Heuristic, Consistent
  <1>8. CASE e.target \notin closed /\ Improves(e.target, g)
    <2>1. /\ gScore' = Put(gScore, e.target, g)
          /\ parent' = Put(parent, e.target, curr.id)
          /\ open' = open \cup {[cost |-> g + h(e.target), id |-> e.target]}
      BY <1>8 DEF ExpandEdge, Edges, FScore
    <2>2. /\ DOMAIN gScore' = DOMAIN gScore \cup {e.target} /\ gScore'[e.target] = g
          /\ \A v \in DOMAIN gScore : v # e.target => gScore'[v] = gScore[v]
      BY <2>1 DEF Put
    <2>3. /\ DOMAIN parent' = DOMAIN parent \cup {e.target} /\ parent'[e.target] = curr.id
          /\ \A v \in DOMAIN parent : v # e.target => parent'[v] = parent[v]
      BY <2>1 DEF Put
    <2>4. e.target # call.start
      BY <1>4, <1>6, <1>8 DEF Improves
    <2>5. \A v \in DOMAIN gScore : gScore'[v] <= gScore[v] /\ gScore'[v] \in Nat
      BY <1>4, <1>7, <1>8, <2>2 DEF Improves
    <2>6. \A u \in closed : gScore'[u] = gScore[u]
      BY <1>5, <1>8, <2>2
    <2> HIDE DEF h, g, e
    <2>7. HasParent'
      BY <1>1, <1>5, <2>2, <2>3, <2>4 DEF GuidedInv, HasParent
    <2>8. Frontier' = Frontier \cup {e.target}
      BY <1>1, <1>8, <2>2 DEF Frontier
    <2>9. ClosedInOrder'
      <3>1. ASSUME Consistent(call), NEW u \in closed, NEW v \in Frontier \cup {e.target}
            PROVE  gScore'[u] + h(u) <= gScore'[v] + h(v)
        <4>1. CASE v = e.target
          <5>1. gScore[u] + h(u) <= gScore[curr.id] + h(curr.id)
            BY <1>5, <1>f, <3>1
          <5>2. h(curr.id) <= e.weight + h(e.target)
            BY <1>2, <1>3, <3>1, ConsistentEdge DEF h
          <5>3. gScore'[v] = curr.cost + e.weight /\ gScore'[u] = gScore[u]
            BY <2>2, <2>6, <4>1 DEF g
          <5> QED BY <1>2, <1>3, <1>5, <1>7, <1>h, <4>1, <5>1, <5>2, <5>3
        <4>2. CASE v # e.target
          <5>1. gScore'[v] = gScore[v] /\ gScore[u] + h(u) <= gScore[v] + h(v)
            BY <1>f, <2>2, <3>1, <4>2 DEF GuidedInv, ClosedInOrder, Frontier
          <5> QED BY <2>6, <5>1
        <4> QED BY <4>1, <4>2
      <3> QED BY <1>1, <1>f, <2>8, <3>1 DEF ClosedInOrder
    <2>10. HeapCovers'
      <3>1. ASSUME NEW x \in open'
            PROVE  x.id \in DOMAIN gScore' /\ gScore'[x.id] + h(x.id) <= x.cost
        <4>1. CASE x \in open
          <5>1. x.id \in DOMAIN gScore /\ gScore[x.id] + h(x.id) <= x.cost /\ x.cost \in Nat
            BY <4>1, <1>2, <1>f DEF GuidedInv, HeapCovers, TypeOK, Entry
          <5>2. gScore'[x.id] <= gScore[x.id] /\ gScore[x.id] \in Nat /\ gScore'[x.id] \in Nat
            BY <1>7, <2>5, <5>1
          <5> QED BY <1>h, <2>2, <5>1, <5>2
        <4>2. CASE x = [cost |-> g + h(e.target), id |-> e.target]
          BY <1>4, <1>h, <2>2, <4>2
        <4> QED BY <2>1, <4>1, <4>2
      <3>2. ASSUME NEW v \in Frontier \cup {e.target}
            PROVE  [cost |-> gScore'[v] + h(v), id |-> v] \in open'
        <4>1. CASE v = e.target
          BY <2>1, <2>2, <4>1
        <4>2. CASE v # e.target
          <5>1. v \in Frontier /\ gScore'[v] = gScore[v]
            BY <2>2, <3>2, <4>2 DEF Frontier
          <5>2. [cost |-> F(v), id |-> v] \in open
            BY <1>1, <5>1 DEF GuidedInv, HeapCovers, Running
          <5> QED BY <1>f, <2>1, <5>1, <5>2
        <4> QED BY <4>1, <4>2
      <3> QED BY <1>f, <2>8, <3>1, <3>2 DEF HeapCovers
    <2>11. ASSUME NEW u \in closed, NEW x, Looked(u, x), x.weight \in Nat
           PROVE  Looked(u, x)'
      <3>1. x.target \in DOMAIN gScore /\ (Consistent(call) => gScore[x.target] <= gScore[u] + x.weight)
        BY <2>11 DEF Looked
      <3>2. /\ gScore'[x.target] <= gScore[x.target] /\ gScore'[u] = gScore[u]
            /\ gScore[u] \in Nat /\ gScore[x.target] \in Nat /\ gScore'[x.target] \in Nat
        BY <1>5, <1>7, <2>5, <2>6, <3>1
      <3>3. Consistent(call) => gScore'[x.target] <= gScore'[u] + x.weight
        BY <2>11, <3>1, <3>2
      <3> QED BY <1>f, <2>2, <3>1, <3>3 DEF Looked
    <2>12. e.target \in DOMAIN gScore' /\ gScore'[e.target] <= gScore'[curr.id] + e.weight
      <3>1. gScore'[curr.id] = curr.cost
        BY <1>5, <2>6
      <3> QED BY <1>4, <2>2, <3>1 DEF g
    <2>13. Expanded'
      <3>1. /\ closed' \subseteq DOMAIN gScore' /\ call.end \notin closed' /\ curr'.id \in closed'
            /\ curr'.cost = gScore'[curr'.id]
        BY <1>1, <1>5, <2>2, <2>6 DEF GuidedInv, Expanded, Running
      <3>2. Consistent(call)' => \A u \in closed' : F(u)' <= F(curr.id)'
        <4>1. \A u \in closed : F(u)' = F(u)
          BY <1>f, <2>6
        <4>2. F(curr.id)' = F(curr.id)
          BY <1>1, <1>5, <1>f, <2>6
        <4> QED BY <1>1, <1>5, <1>f, <4>1, <4>2
      <3>3. ASSUME NEW u \in closed \ {call.end}, u # curr.id,
                   NEW i \in DOMAIN Neighbors(call.graph, u)
            PROVE  Looked(u, Neighbors(call.graph, u)[i])'
        <4>1. Looked(u, Neighbors(call.graph, u)[i])
          BY <3>3, <1>1 DEF GuidedInv, Expanded
        <4>2. Neighbors(call.graph, u)[i].weight \in Nat
          BY <1>2, NeighborsType DEF TypeOK, IsCall
        <4> QED BY <1>1, <2>11, <4>1, <4>2 DEF Looked
      <3>4. ASSUME NEW i \in 1..edge' - 1
            PROVE  Looked(curr.id, Edges[i])'
        <4>1. CASE i = edge
          BY <4>1, <1>1, <2>12 DEF Looked, Edges, e
        <4>2. CASE i # edge
          <5>1. i \in 1..edge - 1 /\ i \in 1..Len(Edges)
            BY <4>2, <1>1, <1>2, NeighborsType DEF TypeOK, IsCall, Edges
          <5>2. Looked(curr.id, Edges[i]) /\ Edges[i].weight \in Nat
            BY <5>1, <1>1, <1>2, NeighborsType DEF GuidedInv, Expanded, TypeOK, IsCall, Edges
          <5> QED BY <1>1, <1>5, <2>11, <5>2 DEF Looked, Edges
        <4> QED BY <4>1, <4>2
      <3> QED BY <1>1, <3>1, <3>2, <3>3, <3>4 DEF Expanded, Edges
    <2>14. ParentEdge'
      <3>1. ASSUME NEW v \in DOMAIN parent', v # e.target
            PROVE  \E x \in OutEdges(call.graph, parent'[v]) :
                      x.target = v /\ gScore'[v] = gScore'[parent'[v]] + x.weight
        <4>1. v \in DOMAIN parent /\ parent'[v] = parent[v] /\ parent[v] \in closed
          BY <2>3, <3>1 DEF GuidedInv, HasParent
        <4>2. gScore'[parent[v]] = gScore[parent[v]] /\ gScore'[v] = gScore[v]
          BY <2>2, <2>6, <3>1, <4>1 DEF GuidedInv, HasParent
        <4> QED BY <4>1, <4>2 DEF GuidedInv, ParentEdge
      <3>2. gScore'[e.target] = gScore'[curr.id] + e.weight
        BY <1>5, <2>2, <2>6 DEF g
      <3> QED BY <1>1, <1>3, <2>3, <3>1, <3>2 DEF ParentEdge
    <2>15. Untouched' /\ Sourced' /\ Tracing' /\ Answered' /\ AnswerIsRide'
      BY <1>1, <1>6, <2>2, <2>4 DEF Untouched, Sourced, Tracing, Answered, AnswerIsRide, Searched
    <2> QED BY <2>7, <2>9, <2>10, <2>13, <2>14, <2>15 DEF GuidedInv
  <1>9. CASE ~(e.target \notin closed /\ Improves(e.target, g))
    <2>1. UNCHANGED <<gScore, parent, open>>
      BY <1>9 DEF ExpandEdge, Edges
    <2>2. Looked(curr.id, e)
      BY <1>1, <1>3, <1>9, LookedWithoutImproving
    <2>s. (Consistent(call)' <=> Consistent(call)) /\ \A v : F(v)' = F(v)
      BY <1>1, <2>1, SameScores
    <2>3. Expanded'
      <3>1. ASSUME NEW i \in 1..edge' - 1
            PROVE  Looked(curr.id, Edges[i])
        <4>1. CASE i = edge
          BY <4>1, <2>2
        <4>2. CASE i # edge
          <5>1. i \in 1..edge - 1
            BY <4>2, <1>1, <1>2
          <5> QED BY <5>1, <1>1 DEF GuidedInv, Expanded
        <4> QED BY <4>1, <4>2
      <3> QED BY <1>1, <2>1, <2>s, <3>1 DEF GuidedInv, Expanded, Edges, Looked, Running
    <2>4. HasParent' /\ ClosedInOrder' /\ ParentEdge' /\ HeapCovers'
      BY <1>1, <2>1, <2>s DEF GuidedInv, HasParent, ClosedInOrder, ParentEdge, HeapCovers, Frontier, Running
    <2>5. Untouched' /\ Sourced' /\ Tracing' /\ Answered' /\ AnswerIsRide'
      BY <1>1, <2>1 DEF GuidedInv, Untouched, Sourced, Tracing, Answered, AnswerIsRide, Searched
    <2> QED BY <2>3, <2>4, <2>5 DEF GuidedInv
  <1> QED BY <1>8, <1>9

LEMMA StepTraceBack ==
    ASSUME GuidedInv, TypeOK', TraceBack
    PROVE  GuidedInv'
  <1>1. /\ pc = "trace" /\ Current # call.start /\ path' = Append(path, parent[Current])
        /\ UNCHANGED <<call, pc, open, gScore, parent, closed, curr, edge, result>>
    BY DEF TraceBack
  <1>s. (Consistent(call)' <=> Consistent(call)) /\ \A v : F(v)' = F(v)
    BY <1>1, SameScores
  <1>2. path \in Seq(Id) /\ Len(path) \in Nat \ {0}
    BY <1>1 DEF GuidedInv, TypeOK
  <1>3. Current \in DOMAIN parent /\ parent[Current] \in closed /\ parent[Current] \in Id
    BY <1>1 DEF GuidedInv, HasParent, TypeOK
  <1>4. /\ Len(path') = Len(path) + 1 /\ path'[Len(path) + 1] = parent[Current]
        /\ \A i \in 1..Len(path) : path'[i] = path[i]
    BY <1>1, <1>2, <1>3
  <1>5. HasParent'
    <2>1. Current' = parent[Current]
      BY <1>4 DEF Current
    <2>2. parent[Current] \in DOMAIN parent \cup {call.start}
      BY <1>3 DEF GuidedInv, Expanded, HasParent
    <2> QED BY <1>1, <1>3, <2>1, <2>2 DEF GuidedInv, HasParent
  <1>6. Tracing'
    <2>1. Arrived /\ path[1] = call.end
      BY <1>1 DEF GuidedInv, Tracing
    <2>2. ASSUME NEW i \in 1..Len(path') - 1
          PROVE  path'[i] \in DOMAIN parent /\ path'[i + 1] = parent[path'[i]]
      <3>1. CASE i = Len(path)
        BY <1>2, <1>3, <1>4, <3>1 DEF Current
      <3>2. CASE i # Len(path)
        <4>1. i \in 1..Len(path) - 1 /\ i + 1 \in 1..Len(path) /\ i \in 1..Len(path)
          BY <1>2, <1>4, <2>2, <3>2
        <4>2. path[i] \in DOMAIN parent /\ path[i + 1] = parent[path[i]]
          BY <1>1, <4>1 DEF GuidedInv, Tracing
        <4> QED BY <1>4, <4>1, <4>2
      <3> QED BY <3>1, <3>2
    <2>3. path'[1] = call.end
      BY <1>2, <1>4, <2>1
    <2> QED BY <1>1, <2>1, <2>2, <2>3 DEF Tracing, Arrived
  <1>7. ClosedInOrder' /\ ParentEdge' /\ HeapCovers'
    BY <1>1, <1>s DEF GuidedInv, ClosedInOrder, ParentEdge, HeapCovers, Frontier, Running
  <1>8. Expanded'
    BY <1>1, <1>s DEF GuidedInv, Expanded, Looked, Running
  <1>9. Untouched' /\ Sourced' /\ Answered' /\ AnswerIsRide'
    BY <1>1 DEF GuidedInv, Untouched, Sourced, Answered, AnswerIsRide, Searched
  <1> QED BY <1>5, <1>6, <1>7, <1>8, <1>9 DEF GuidedInv

\* Reading the walk back from its end makes it a ride from start to end.
LEMMA StepReturnRoute ==
    ASSUME GuidedInv, TypeOK', ReturnRoute
    PROVE  GuidedInv'
  <1>1. /\ pc = "trace" /\ pc' = "done" /\ Current = call.start
        /\ result' = Route(call.graph, gScore, Reversed(path), curr.cost)
        /\ UNCHANGED <<call, open, gScore, parent, closed, curr, edge, path>>
    BY DEF ReturnRoute, Return
  <1>s. (Consistent(call)' <=> Consistent(call)) /\ \A v : F(v)' = F(v)
    BY <1>1, SameScores
  <1>2. path \in Seq(Id) /\ path # <<>> /\ path[Len(path)] = call.start
    BY <1>1 DEF GuidedInv, TypeOK, Current
  <1>3. Arrived /\ WalksBack(path, parent, call.end)
    BY <1>1 DEF GuidedInv, Tracing, WalksBack
  <1>4. Searched /\ call.start \in DOMAIN gScore /\ gScore[call.start] = 0
    BY <1>1 DEF GuidedInv, Sourced
  <1>5. result'.found /\ result'.total = curr.cost
    BY <1>1 DEF Route
  <1>6. IsReverse(Reversed(path), path)
    BY <1>2 DEF IsReverse, Reversed
  <1>7. TightParents(call.graph, gScore, parent)
    BY DEF GuidedInv, ParentEdge, TightParents
  <1>8. IsRide(call.graph, result', call.start, call.end)
    <2>1. curr.cost = gScore[call.end]
      BY <1>3 DEF Arrived
    <2> QED BY <1>1, <1>2, <1>3, <1>4, <1>6, <1>7, <2>1, WalkIsRide
  <1>9. AnswerIsRide' /\ Answered'
    BY <1>1, <1>3, <1>4, <1>5, <1>8 DEF AnswerIsRide, Answered, Arrived
  <1>10. HasParent' /\ ClosedInOrder' /\ ParentEdge' /\ HeapCovers'
    BY <1>1, <1>s DEF GuidedInv, HasParent, ClosedInOrder, ParentEdge, HeapCovers, Frontier, Running
  <1>11. Expanded'
    BY <1>1, <1>s DEF GuidedInv, Expanded, Looked, Running
  <1>12. Untouched' /\ Sourced' /\ Tracing'
    BY <1>1 DEF Untouched, Sourced, Tracing
  <1> QED BY <1>9, <1>10, <1>11, <1>12 DEF GuidedInv

LEMMA StepGuided == GuidedInv /\ [Next]_vars => GuidedInv'
  <1> SUFFICES ASSUME GuidedInv, [Next]_vars PROVE GuidedInv'
    OBVIOUS
  <1>1. TypeOK'
    BY StepType DEF GuidedInv
  <1>2. CASE UNCHANGED vars
    <2>1. UNCHANGED <<call, pc, open, gScore, parent, closed, curr, edge, path, result>>
      BY <1>2 DEF vars
    <2>s. (Consistent(call)' <=> Consistent(call)) /\ \A v : F(v)' = F(v)
      BY <2>1, SameScores
    <2>2. HasParent' /\ ClosedInOrder' /\ HeapCovers' /\ ParentEdge'
      BY <2>1, <2>s DEF GuidedInv, HasParent, ClosedInOrder, HeapCovers, ParentEdge, Frontier,
                        Running, Current
    <2>3. Expanded'
      BY <2>1, <2>s DEF GuidedInv, Expanded, Running, Looked, Edges
    <2>4. Untouched' /\ Sourced' /\ Tracing' /\ Answered' /\ AnswerIsRide'
      BY <2>1 DEF GuidedInv, Untouched, Sourced, Tracing, Answered, AnswerIsRide, Searched,
                  Arrived, Frontier
    <2> QED BY <1>1, <2>2, <2>3, <2>4 DEF GuidedInv
  <1> QED
    BY <1>1, <1>2, StepAnswer, StepPushSource, StepSkipStale, StepClose, StepExhausted,
       StepExpandEdge, StepNextPop, StepTraceBack, StepReturnRoute DEF Next

-----------------------------------------------------------------------------
(* What follows from it.                                                    *)

\* The search invariant holds throughout, whatever the estimates are.
THEOREM GuidedSearchCorrect == Spec => []GuidedInv
  BY InitGuided, StepGuided, PTL DEF Spec

\* The walk back only meets closed stations that have a parent, so that it
\* never follows one that operator[] made up.
THEOREM GuidedParentsExist == Spec => []HasParent
  <1>1. GuidedInv => HasParent
    BY DEF GuidedInv
  <1> QED BY <1>1, InitGuided, StepGuided, PTL DEF Spec

\* A route that A* finds is a ride of the graph at the edges' own weights,
\* also when the estimates are wrong: they may cost optimality, never truth.
THEOREM GuidedFoundIsRide == Spec => []AnswerIsRide
  <1>1. GuidedInv => AnswerIsRide
    BY DEF GuidedInv
  <1> QED BY <1>1, InitGuided, StepGuided, PTL DEF Spec

-----------------------------------------------------------------------------
(* The rider.                                                               *)

LEMMA InitRider == RideInit => GuidedInv /\ RiderInv
  <1> SUFFICES ASSUME RideInit PROVE GuidedInv /\ RiderInv
    OBVIOUS
  <1>1. GuidedInv
    BY InitGuided DEF RideInit
  <1>2. pc = "call" /\ call.start \in Id
    BY <1>1 DEF RideInit, Init, GuidedInv, TypeOK, IsCall
  <1> QED BY <1>1, <1>2 DEF RideInit, RiderInv

LEMMA ComputeRider ==
    ASSUME GuidedInv, GuidedInv', RiderInv, Compute
    PROVE  RiderInv'
  <1>1. pc # "done" /\ call' = call /\ rider' = rider
    BY DEF Compute, Next, AnswerTrivial, AnswerUnknown, PushSource, SkipStale, Close,
           Exhausted, ExpandEdge, NextPop, TraceBack, ReturnRoute
  <1>2. rider.at = call.start /\ rider.time = 0 /\ rider.at \in Id /\ rider.time \in Nat
    BY <1>1 DEF RiderInv
  <1>3. pc' = "done" /\ Searched' => rider.at \in DOMAIN gScore' /\ gScore'[rider.at] <= rider.time
    BY <1>1, <1>2 DEF GuidedInv, Answered
  <1> QED BY <1>1, <1>2, <1>3 DEF RiderInv

\* With consistent estimates an edge keeps a rider behind.
LEMMA RideBehind ==
    ASSUME GuidedInv, pc = "done", Searched, Consistent(call),
           NEW u \in Id, NEW t \in Nat,
           \/ u \in DOMAIN gScore /\ gScore[u] <= t
           \/ result.found /\ gScore[call.end] <= FScore(u, t),
           NEW i \in DOMAIN Neighbors(call.graph, u),
           NEW e, e = Neighbors(call.graph, u)[i]
    PROVE  \/ e.target \in DOMAIN gScore /\ gScore[e.target] <= t + e.weight
           \/ result.found /\ gScore[call.end] <= FScore(e.target, t + e.weight)
  <1>1. TypeOK /\ e.target \in Id /\ e.weight \in Nat /\ e \in OutEdges(call.graph, u)
    <2>1. TypeOK
      BY DEF GuidedInv
    <2> QED BY <2>1, NeighborsType DEF TypeOK, IsCall
  <1>2. \A v \in DOMAIN gScore : gScore[v] \in Nat
    BY <1>1 DEF TypeOK
  <1>h. \A v : Heuristic(call, v) \in Nat
    BY <1>1, HeuristicType DEF TypeOK
  <1>3. Heuristic(call, u) <= e.weight + Heuristic(call, e.target)
    BY <1>1, ConsistentEdge
  <1>4. closed \subseteq DOMAIN gScore /\ (result.found => call.end \in closed)
    BY DEF GuidedInv, Expanded, Answered, Arrived
  <1>5. CASE result.found /\ gScore[call.end] <= t + Heuristic(call, u)
    <2>1. gScore[call.end] <= (t + e.weight) + Heuristic(call, e.target)
      BY <1>1, <1>2, <1>h, <1>3, <1>4, <1>5
    <2> QED BY <1>5, <2>1 DEF FScore
  <1>6. CASE /\ u \in DOMAIN gScore /\ gScore[u] <= t
             /\ ~(result.found /\ gScore[call.end] <= t + Heuristic(call, u))
    <2>1. u \in closed \ {call.end}
      <3>1. CASE result.found
        <4>1. u # call.end
          <5>1. ASSUME u = call.end PROVE FALSE
            <6>1. gScore[u] <= t + Heuristic(call, u)
              BY <1>2, <1>h, <1>6
            <6> QED BY <1>6, <3>1, <5>1, <6>1
          <5> QED BY <5>1
        <4>2. ASSUME u \notin closed PROVE FALSE
          <5>1. F(call.end) <= F(u)
            BY <1>4, <1>6, <3>1, <4>2 DEF GuidedInv, ClosedInOrder, Frontier
          <5>2. gScore[call.end] + Heuristic(call, call.end) <= gScore[u] + Heuristic(call, u)
            BY <5>1 DEF F, FScore
          <5>3. gScore[call.end] <= t + Heuristic(call, u)
            <6>1. gScore[call.end] \in Nat /\ gScore[u] \in Nat
              BY <1>2, <1>4, <1>6, <3>1
            <6> QED BY <1>6, <1>h, <5>2, <6>1
          <5> QED BY <1>6, <3>1, <5>3
        <4> QED BY <4>1, <4>2
      <3>2. CASE ~result.found
        BY <1>6, <3>2 DEF GuidedInv, Answered, Frontier
      <3> QED BY <3>1, <3>2
    <2>2. Looked(u, e)
      BY <2>1 DEF GuidedInv, Expanded
    <2>3. e.target \in DOMAIN gScore /\ gScore[e.target] <= gScore[u] + e.weight
      BY <2>2 DEF Looked
    <2> QED BY <1>1, <1>2, <1>6, <2>3
  <1> QED BY <1>5, <1>6 DEF FScore

\* A rider who is behind the g scores, or behind the route, stays behind.
LEMMA RideRider ==
    ASSUME GuidedInv, RiderInv, Ride
    PROVE  RiderInv'
  <1>1. pc = "done" /\ UNCHANGED <<call, pc, gScore, closed, result>>
    BY DEF Ride, vars
  <1>2. PICK e \in OutEdges(call.graph, rider.at) :
           rider'.at = e.target /\ rider'.time = rider.time + e.weight
    BY DEF Ride
  <1>3. rider.at \in Id /\ rider.time \in Nat /\ TypeOK
    BY DEF RiderInv, GuidedInv
  <1>4. PICK i \in DOMAIN Neighbors(call.graph, rider.at) : e = Neighbors(call.graph, rider.at)[i]
    BY <1>2 DEF OutEdges
  <1>5. e.target \in Id /\ e.weight \in Nat /\ rider'.time \in Nat
    BY <1>2, <1>3, <1>4, NeighborsType DEF TypeOK, IsCall
  <1>6. ASSUME Searched, ~result.found PROVE e.target \in DOMAIN gScore
    <2>1. rider.at \in closed \ {call.end}
      BY <1>1, <1>6 DEF RiderInv, GuidedInv, Answered, Frontier
    <2>2. Looked(rider.at, e)
      BY <1>1, <1>4, <2>1 DEF GuidedInv, Expanded
    <2> QED BY <2>2 DEF Looked
  <1>7. ASSUME Searched, Consistent(call)
        PROVE  \/ e.target \in DOMAIN gScore /\ gScore[e.target] <= rider'.time
               \/ result.found /\ gScore[call.end] <= FScore(e.target, rider'.time)
    <2>1. \/ rider.at \in DOMAIN gScore /\ gScore[rider.at] <= rider.time
          \/ result.found /\ gScore[call.end] <= FScore(rider.at, rider.time)
      BY <1>1, <1>7 DEF RiderInv
    <2> QED BY <1>1, <1>2, <1>3, <1>4, <1>7, <2>1, RideBehind
  <1>8. /\ Consistent(call)' <=> Consistent(call)
        /\ FScore(rider.at, rider.time)' = FScore(e.target, rider'.time)
    BY <1>1, <1>2 DEF Consistent, FScore, Heuristic
  <1> QED BY <1>1, <1>2, <1>5, <1>6, <1>7, <1>8 DEF RiderInv, Searched

\* Where there is a ride A* finds a route, whatever the estimates; with
\* consistent estimates no ride is faster than the route it finds.
THEOREM ConsistentIsShortest == RideSpec => []GuidedIsShortest
  <1>1. GuidedInv /\ RiderInv /\ [RideNext]_rideVars => GuidedInv' /\ RiderInv'
    <2> SUFFICES ASSUME GuidedInv, RiderInv, [RideNext]_rideVars
                 PROVE  GuidedInv' /\ RiderInv'
      OBVIOUS
    <2>1. GuidedInv'
      BY StepGuided DEF RideNext, Compute, Ride, rideVars, vars
    <2>2. CASE Compute
      BY <2>1, <2>2, ComputeRider
    <2>3. CASE Ride
      BY <2>1, <2>3, RideRider
    <2>4. CASE UNCHANGED rideVars
      <3>1. UNCHANGED <<call, pc, gScore, result, rider>>
        BY <2>4 DEF rideVars
      <3>2. RiderInv'
        BY <3>1 DEF RiderInv, Searched, Consistent, FScore, Heuristic
      <3> QED BY <2>1, <3>2
    <2> QED BY <2>1, <2>2, <2>3, <2>4 DEF RideNext
  <1>2. GuidedInv /\ RiderInv => GuidedIsShortest
    <2> SUFFICES ASSUME GuidedInv, RiderInv, pc = "done", Searched, rider.at = call.end
                 PROVE  result.found /\ (Consistent(call) => result.total <= rider.time)
      BY DEF GuidedIsShortest
    <2>1. /\ result.found => Arrived /\ result.total = curr.cost
          /\ ~result.found => call.end \notin DOMAIN gScore
      BY DEF GuidedInv, Answered
    <2>2. result.found
      BY <2>1 DEF RiderInv
    <2>3. FScore(call.end, rider.time) = rider.time
      BY HeuristicAtEnd DEF GuidedInv, TypeOK, RiderInv, FScore
    <2>4. Consistent(call) => gScore[call.end] <= rider.time
      BY <2>3 DEF RiderInv
    <2> QED BY <2>1, <2>2, <2>4 DEF Arrived
  <1> QED BY <1>1, <1>2, InitRider, PTL DEF RideSpec

-----------------------------------------------------------------------------
(* Without coordinates: Dijkstra, step for step.                            *)

\* h is 0 throughout
LEMMA BlindIsZero ==
    ASSUME IsCall(call), Searched, Blind(call), NEW v
    PROVE  Heuristic(call, v) = 0
  <1>1. call.end \in DOMAIN call.graph.station
    BY DEF Searched, HasStation
  <1>2. CASE v = call.end
    BY <1>2, HeuristicAtEnd
  <1>3. CASE v # call.end
    BY <1>1, <1>3 DEF Blind, Heuristic, HasStation
  <1> QED BY <1>2, <1>3

\* Dijkstra's helpers are the ones A* uses.
LEMMA SameHelpers ==
    /\ \A g, id : D!Neighbors(g, id) = Neighbors(g, id) /\ (D!HasStation(g, id) <=> HasStation(g, id))
    /\ \A f, k, v : D!Put(f, k, v) = Put(f, k, v)
    /\ D!NoRoute = NoRoute
    /\ \A s : D!TrivialRoute(s) = TrivialRoute(s) /\ D!Reversed(s) = Reversed(s)
    /\ \A top : D!IsTop(top) <=> IsTop(top)
    /\ \A id, g : D!Improves(id, g) <=> Improves(id, g)
    /\ D!Current = Current
  BY DEF D!Neighbors, Neighbors, D!HasStation, HasStation, D!Put, Put, D!NoRoute, NoRoute,
         D!TrivialRoute, TrivialRoute, D!Reversed, Reversed, D!IsTop, IsTop,
         D!Improves, Improves, D!Current, Current

LEMMA SameRoute ==
    ASSUME NEW g, NEW cost, NEW ids, NEW total
    PROVE  D!Route(g, cost, ids, total) = Route(g, cost, ids, total)
  <1>1. \A S : D!Cardinality(S) = Cardinality(S)
    BY DEF D!Cardinality, Cardinality
  <1>2. \A from, to : D!Segment(g, cost, from, to) = Segment(g, cost, from, to)
    BY DEF D!Segment, Segment, D!EdgeType, EdgeType, D!Neighbors, Neighbors
  <1>3. D!Segments(g, cost, ids) = Segments(g, cost, ids)
    BY DEF D!Segments, Segments, D!Segment, Segment, D!EdgeType, EdgeType, D!Neighbors, Neighbors,
           D!HasStation, HasStation, D!Cardinality, Cardinality
  <1>4. \A segs : D!Transfers(segs) = Transfers(segs)
    BY <1>1 DEF D!Transfers, Transfers
  <1>5. D!RawPath(cost, ids) = RawPath(cost, ids)
    BY DEF D!RawPath, RawPath
  <1> QED BY <1>3, <1>4, <1>5 DEF D!Route, Route

\* With h = 0 an open entry that is not stale carries its station's g score.
LEMMA BlindTop ==
    ASSUME GuidedInv, Blind(call), pc = "loop", NEW top \in open, IsTop(top), top.id \notin closed
    PROVE  top = [cost |-> gScore[top.id], id |-> top.id]
  <1>1. top \in Entry /\ IsCall(call) /\ Searched
    BY DEF GuidedInv, TypeOK, Sourced
  <1>2. F(top.id) = top.cost /\ gScore[top.id] \in Nat
    BY TopIsLeast
  <1>3. Heuristic(call, top.id) = 0
    BY <1>1, BlindIsZero
  <1>4. top.cost = gScore[top.id]
    BY <1>2, <1>3 DEF F, FScore
  <1> QED BY <1>1, <1>4 DEF Entry

LEMMA BlindStep ==
    ASSUME GuidedInv, Blind(call), Next
    PROVE  D!Next
  <1>a. IsCall(call) /\ TypeOK
    BY DEF GuidedInv, TypeOK
  <1>1. CASE AnswerTrivial
    BY <1>1, SameHelpers DEF AnswerTrivial, D!AnswerTrivial, Return, D!Return, D!Next
  <1>2. CASE AnswerUnknown
    BY <1>2, SameHelpers DEF AnswerUnknown, D!AnswerUnknown, Return, D!Return, D!Next
  <1>3. CASE PushSource
    <2>1. Heuristic(call, call.start) = 0
      BY <1>3, <1>a, BlindIsZero DEF PushSource, Searched
    <2> QED BY <1>3, <2>1, SameHelpers DEF PushSource, D!PushSource, D!Next
  <1>4. CASE SkipStale
    BY <1>4, SameHelpers DEF SkipStale, D!SkipStale, D!Next
  <1>5. CASE Close
    <2>1. PICK top \in open :
             /\ pc = "loop" /\ IsTop(top) /\ top.id \notin closed
             /\ open' = open \ {top} /\ closed' = closed \cup {top.id}
             /\ curr' = [cost |-> gScore[top.id], id |-> top.id]
             /\ IF top.id = call.end THEN StartTracing ELSE StartExpanding
             /\ UNCHANGED <<call, gScore, parent, result>>
      BY <1>5 DEF Close
    <2>2. curr' = top
      BY <2>1, BlindTop
    <2>3. IF top.id = call.end THEN D!StartTracing ELSE D!StartRelaxing
      BY <2>1 DEF StartTracing, StartExpanding, D!StartTracing, D!StartRelaxing
    <2>4. D!IsTop(top)
      BY <2>1, SameHelpers
    <2>5. D!Settle
      BY <2>1, <2>2, <2>3, <2>4 DEF D!Settle
    <2> QED BY <2>5 DEF D!Next
  <1>6. CASE Exhausted
    BY <1>6, SameHelpers DEF Exhausted, D!Exhausted, Return, D!Return, D!Next
  <1>7. CASE ExpandEdge
    <2> DEFINE e == Neighbors(call.graph, curr.id)[edge]
               g == curr.cost + e.weight
    <2>1. pc = "relax" /\ edge <= Len(Neighbors(call.graph, curr.id))
      BY <1>7 DEF ExpandEdge
    <2>2. Searched
      BY <2>1 DEF GuidedInv, Sourced
    <2>3. FScore(e.target, g) = g
      <3>1. curr.cost \in Nat /\ edge \in 1..Len(Neighbors(call.graph, curr.id))
        BY <1>a, <2>1, NeighborsType DEF TypeOK, Entry, IsCall
      <3>2. e.weight \in Nat
        BY <1>a, <3>1, NeighborsType DEF IsCall
      <3>3. Heuristic(call, e.target) = 0
        BY <1>a, <2>2, BlindIsZero
      <3> QED BY <3>1, <3>2, <3>3 DEF FScore
    <2>4. IF e.target \notin closed /\ Improves(e.target, g)
          THEN /\ gScore' = Put(gScore, e.target, g)
               /\ parent' = Put(parent, e.target, curr.id)
               /\ open' = open \cup {[cost |-> g, id |-> e.target]}
          ELSE UNCHANGED <<gScore, parent, open>>
      BY <1>7, <2>3 DEF ExpandEdge
    <2>5. edge' = edge + 1 /\ UNCHANGED <<call, pc, closed, curr, path, result>>
      BY <1>7 DEF ExpandEdge
    <2>6. D!RelaxEdge
      BY <2>1, <2>4, <2>5, SameHelpers DEF D!RelaxEdge
    <2> QED BY <2>6 DEF D!Next
  <1>8. CASE NextPop
    BY <1>8, SameHelpers DEF NextPop, D!NextPop, D!Next
  <1>9. CASE TraceBack
    BY <1>9, SameHelpers DEF TraceBack, D!TraceBack, D!Next
  <1>10. CASE ReturnRoute
    BY <1>10, SameHelpers, SameRoute DEF ReturnRoute, D!ReturnRoute, Return, D!Return, D!Next
  <1> QED BY <1>1, <1>2, <1>3, <1>4, <1>5, <1>6, <1>7, <1>8, <1>9, <1>10 DEF Next

\* When the destination has no coordinates, or nothing else has, every step of
\* A* is the step Dijkstra takes, from the same start and to the same answer.
THEOREM BlindIsDijkstra == Spec => DegradesToDijkstra
  <1>1. Init => (Blind(call) => D!Fresh)
    BY SameHelpers DEF Init, D!Fresh
  <1>2. GuidedInv /\ [Next]_vars => [Blind(call) => D!Next]_vars
    BY BlindStep
  <1> QED BY <1>1, <1>2, InitGuided, StepGuided, PTL DEF Spec, DegradesToDijkstra
-----------------------------------------------------------------------------
(* The promise of IPathfinder: the distance of Bellman and Ford.            *)

(* A g score, whatever the estimates, is that of a ride over closed         *)
(* stations, so that a round for each of them reckons it.                   *)
Reckoned ==
    pc \in {"loop", "relax", "trace"} =>
       /\ \A v \in DOMAIN gScore :
             Reckons(call.graph, call.start, v, gScore[v], Cardinality(closed))
       /\ pc = "relax" =>
             Reckons(call.graph, call.start, curr.id, curr.cost, Cardinality(closed) - 1)

LEMMA ClosedCount ==
    ASSUME GuidedInv
    PROVE  /\ IsFiniteSet(closed) /\ Cardinality(closed) \in Nat
           /\ Cardinality(closed) <= Last
           /\ closed # {} => Cardinality(closed) # 0
  <1>1. closed \subseteq Id
    BY DEF GuidedInv, TypeOK
  <1>2. IsFiniteSet(closed) /\ Cardinality(closed) <= Last
    BY <1>1, FiniteIds, FS_Subset DEF Last
  <1> QED BY <1>2, FS_CardinalityType, FS_EmptySet

LEMMA StepReckoned == GuidedInv /\ Reckoned /\ [Next]_vars => Reckoned'
  <1> SUFFICES ASSUME GuidedInv, Reckoned, [Next]_vars PROVE Reckoned'
    OBVIOUS
  <1> DEFINE n == Cardinality(closed)
             R(v, c, m) == Reckons(call.graph, call.start, v, c, m)
  <1>a. IsGraph(call.graph) /\ call.start \in Id /\ call.end \in Id
    BY DEF GuidedInv, TypeOK, IsCall
  <1>b. n \in Nat /\ IsFiniteSet(closed) /\ (closed # {} => n # 0)
    BY ClosedCount
  <1>c. pc \in {"loop", "relax", "trace"} => \A v \in DOMAIN gScore : R(v, gScore[v], n)
    BY DEF Reckoned
  <1>d. pc = "relax" => R(curr.id, curr.cost, n - 1)
    BY DEF Reckoned
  <1>1. CASE AnswerTrivial \/ AnswerUnknown \/ Exhausted \/ ReturnRoute
    BY <1>1 DEF AnswerTrivial, AnswerUnknown, Exhausted, ReturnRoute, Return, Reckoned
  <1>2. CASE PushSource
    <2>1. DOMAIN gScore' = {call.start} /\ gScore'[call.start] = 0 /\ closed' = closed
          /\ call' = call /\ pc' = "loop"
      BY <1>2 DEF PushSource, Put, GuidedInv, Untouched
    <2>2. R(call.start, 0, n)
      BY <1>a, <1>b, ReckonsSource
    <2> HIDE DEF R
    <2> QED BY <2>1, <2>2 DEF Reckoned, R
  <1>3. CASE SkipStale \/ TraceBack \/ UNCHANGED vars
    <2>1. UNCHANGED <<call, pc, gScore, closed, curr>>
      BY <1>3 DEF SkipStale, TraceBack, vars
    <2> QED BY <2>1 DEF Reckoned
  <1>4. CASE Close
    <2>1. PICK top \in open :
             /\ top.id \notin closed /\ closed' = closed \cup {top.id}
             /\ curr' = [cost |-> gScore[top.id], id |-> top.id]
      BY <1>4 DEF Close
    <2>2. pc = "loop" /\ call' = call /\ gScore' = gScore
      BY <1>4 DEF Close
    <2>3. Cardinality(closed') = n + 1
      BY <1>b, <2>1, FS_AddElement
    <2>4. \A v \in DOMAIN gScore : R(v, gScore[v], n + 1)
      <3>1. \A k \in 0..Last : k >= n + 1 => k >= n
        BY <1>b, LastIsNat
      <3> QED BY <1>c, <2>2, <3>1 DEF Reckons
    <2>5. top.id \in DOMAIN gScore
      BY <2>1 DEF GuidedInv, HeapCovers
    <2>7. R(top.id, gScore[top.id], n)
      BY <1>c, <2>2, <2>5
    <2>8. Cardinality(closed') - 1 = n
      BY <1>b, <2>3
    <2> HIDE DEF R, n
    <2>9. \A v \in DOMAIN gScore' : R(v, gScore'[v], Cardinality(closed'))
      BY <2>2, <2>3, <2>4
    <2>10. R(curr'.id, curr'.cost, Cardinality(closed') - 1)
      BY <2>1, <2>7, <2>8
    <2> QED BY <2>2, <2>9, <2>10 DEF Reckoned, R
  <1>5. CASE NextPop
    <2>1. pc = "relax" /\ UNCHANGED <<call, gScore, closed>> /\ pc' = "loop"
      BY <1>5 DEF NextPop
    <2> QED BY <1>c, <2>1 DEF Reckoned
  <1>6. CASE ExpandEdge
    <2> DEFINE e == Edges[edge]
               cost == curr.cost + e.weight
    <2>1. pc = "relax" /\ UNCHANGED <<call, pc, closed, curr>>
      BY <1>6 DEF ExpandEdge
    <2>2. curr.cost \in Nat /\ curr.id \in Id /\ edge \in 1..Len(Edges)
      BY <1>6, <1>a, NeighborsType DEF ExpandEdge, GuidedInv, TypeOK, Entry, Edges
    <2>3. e \in OutEdges(call.graph, curr.id)
      BY <1>a, <2>2, NeighborsType DEF Edges
    <2>4. n \in Nat \ {0}
      BY <1>b, <2>1 DEF GuidedInv, Expanded
    <2>5. R(e.target, cost, n)
      <3> HIDE DEF e, n
      <3> QED BY <1>a, <1>d, <2>1, <2>2, <2>3, <2>4, ReckonsEdge
    <2>6. \/ gScore' = Put(gScore, e.target, cost)
          \/ gScore' = gScore
      BY <1>6 DEF ExpandEdge, Edges
    <2>7. ASSUME NEW v \in DOMAIN gScore' PROVE R(v, gScore'[v], n)
      <3> HIDE DEF R, n, e
      <3>1. CASE gScore' = gScore
        BY <1>c, <2>1, <2>7, <3>1
      <3>2. CASE gScore' = Put(gScore, e.target, cost)
        BY <1>c, <2>1, <2>5, <2>7, <3>2 DEF Put
      <3> QED BY <2>6, <3>1, <3>2
    <2> HIDE DEF R, n, e
    <2> QED BY <1>d, <2>1, <2>7 DEF Reckoned, R, n
  <1> QED BY <1>1, <1>2, <1>3, <1>4, <1>5, <1>6 DEF Next

LEMMA InitReckoned == Init => Reckoned
  BY DEF Init, Reckoned

\* When a rider may have got where, once the search has returned.
Behind ==
    {x \in Id \X Nat : \/ x[1] \in DOMAIN gScore /\ gScore[x[1]] <= x[2]
                       \/ result.found /\ gScore[call.end] <= FScore(x[1], x[2])}

Closed ==
    pc = "done" /\ Searched /\ Consistent(call) =>
       \A u \in Id, t \in Nat : \A e \in OutEdges(call.graph, u) :
          <<u, t>> \in Behind => <<e.target, t + e.weight>> \in Behind

LEMMA SearchCloses == GuidedInv => Closed
  <1> SUFFICES ASSUME GuidedInv, pc = "done", Searched, Consistent(call),
                      NEW u \in Id, NEW t \in Nat, NEW e \in OutEdges(call.graph, u),
                      <<u, t>> \in Behind
               PROVE  <<e.target, t + e.weight>> \in Behind
    BY DEF Closed
  <1>1. PICK i \in DOMAIN Neighbors(call.graph, u) : e = Neighbors(call.graph, u)[i]
    BY DEF OutEdges
  <1>2. e.target \in Id /\ e.weight \in Nat
    BY <1>1, NeighborsType DEF GuidedInv, TypeOK, IsCall
  <1>3. \/ u \in DOMAIN gScore /\ gScore[u] <= t
        \/ result.found /\ gScore[call.end] <= FScore(u, t)
    BY DEF Behind
  <1>4. \/ e.target \in DOMAIN gScore /\ gScore[e.target] <= t + e.weight
        \/ result.found /\ gScore[call.end] <= FScore(e.target, t + e.weight)
    BY <1>1, <1>3, RideBehind
  <1> QED BY <1>2, <1>4 DEF Behind

\* The instance of Pathfinder speaks of the same graphs, routes and distances.
LEMMA SamePromise ==
    /\ \A c : P!IsCall(c) <=> IsCall(c)
    /\ P!NoRoute = NoRoute
    /\ \A id : P!TrivialRoute(id) = TrivialRoute(id)
    /\ \A g, id : P!HasStation(g, id) <=> HasStation(g, id)
    /\ \A g, r, s, e : P!IsRide(g, r, s, e) <=> IsRide(g, r, s, e)
    /\ \A g, s : P!Distance(g, s) = Distance(g, s)
  <1>1. /\ \A c : P!IsCall(c) <=> IsCall(c)
        /\ P!NoRoute = NoRoute
        /\ \A id : P!TrivialRoute(id) = TrivialRoute(id)
        /\ \A g, id : P!HasStation(g, id) <=> HasStation(g, id)
        /\ \A g, r, s, e : P!IsRide(g, r, s, e) <=> IsRide(g, r, s, e)
    BY DEF P!IsCall, IsCall, P!IsGraph, IsGraph, P!Station, Station, P!WeightedEdge, WeightedEdge,
           P!ConnectionType, ConnectionType, P!NoRoute, NoRoute, P!TrivialRoute, TrivialRoute,
           P!HasStation, HasStation, P!IsRide, IsRide, P!OutEdges, OutEdges, P!Neighbors, Neighbors
  <1>2. ASSUME NEW g, NEW s PROVE P!Distance(g, s) = Distance(g, s)
    BY DEF P!Distance, Distance, P!Rounds, Rounds, P!AtSource, AtSource, P!Improved, Improved,
           P!Least, Least, P!Arrivals, Arrivals, P!OutEdges, OutEdges, P!Neighbors, Neighbors,
           P!Cardinality, Cardinality
  <1> QED BY <1>1, <1>2

\* What is returned is the distance, or nothing where there is none.
LEMMA ReturnsDistance ==
    ASSUME GuidedInv, GuidedInv', Reckoned, Exhausted \/ ReturnRoute, Consistent(call)
    PROVE  P!IsAnswer(call, result')
  <1> DEFINE g == call.graph
             s == call.start
             e == call.end
             R == Behind'
  <1>1. /\ call' = call /\ gScore' = gScore /\ closed' = closed /\ pc' = "done" /\ curr' = curr
        /\ pc \in {"loop", "trace"}
    BY DEF Exhausted, ReturnRoute, Return
  <1>2. IsGraph(g) /\ s \in Id /\ e \in Id
    BY DEF GuidedInv, TypeOK, IsCall
  <1>3. Searched /\ Searched' /\ s \in DOMAIN gScore /\ gScore[s] = 0
    BY <1>1 DEF GuidedInv, Sourced, Searched
  <1>c. Consistent(call')
    BY <1>1
  <1>4. <<s, 0>> \in R
    BY <1>1, <1>2, <1>3 DEF Behind
  <1>5. \A u \in Id, t \in Nat : \A x \in OutEdges(g, u) :
           <<u, t>> \in R => <<x.target, t + x.weight>> \in R
    <2>1. Closed'
      BY SearchCloses, PTL
    <2> QED BY <1>1, <1>3, <1>c, <2>1 DEF Closed
  <1>6. CASE result'.found
    <2>1. result'.total = gScore[e] /\ e \in DOMAIN gScore /\ gScore[e] \in Nat /\ curr.id = e
      BY <1>1, <1>3, <1>6 DEF GuidedInv, Answered, Arrived, Expanded, TypeOK
    <2>2. IsRide(g, result', s, e)
      BY <1>1, <1>3, <1>6 DEF GuidedInv, AnswerIsRide
    <2>3. Reckons(g, s, e, gScore[e], Last)
      <3>1. Reckons(g, s, e, gScore[e], Cardinality(closed))
        BY <1>1, <2>1 DEF Reckoned
      <3>2. Cardinality(closed) \in Nat /\ Cardinality(closed) <= Last
        BY ClosedCount
      <3> QED BY <3>1, <3>2, LastIsNat DEF Reckons
    <2>4. \A t \in Nat : <<e, t>> \in R => gScore[e] <= t
      <3>1. \A t \in Nat : FScore(e, t)' = t
        BY <1>1, <1>3, HeuristicAtEnd DEF GuidedInv, TypeOK, FScore
      <3> QED BY <1>1, <3>1 DEF Behind
    <2>5. gScore[e] \in Distance(g, s)[e]
      <3> HIDE DEF R
      <3> QED BY <1>2, <1>4, <1>5, <2>1, <2>3, <2>4, ReckonedIsDistance
    <2> QED BY <1>3, <1>6, <2>1, <2>2, <2>5, SamePromise DEF P!IsAnswer, Searched
  <1>7. CASE ~result'.found
    <2>1. e \notin DOMAIN gScore
      BY <1>1, <1>3, <1>7 DEF GuidedInv, Answered
    <2>2. \A t \in Nat : <<e, t>> \notin R
      BY <1>1, <1>7, <2>1 DEF Behind
    <2>3. \A t \in Distance(g, s)[e] : t \in Nat /\ <<e, t>> \in R
      <3>1. Last \in 0..Last
        BY LastIsNat
      <3> HIDE DEF R
      <3> QED BY <1>2, <1>4, <1>5, <3>1, RoundsWithin DEF Distance, Last
    <2>4. Distance(g, s)[e] = {}
      BY <2>2, <2>3
    <2> QED BY <1>3, <1>7, <2>4, SamePromise DEF P!IsAnswer, Searched
  <1> QED BY <1>6, <1>7

LEMMA StepAnswers ==
    ASSUME GuidedInv, GuidedInv', Reckoned, [Next]_vars
    PROVE  [(Searched => Consistent(call)) => P!Answer]_(P!vars)
  <1>1. CASE AnswerTrivial
    <2>1. /\ pc = "call" /\ pc' = "done" /\ call' = call /\ call.start = call.end
          /\ result' = TrivialRoute(call.start)
      BY <1>1 DEF AnswerTrivial, Return
    <2>2. P!IsAnswer(call, result')
      BY <2>1, SamePromise DEF P!IsAnswer
    <2> QED BY <2>1, <2>2 DEF P!Answer
  <1>2. CASE AnswerUnknown
    <2>1. /\ pc = "call" /\ pc' = "done" /\ call' = call /\ call.start # call.end
          /\ ~HasStation(call.graph, call.start) \/ ~HasStation(call.graph, call.end)
          /\ ~result'.found
      BY <1>2 DEF AnswerUnknown, Return, NoRoute
    <2>2. P!IsAnswer(call, result')
      BY <2>1, SamePromise DEF P!IsAnswer
    <2> QED BY <2>1, <2>2 DEF P!Answer
  <1>3. CASE Exhausted \/ ReturnRoute
    <2>1. pc # "done" /\ pc' = "done" /\ call' = call /\ Searched
      BY <1>3 DEF Exhausted, ReturnRoute, Return, GuidedInv, Sourced
    <2>2. Consistent(call) => P!IsAnswer(call, result')
      BY <1>3, ReturnsDistance
    <2> QED BY <2>1, <2>2 DEF P!Answer
  <1>4. CASE PushSource \/ SkipStale \/ Close \/ ExpandEdge \/ NextPop \/ TraceBack
    <2>1. pc # "done" /\ pc' # "done" /\ call' = call /\ result' = result
      BY <1>4 DEF PushSource, SkipStale, Close, StartTracing, StartExpanding, ExpandEdge, NextPop, TraceBack
    <2> QED BY <2>1 DEF P!vars
  <1>5. CASE UNCHANGED vars
    BY <1>5 DEF vars, P!vars
  <1> QED BY <1>1, <1>2, <1>3, <1>4, <1>5 DEF Next

\* The safety part of the refinement: with consistent estimates every step of
\* the search is a step of the promise or none, and the answer is the distance
\* and a ride that long, or "not found" where Bellman and Ford find no way.
THEOREM GuidedKeepsPromise ==
    Spec => P!Init /\ [][(Searched => Consistent(call)) => P!Answer]_(P!vars)
  <1>1. Init => P!Init
    BY CallsAssumption, SamePromise DEF Init, P!Init
  <1>2. GuidedInv /\ Reckoned /\ [Next]_vars =>
           GuidedInv' /\ Reckoned' /\ [(Searched => Consistent(call)) => P!Answer]_(P!vars)
    BY StepGuided, StepReckoned, StepAnswers
  <1> QED BY <1>1, <1>2, InitGuided, InitReckoned, PTL DEF Spec
=============================================================================

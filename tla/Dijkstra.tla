------------------------------ MODULE Dijkstra ------------------------------
(***************************************************************************)
(* Dijkstra::compute (backend/src/core/algorithms/Dijkstra.cpp), one step   *)
(* per iteration of its loops.  The graph is const for the whole call and   *)
(* every call is independent, so a behaviour is one call: Init picks the    *)
(* graph and the two stations asked for.                                    *)
(*                                                                          *)
(* The binary heap is the set of its entries: a (cost, id) pair is pushed   *)
(* only when cost is strictly below the id's distance, so never twice.      *)
(***************************************************************************)
EXTENDS RouteResult

CONSTANT Calls \* the calls to consider: [graph, start, end]

ASSUME CallsAssumption == \A c \in Calls : IsCall(c)

VARIABLES
    call,    \* the arguments
    pc,      \* where the call is
    pq,      \* the min-heap of [cost, id] entries
    dist,    \* best known cost from start, for the stations met so far
    parent,  \* predecessor on the best known path
    visited, \* settled stations
    curr,    \* the heap entry being expanded
    edge,    \* index of the next edge of curr to relax
    path,    \* stations walked back from end (path_ids before the reverse)
    result   \* what the call returns

vars == <<call, pc, pq, dist, parent, visited, curr, edge, path, result>>

Entry == [cost: Nat, id: Id]

\* nothing done yet
Fresh ==
    /\ pc = "call"
    /\ pq = {} /\ dist = <<>> /\ parent = <<>> /\ visited = {}
    /\ curr = [cost |-> 0, id |-> call.start] /\ edge = 1
    /\ path = <<>>
    /\ result = NoRoute

Init == call \in Calls /\ Fresh

Return(r) == pc' = "done" /\ result' = r

\* start = end: answered at once, whether or not the station exists
AnswerTrivial ==
    /\ pc = "call" /\ call.start = call.end
    /\ Return(TrivialRoute(call.start))
    /\ UNCHANGED <<call, pq, dist, parent, visited, curr, edge, path>>

AnswerUnknown ==
    /\ pc = "call" /\ call.start # call.end
    /\ ~HasStation(call.graph, call.start) \/ ~HasStation(call.graph, call.end)
    /\ Return(NoRoute)
    /\ UNCHANGED <<call, pq, dist, parent, visited, curr, edge, path>>

PushSource ==
    /\ pc = "call" /\ call.start # call.end
    /\ HasStation(call.graph, call.start) /\ HasStation(call.graph, call.end)
    /\ dist' = Put(dist, call.start, 0)
    /\ pq' = {[cost |-> 0, id |-> call.start]}
    /\ pc' = "loop"
    /\ UNCHANGED <<call, parent, visited, curr, edge, path, result>>

-----------------------------------------------------------------------------
(* while (!pq.empty())                                                      *)

IsTopByIdMutant(top) == \A e \in pq : top.id <= e.id

\* std::greater on pairs: least cost, ties by id
IsTop(top) == \A e \in pq : \/ top.cost < e.cost
                            \/ top.cost = e.cost /\ top.id <= e.id

SkipStale ==
    \E top \in pq :
       /\ pc = "loop" /\ IsTop(top)
       /\ top.id \in visited
       /\ pq' = pq \ {top}
       /\ UNCHANGED <<call, pc, dist, parent, visited, curr, edge, path, result>>

StartRelaxing == pc' = "relax" /\ edge' = 1 /\ UNCHANGED path

\* the destination is settled: break, then reconstruct
StartTracing == pc' = "trace" /\ path' = <<call.end>> /\ UNCHANGED edge

Settle ==
    \E top \in pq :
       /\ pc = "loop" /\ IsTop(top)
       /\ top.id \notin visited
       /\ pq' = pq \ {top}
       /\ visited' = visited \cup {top.id}
       /\ curr' = top
       /\ IF top.id = call.end THEN StartTracing ELSE StartRelaxing
       /\ UNCHANGED <<call, dist, parent, result>>

\* no return when nothing was found
ExhaustedTracesMutant ==
    /\ pc = "loop" /\ pq = {}
    /\ StartTracing
    /\ UNCHANGED <<call, pq, dist, parent, visited, curr, result>>

Exhausted ==
    /\ pc = "loop" /\ pq = {}
    /\ Return(NoRoute)
    /\ UNCHANGED <<call, pq, dist, parent, visited, curr, edge, path>>

-----------------------------------------------------------------------------
(* for (const auto& edge : graph.get_neighbors(curr_id))                    *)

ImprovesFirstWinsMutant(id, cost) == id \notin DOMAIN dist

Improves(id, cost) == id \notin DOMAIN dist \/ cost < dist[id]

RelaxEdge ==
    LET edges == Neighbors(call.graph, curr.id)
        e     == edges[edge]
        cost  == curr.cost + e.weight
    IN  /\ pc = "relax" /\ edge <= Len(edges)
        /\ IF e.target \notin visited /\ Improves(e.target, cost)
           THEN /\ dist' = Put(dist, e.target, cost)
                /\ parent' = Put(parent, e.target, curr.id)
                /\ pq' = pq \cup {[cost |-> cost, id |-> e.target]}
           ELSE UNCHANGED <<dist, parent, pq>>
        /\ edge' = edge + 1
        /\ UNCHANGED <<call, pc, visited, curr, path, result>>

NextPop ==
    /\ pc = "relax" /\ edge > Len(Neighbors(call.graph, curr.id))
    /\ pc' = "loop"
    /\ UNCHANGED <<call, pq, dist, parent, visited, curr, edge, path, result>>

-----------------------------------------------------------------------------
(* while (current != start): the last id on path is current.  parent[...]   *)
(* would insert station 0 for a key it does not hold; HasParent below is    *)
(* what keeps it from doing so.                                             *)

Current == path[Len(path)]

TraceBack ==
    /\ pc = "trace" /\ Current # call.start
    /\ path' = Append(path, parent[Current])
    /\ UNCHANGED <<call, pc, pq, dist, parent, visited, curr, edge, result>>

ReversedNotMutant(s) == s

Reversed(s) == [i \in 1..Len(s) |-> s[Len(s) + 1 - i]]

ReturnRoute ==
    /\ pc = "trace" /\ Current = call.start
    /\ Return(Route(call.graph, dist, Reversed(path), curr.cost))
    /\ UNCHANGED <<call, pq, dist, parent, visited, curr, edge, path>>

-----------------------------------------------------------------------------
Next == \/ AnswerTrivial \/ AnswerUnknown \/ PushSource
        \/ SkipStale \/ Settle \/ Exhausted
        \/ RelaxEdge \/ NextPop
        \/ TraceBack \/ ReturnRoute

Spec == Init /\ [][Next]_vars

\* compute is a plain sequential call: it keeps running until it returns
FairSpec == Spec /\ WF_vars(Next)
-----------------------------------------------------------------------------
Edges == Neighbors(call.graph, curr.id)

Frontier == DOMAIN dist \ visited

(* Types of the locals; every cursor stays inside what it points into.      *)
TypeOK ==
    /\ IsCall(call)
    /\ pc \in {"call", "loop", "relax", "trace", "done"}
    /\ pq \subseteq Entry
    /\ dist \in [DOMAIN dist -> Nat] /\ DOMAIN dist \subseteq Id
    /\ parent \in [DOMAIN parent -> Id] /\ DOMAIN parent \subseteq Id
    /\ visited \subseteq Id
    /\ curr \in Entry
    /\ edge \in Nat \ {0}
    /\ pc = "relax" => edge <= Len(Edges) + 1
    /\ path \in Seq(Id)
    /\ pc = "trace" => path # <<>>

(* The walk back (lines 94-97) only meets stations that have a parent, so    *)
(* parent[current] never inserts a made-up station 0: every station met but *)
(* start has a parent, and that parent is settled.                          *)
HasParent ==
    /\ DOMAIN parent = DOMAIN dist \ {call.start}
    /\ \A v \in DOMAIN parent : parent[v] \in visited
    /\ pc = "trace" => Current \in DOMAIN parent \cup {call.start}

(* Stations are settled in order of distance: nothing still open is nearer  *)
(* than something settled.  Lines 58 and 72 skip settled stations for good, *)
(* which is only right because of this.                                     *)
SettledFirst == \A u \in visited, v \in Frontier : dist[u] <= dist[v]

(* raw_path and segments tell the same story: every hop between two stations *)
(* of the graph has its segment, in the path's order and lasting as long as *)
(* the path says.  A hop that touches an id without a station (line 122)    *)
(* has none, and neither shifts nor lengthens another hop's.                *)
SegmentsMatchPath ==
    pc = "done" /\ result.found =>
       LET p     == result.rawPath
           shown == {i \in 1..Len(p) - 1 : /\ HasStation(call.graph, p[i][1])
                                           /\ HasStation(call.graph, p[i + 1][1])}
       IN  /\ Len(result.segments) = Cardinality(shown)
           /\ \A i \in shown :
                 LET s == result.segments[Cardinality({j \in shown : j <= i})] IN
                 /\ s.from = p[i][1] /\ s.to = p[i + 1][1]
                 /\ p[i][2] + s.duration = p[i + 1][2]

P == INSTANCE Pathfinder WITH answered <- pc = "done"

(* The search keeps the promise of IPathfinder: it returns, and what it     *)
(* returns is a shortest ride, or not found exactly when there is none.     *)
ImplementsPathfinder == P!Spec
=============================================================================

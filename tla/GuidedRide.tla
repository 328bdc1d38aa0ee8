----------------------------- MODULE GuidedRide -----------------------------
(***************************************************************************)
(* A*'s answer held against every possible ride, as ShortestRide does for   *)
(* Dijkstra.  Two promises are told apart: whatever the estimates are, a    *)
(* route that is found is a ride, and one is found wherever a rider can go; *)
(* that no rider is faster needs estimates that never drop by more than the *)
(* edge ridden.  For every graph both are proved in AStarProofs.            *)
(***************************************************************************)
EXTENDS AStar

CONSTANT MaxHops \* bound on the rider, for TLC

VARIABLE rider

rideVars == <<call, pc, open, gScore, parent, closed, curr, edge, path, result, rider>>

RideInit == Init /\ rider = [at |-> call.start, time |-> 0, hops |-> 0]

Compute == Next /\ UNCHANGED rider

Ride ==
    /\ pc = "done" /\ rider.hops < MaxHops
    /\ \E e \in OutEdges(call.graph, rider.at) :
          rider' = [at |-> e.target, time |-> rider.time + e.weight, hops |-> rider.hops + 1]
    /\ UNCHANGED vars

RideNext == Compute \/ Ride

RideSpec == RideInit /\ [][RideNext]_rideVars

\* the call runs to its return; no rider has to ride
FairRideSpec == RideSpec /\ WF_rideVars(Compute)

-----------------------------------------------------------------------------
Searched == /\ HasStation(call.graph, call.start) /\ HasStation(call.graph, call.end)
            /\ call.start # call.end

\* Along an edge the estimate drops by no more than the edge takes.
Consistent(c) ==
    /\ HasStation(c.graph, c.end)
    /\ \A u \in Id : \A e \in OutEdges(c.graph, u) :
          Heuristic(c, u) <= e.weight + Heuristic(c, e.target)

(* Where a rider can go a route is found, also with estimates that are      *)
(* wrong; with consistent ones no rider is faster.                          *)
GuidedIsShortest ==
    pc = "done" /\ Searched /\ rider.at = call.end
    => result.found /\ (Consistent(call) => result.total <= rider.time)

AnswerIsRide ==
    pc = "done" /\ Searched /\ result.found
    => IsRide(call.graph, result, call.start, call.end)

-----------------------------------------------------------------------------
(* Why it works: the inductive invariant, by parts.                         *)

Edges == Neighbors(call.graph, curr.id)

Frontier == DOMAIN gScore \ closed

\* the f score of a station that has been met
F(v) == FScore(v, gScore[v])

Running == pc \in {"loop", "relax"}

(* Types of the locals; every cursor stays inside what it points into.      *)
TypeOK ==
    /\ IsCall(call)
    /\ pc \in {"call", "loop", "relax", "trace", "done"}
    /\ open \subseteq Entry
    /\ gScore \in [DOMAIN gScore -> Nat] /\ DOMAIN gScore \subseteq Id
    /\ parent \in [DOMAIN parent -> Id] /\ DOMAIN parent \subseteq Id
    /\ closed \subseteq Id
    /\ curr \in Entry
    /\ edge \in Nat \ {0}
    /\ pc = "relax" => edge <= Len(Edges) + 1
    /\ path \in Seq(Id)
    /\ pc = "trace" => path # <<>>

Untouched == pc = "call" => open = {} /\ gScore = <<>> /\ parent = <<>> /\ closed = {}

Sourced == pc \in {"loop", "relax", "trace"} =>
    /\ Searched
    /\ call.start \in DOMAIN gScore /\ gScore[call.start] = 0

\* every entry was pushed for an f score that has not grown since, and every
\* open station has one for the f score it has
HeapCovers ==
    /\ \A e \in open : e.id \in DOMAIN gScore /\ F(e.id) <= e.cost
    /\ Running => \A v \in Frontier : [cost |-> F(v), id |-> v] \in open

\* what a closed station may promise of an edge that was looked at: the target
\* was met, and with consistent estimates at no more than this edge's cost,
\* even if the target was closed before
Looked(u, e) ==
    /\ e.target \in DOMAIN gScore
    /\ Consistent(call) => gScore[e.target] <= gScore[u] + e.weight

Expanded ==
    /\ closed \subseteq DOMAIN gScore
    /\ \A u \in closed \ {call.end} :
          (pc = "relax" => u # curr.id) =>
             \A i \in DOMAIN Neighbors(call.graph, u) :
                Looked(u, Neighbors(call.graph, u)[i])
    /\ pc = "relax" =>
          /\ curr.id \in closed /\ curr.cost = gScore[curr.id]
          /\ Consistent(call) => \A u \in closed : F(u) <= F(curr.id)
          /\ \A i \in 1..edge - 1 : Looked(curr.id, Edges[i])
    /\ Running => call.end \notin closed

\* Consistent estimates close stations in order of f.
ClosedInOrder ==
    Consistent(call) => \A u \in closed, v \in Frontier : F(u) <= F(v)

ParentEdge ==
    \A v \in DOMAIN parent :
       \E e \in OutEdges(call.graph, parent[v]) :
          e.target = v /\ gScore[v] = gScore[parent[v]] + e.weight

Arrived == call.end \in closed /\ curr.id = call.end /\ curr.cost = gScore[call.end]

\* the walk back so far
Tracing ==
    pc = "trace" =>
       /\ Arrived
       /\ path[1] = call.end
       /\ \A i \in 1..Len(path) - 1 :
             path[i] \in DOMAIN parent /\ path[i + 1] = parent[path[i]]

Answered ==
    pc = "done" /\ Searched =>
       /\ result.found => Arrived /\ result.total = curr.cost
       /\ ~result.found => Frontier = {} /\ call.end \notin DOMAIN gScore
       /\ call.start \in DOMAIN gScore /\ gScore[call.start] = 0

(* Together they are inductive, for any estimates.                          *)
GuidedInv ==
    /\ TypeOK /\ HasParent /\ ClosedInOrder
    /\ Untouched /\ Sourced /\ HeapCovers /\ Expanded /\ ParentEdge
    /\ Tracing /\ Answered /\ AnswerIsRide

(* A rider stays behind the g scores, or has the route ahead by more than   *)
(* the estimate of what is left.                                            *)
RiderInv ==
    /\ rider.at \in Id /\ rider.time \in Nat
    /\ pc # "done" => rider.at = call.start /\ rider.time = 0
    /\ pc = "done" /\ Searched =>
          /\ ~result.found => rider.at \in DOMAIN gScore
          /\ Consistent(call) =>
                \/ rider.at \in DOMAIN gScore /\ gScore[rider.at] <= rider.time
                \/ result.found /\ gScore[call.end] <= FScore(rider.at, rider.time)
=============================================================================

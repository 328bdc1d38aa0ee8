---------------------------- MODULE ShortestRide ----------------------------
(***************************************************************************)
(* Dijkstra's answer held against every possible ride.  Once the call has   *)
(* returned, a rider leaves start and follows whatever edges they like, at  *)
(* most MaxHops of them; no rider reaches end before the route does.  This  *)
(* says "shortest path" without a second shortest-path algorithm, and for   *)
(* every graph and every MaxHops it can be proved (DijkstraProofs).         *)
(***************************************************************************)
EXTENDS Dijkstra

CONSTANT MaxHops \* bound on the rider, for TLC

VARIABLE rider

rideVars == <<call, pc, pq, dist, parent, visited, curr, edge, path, result, rider>>

RideInit == Init /\ rider = [at |-> call.start, time |-> 0, hops |-> 0]

Compute == Next /\ UNCHANGED rider

Ride ==
    /\ pc = "done" /\ rider.hops < MaxHops
    /\ \E e \in OutEdges(call.graph, rider.at) :
          rider' = [at |-> e.target, time |-> rider.time + e.weight, hops |-> rider.hops + 1]
    /\ UNCHANGED vars

RideNext == Compute \/ Ride

RideSpec == RideInit /\ [][RideNext]_rideVars

\* the call runs to its return; no rider has to ride
FairRideSpec == RideSpec /\ WF_rideVars(Compute)

-----------------------------------------------------------------------------
Searched == /\ HasStation(call.graph, call.start) /\ HasStation(call.graph, call.end)
            /\ call.start # call.end

(* No rider beats the route, and where a rider can go a route is found.     *)
NoFasterRide ==
    pc = "done" /\ Searched /\ rider.at = call.end
    => result.found /\ result.total <= rider.time

(* The route is not a promise but a ride: it leaves start at time 0, every  *)
(* hop is an edge of the graph and takes that edge's weight, and it arrives *)
(* at end at the total.  Lines 92-107 rebuild it from parent and dist after *)
(* the search, and dist must not have moved since parent was written.       *)
AnswerIsRide ==
    pc = "done" /\ Searched /\ result.found
    => IsRide(call.graph, result, call.start, call.end)

-----------------------------------------------------------------------------
(* Why it works: the inductive invariant, by parts.                         *)

Running == pc \in {"loop", "relax"}

\* what is known before the first push
Untouched == pc = "call" => pq = {} /\ dist = <<>> /\ parent = <<>> /\ visited = {}

Sourced == pc \in {"loop", "relax", "trace"} =>
    /\ Searched
    /\ call.start \in DOMAIN dist /\ dist[call.start] = 0

\* the heap and the distance map agree
HeapCovers ==
    /\ \A e \in pq : e.id \in DOMAIN dist /\ dist[e.id] <= e.cost
    /\ Running => \A v \in Frontier : [cost |-> dist[v], id |-> v] \in pq

RelaxedEdge(u, e) == e.target \in DOMAIN dist /\ dist[e.target] <= dist[u] + e.weight

\* every settled station but end, and but the one at work, has been expanded
Expanded ==
    /\ visited \subseteq DOMAIN dist
    /\ \A u \in visited \ {call.end} :
          (pc = "relax" => u # curr.id) =>
             \A i \in DOMAIN Neighbors(call.graph, u) :
                RelaxedEdge(u, Neighbors(call.graph, u)[i])
    /\ pc = "relax" =>
          /\ curr.id \in visited /\ curr.cost = dist[curr.id]
          /\ \A u \in visited : dist[u] <= curr.cost
          /\ \A i \in 1..edge - 1 : RelaxedEdge(curr.id, Edges[i])
    /\ Running => call.end \notin visited

\* a parent is one edge away, at exactly the difference of the distances
ParentEdge ==
    \A v \in DOMAIN parent :
       \E e \in OutEdges(call.graph, parent[v]) :
          e.target = v /\ dist[v] = dist[parent[v]] + e.weight

Arrived == call.end \in visited /\ curr.id = call.end /\ curr.cost = dist[call.end]

\* the walk back so far
Tracing ==
    pc = "trace" =>
       /\ Arrived
       /\ path[1] = call.end
       /\ \A i \in 1..Len(path) - 1 :
             path[i] \in DOMAIN parent /\ path[i + 1] = parent[path[i]]

Answered ==
    pc = "done" /\ Searched =>
       /\ result.found => Arrived /\ result.total = curr.cost
       /\ ~result.found => Frontier = {} /\ call.end \notin DOMAIN dist
                           /\ call.start \in DOMAIN dist
       /\ call.start \in DOMAIN dist /\ dist[call.start] = 0

(* Together they are inductive, and everything above follows from them.     *)
SearchInv ==
    /\ TypeOK /\ HasParent /\ SettledFirst
    /\ Untouched /\ Sourced /\ HeapCovers /\ Expanded /\ ParentEdge
    /\ Tracing /\ Answered /\ AnswerIsRide

(* The distances are a potential the rider cannot outrun.                   *)
RiderInv ==
    /\ rider.at \in Id /\ rider.time \in Nat
    /\ pc # "done" => rider.at = call.start /\ rider.time = 0
    /\ pc = "done" /\ Searched =>
          \/ rider.at \in DOMAIN dist /\ dist[rider.at] <= rider.time
          \/ result.found /\ dist[call.end] <= rider.time
=============================================================================

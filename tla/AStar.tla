------------------------------- MODULE AStar -------------------------------
(***************************************************************************)
(* AStar::compute (backend/src/core/algorithms/AStar.cpp): Dijkstra's loop  *)
(* with the heap ordered by g + h.  A station is closed the first time it   *)
(* is popped and never reopened, so the answer is only right when h is      *)
(* consistent, not merely admissible.                                       *)
(***************************************************************************)
EXTENDS RouteResult

CONSTANTS
    Calls,
    TravelTime(_, _) \* estimate_travel_time_seconds of the straight line

ASSUME CallsAssumption == \A c \in Calls : IsCall(c)
ASSUME TravelTimeAssumption == \A p, q \in Position : TravelTime(p, q) \in Nat
ASSUME SamePlaceAssumption == \A p \in Position : TravelTime(p, p) = 0

VARIABLES
    call, pc,
    open,   \* the min-heap of [cost |-> f, id] entries
    gScore, \* cost of the best known path from start
    parent,
    closed, \* fully processed stations
    curr,   \* the station being expanded, with its g score (curr_g)
    edge, path, result

vars == <<call, pc, open, gScore, parent, closed, curr, edge, path, result>>

Entry == [cost: Nat, id: Id]

(* 0 when the destination or the station has no coordinates                 *)
Heuristic(c, id) ==
    LET to == c.graph.station[c.end]
    IN  IF ~HasCoordinates(to) \/ ~HasStation(c.graph, id) THEN 0
        ELSE IF ~HasCoordinates(c.graph.station[id]) THEN 0
        ELSE TravelTime(c.graph.station[id].pos, to.pos)

Init ==
    /\ call \in Calls
    /\ pc = "call"
    /\ open = {} /\ gScore = <<>> /\ parent = <<>> /\ closed = {}
    /\ curr = [cost |-> 0, id |-> call.start] /\ edge = 1
    /\ path = <<>>
    /\ result = NoRoute

Return(r) == pc' = "done" /\ result' = r

AnswerTrivial ==
    /\ pc = "call" /\ call.start = call.end
    /\ Return(TrivialRoute(call.start))
    /\ UNCHANGED <<call, open, gScore, parent, closed, curr, edge, path>>

AnswerUnknown ==
    /\ pc = "call" /\ call.start # call.end
    /\ ~HasStation(call.graph, call.start) \/ ~HasStation(call.graph, call.end)
    /\ Return(NoRoute)
    /\ UNCHANGED <<call, open, gScore, parent, closed, curr, edge, path>>

PushSource ==
    /\ pc = "call" /\ call.start # call.end
    /\ HasStation(call.graph, call.start) /\ HasStation(call.graph, call.end)
    /\ gScore' = Put(gScore, call.start, 0)
    /\ open' = {[cost |-> Heuristic(call, call.start), id |-> call.start]}
    /\ pc' = "loop"
    /\ UNCHANGED <<call, parent, closed, curr, edge, path, result>>

-----------------------------------------------------------------------------
IsTop(top) == \A e \in open : \/ top.cost < e.cost
                              \/ top.cost = e.cost /\ top.id <= e.id

SkipStale ==
    \E top \in open :
       /\ pc = "loop" /\ IsTop(top)
       /\ top.id \in closed
       /\ open' = open \ {top}
       /\ UNCHANGED <<call, pc, gScore, parent, closed, curr, edge, path, result>>

StartExpanding == pc' = "relax" /\ edge' = 1 /\ UNCHANGED path

StartTracing == pc' = "trace" /\ path' = <<call.end>> /\ UNCHANGED edge

Close ==
    \E top \in open :
       /\ pc = "loop" /\ IsTop(top)
       /\ top.id \notin closed
       /\ open' = open \ {top}
       /\ closed' = closed \cup {top.id}
       /\ curr' = [cost |-> gScore[top.id], id |-> top.id]
       /\ IF top.id = call.end THEN StartTracing ELSE StartExpanding
       /\ UNCHANGED <<call, gScore, parent, result>>

\* no return when nothing was found
ExhaustedTracesMutant ==
    /\ pc = "loop" /\ open = {}
    /\ StartTracing
    /\ UNCHANGED <<call, open, gScore, parent, closed, curr, result>>

Exhausted ==
    /\ pc = "loop" /\ open = {}
    /\ Return(NoRoute)
    /\ UNCHANGED <<call, open, gScore, parent, closed, curr, edge, path>>

-----------------------------------------------------------------------------
ImprovesOnTiesMutant(id, g) == id \notin DOMAIN gScore \/ g <= gScore[id]

ImprovesFirstWinsMutant(id, g) == id \notin DOMAIN gScore

Improves(id, g) == id \notin DOMAIN gScore \/ g < gScore[id]

FScoreTwiceMutant(id, g) == g + 2 * Heuristic(call, id)

FScore(id, g) == g + Heuristic(call, id)

ExpandEdge ==
    LET edges == Neighbors(call.graph, curr.id)
        e     == edges[edge]
        g     == curr.cost + e.weight
    IN  /\ pc = "relax" /\ edge <= Len(edges)
        /\ IF e.target \notin closed /\ Improves(e.target, g)
           THEN /\ gScore' = Put(gScore, e.target, g)
                /\ parent' = Put(parent, e.target, curr.id)
                /\ open' = open \cup {[cost |-> FScore(e.target, g), id |-> e.target]}
           ELSE UNCHANGED <<gScore, parent, open>>
        /\ edge' = edge + 1
        /\ UNCHANGED <<call, pc, closed, curr, path, result>>

NextPop ==
    /\ pc = "relax" /\ edge > Len(Neighbors(call.graph, curr.id))
    /\ pc' = "loop"
    /\ UNCHANGED <<call, open, gScore, parent, closed, curr, edge, path, result>>

-----------------------------------------------------------------------------
Current == path[Len(path)]

TraceBack ==
    /\ pc = "trace" /\ Current # call.start
    /\ path' = Append(path, parent[Current])
    /\ UNCHANGED <<call, pc, open, gScore, parent, closed, curr, edge, result>>

Reversed(s) == [i \in 1..Len(s) |-> s[Len(s) + 1 - i]]

ReturnRoute ==
    /\ pc = "trace" /\ Current = call.start
    /\ Return(Route(call.graph, gScore, Reversed(path), curr.cost))
    /\ UNCHANGED <<call, open, gScore, parent, closed, curr, edge, path>>

-----------------------------------------------------------------------------
Next == \/ AnswerTrivial \/ AnswerUnknown \/ PushSource
        \/ SkipStale \/ Close \/ Exhausted
        \/ ExpandEdge \/ NextPop
        \/ TraceBack \/ ReturnRoute

Spec == Init /\ [][Next]_vars

FairSpec == Spec /\ WF_vars(Next)

-----------------------------------------------------------------------------
(* As in Dijkstra: the walk back never asks for a parent that is not there, *)
(* and every station on it is closed, so that the costs in raw_path, read   *)
(* from g_score after the search, are the ones the path was built with.     *)
HasParent ==
    /\ DOMAIN parent = DOMAIN gScore \ {call.start}
    /\ \A v \in DOMAIN parent : parent[v] \in closed
    /\ pc = "trace" => Current \in (DOMAIN parent \cup {call.start}) \cap closed

P == INSTANCE Pathfinder WITH answered <- pc = "done"

(* With coordinates for every station, or for none, A* keeps the promise of *)
(* IPathfinder: it returns, and what it returns is a shortest ride.         *)
ImplementsPathfinder == P!Spec

D == INSTANCE Dijkstra WITH pq <- open, dist <- gScore, visited <- closed

\* h is 0 throughout
Blind(c) ==
    c.end \in DOMAIN c.graph.station =>
       \/ ~HasCoordinates(c.graph.station[c.end])
       \/ \A id \in DOMAIN c.graph.station \ {c.end} : ~HasCoordinates(c.graph.station[id])

(* docs/ALGORITHMS.md "Fallback Behavior": without coordinates A* IS        *)
(* Dijkstra, step for step, down to the order in which equals are popped.   *)
DegradesToDijkstra ==
    /\ Blind(call) => D!Fresh
    /\ [][Blind(call) => D!Next]_vars

\* h never exceeds the true remaining cost
Admissible(c) ==
    \A id \in DOMAIN c.graph.station :
       \A d \in P!Distance(c.graph, id)[c.end] : Heuristic(c, id) <= d

(* docs/ALGORITHMS.md "Admissibility" and the AStarTest that asks A* with   *)
(* an admissible heuristic for Dijkstra's cost: the total is the distance.  *)
OptimalWhenAdmissible ==
    pc = "done" /\ result.found /\ call.start # call.end /\ Admissible(call)
    => result.total \in P!Distance(call.graph, call.start)[call.end]
=============================================================================

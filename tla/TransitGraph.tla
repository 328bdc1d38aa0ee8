---------------------------- MODULE TransitGraph ----------------------------
(***************************************************************************)
(* The metro network: Graph, Station, WeightedEdge (backend/src/core/graph) *)
(* A graph is a value: two maps keyed by station id.  Nothing ties them     *)
(* together: add_connection accepts ids no station was added for, and the   *)
(* searches must cope with that.                                            *)
(***************************************************************************)
EXTENDS Naturals, Sequences

CONSTANTS
    Id,        \* station ids (uint64_t); the heaps order equal costs by id
    Name,      \* station names
    Line,      \* line ids, NoLine stands for the empty string
    NoLine,
    Position,  \* places on the map
    NoPosition \* latitude = longitude = 0: "no coordinates"

ASSUME IdAssumption == Id \subseteq Nat

ConnectionType == {"RIDE", "TRANSFER", "WALK"}

Station == [name: Name, line: Line \cup {NoLine}, pos: Position \cup {NoPosition}]

WeightedEdge == [target: Id, weight: Nat, type: ConnectionType]

IsGraph(g) ==
    /\ DOMAIN g.station \subseteq Id /\ g.station \in [DOMAIN g.station -> Station]
    /\ DOMAIN g.adjacency \subseteq Id
    /\ g.adjacency \in [DOMAIN g.adjacency -> Seq(WeightedEdge)]

EmptyGraph == [station |-> <<>>, adjacency |-> <<>>]

-----------------------------------------------------------------------------
(* An std::unordered_map is a function on the keys it holds; Put is         *)
(* operator[] followed by an assignment.                                    *)
Put(f, k, v) == [x \in DOMAIN f \cup {k} |-> IF x = k THEN v ELSE f[x]]

HasStation(g, id) == id \in DOMAIN g.station

HasCoordinates(s) == s.pos # NoPosition

\* get_neighbors answers a shared empty vector for an id without edges
Neighbors(g, id) == IF id \in DOMAIN g.adjacency THEN g.adjacency[id] ELSE <<>>

OutEdges(g, id) == {Neighbors(g, id)[i] : i \in DOMAIN Neighbors(g, id)}

AddConnection(g, from, e) ==
    [g EXCEPT !.adjacency = Put(@, from, Append(Neighbors(g, from), e))]
=============================================================================

------------------------- MODULE MCStationController -------------------------
(***************************************************************************)
(* Five stations: any of a few short names on each, accents and capitals    *)
(* among them, and a fixed pair of edges for the map.                       *)
(***************************************************************************)
EXTENDS StationController

MCId == 1..6

\* e, \'ea, Ea, the ligature ae with \'e, aaaE
MCName == {<<101>>, <<233, 97>>, <<69, 97>>, <<230, 233>>, <<97, 97, 97, 69>>}

LineOf == <<"l1", "l2", "l1", "l2", "l3">>

PlaceOf == <<"p", "p", NoPosition, "p", "p">>

MCAdjacency ==
    <<  << [target |-> 2, weight |-> 1, type |-> "RIDE"], [target |-> 3, weight |-> 1, type |-> "RIDE"],
           [target |-> 4, weight |-> 1, type |-> "WALK"] >>,
        << [target |-> 6, weight |-> 1, type |-> "RIDE"], [target |-> 1, weight |-> 1, type |-> "RIDE"] >> >>

MCGraphs ==
    {[station |-> [id \in 1..4 |-> [name |-> n[id], line |-> LineOf[id], pos |-> PlaceOf[id]]],
      adjacency |-> MCAdjacency] : n \in [1..4 -> MCName]}

MCRequests ==
    {[path |-> p] : p \in {"stations", "connections"}}
    \cup {[path |-> "station", id |-> i] : i \in {1, 5}}
    \cup {[path |-> "search", q |-> q, limit |-> l] : q \in {<<>>, <<101>>, <<201, 65>>}, l \in {0, 2}}
=============================================================================

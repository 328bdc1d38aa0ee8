------------------------------ MODULE MCAStar ------------------------------
(***************************************************************************)
(* A* on small networks laid out on a line.  Every station has a place and  *)
(* no edge is faster than the straight line at MetroSpeed; the graph may    *)
(* know the places of all, of none or of some of the stations.              *)
(***************************************************************************)
EXTENDS GuidedRide, TLC

MCId == 1..4
MCMaxHops == 3
MCPosition == 0..5
MetroSpeed == 2

Gap(p, q) == IF p < q THEN q - p ELSE p - q

\* static_cast<uint64_t>: the estimate is rounded down
MCTravelTime(p, q) == Gap(p, q) \div MetroSpeed

Fastest(p, q) == (Gap(p, q) + MetroSpeed - 1) \div MetroSpeed

LineOf == <<"l1", NoLine, "l2", "l2">>

\* the true places; the destination is station 4
Layouts == {<<4, p, q, 0>> : p \in {1, 4, 5}, q \in {1, 4, 5}}

Known(at, ids) ==
    [id \in MCId |-> [name |-> "n", line |-> LineOf[id],
                      pos |-> IF id \in ids THEN at[id] ELSE NoPosition]]

\* u's edges to ts: c[i] seconds slower than the straight line, Absent for none
Absent == 2

Fan(at, u, ts, c) ==
    LET edges == [i \in 1..Len(ts) |->
                    [target |-> ts[i], weight |-> Fastest(at[u], at[ts[i]]) + c[i],
                     type |-> IF c[i] = Absent THEN "WALK" ELSE "RIDE"]]
        Present(e) == e.type # "WALK"
    IN  SelectSeq(edges, Present)

Slower(n) == [1..n -> 0..Absent]

\* maps is a set of <<layout, the stations whose place the graph knows>>
CallsOn(maps) ==
    {[graph |-> [station   |-> Known(m[1], m[2]),
                 adjacency |-> << Fan(m[1], 1, <<2, 3, 4>>, a), Fan(m[1], 2, <<4, 3>>, b),
                                  Fan(m[1], 3, <<2, 4>>, c) >>],
      start |-> 1, end |-> 4]
        : m \in maps, a \in Slower(3), b \in Slower(2), c \in Slower(2)}

\* bad and trivial calls, and an edge to an id without a station
OtherCalls(ids) ==
    {[graph |-> [station   |-> [id \in {1, 4} |-> Known(<<4, 4, 4, 0>>, ids)[id]],
                 adjacency |-> (1 :> <<[target |-> 2, weight |-> 1, type |-> "WALK"]>>
                                @@ 2 :> t)],
      start |-> s, end |-> e]
        : s \in {1, 3, 4}, e \in {1, 3, 4},
          t \in {<<>>, <<[target |-> 4, weight |-> 1, type |-> "RIDE"]>>}}

FarLayout == <<4, 4, 4, 0>>

FullMaps  == Layouts \X {MCId}
BlindMaps == {FarLayout} \X {{}, {1, 2, 3}}

AllOrNoneCalls == CallsOn(FullMaps \cup BlindMaps) \cup OtherCalls(MCId) \cup OtherCalls({})
PartialCalls   == CallsOn({FarLayout} \X {{1, 2, 4}, {1, 3, 4}})
=============================================================================

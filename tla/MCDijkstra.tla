----------------------------- MODULE MCDijkstra -----------------------------
(***************************************************************************)
(* Dijkstra on every small network.  Edges into start and out of end are    *)
(* never relaxed with effect, so the big family leaves them out; the other  *)
(* families add parallel edges, loops, ids without a station and bad calls. *)
(***************************************************************************)
EXTENDS ShortestRide

MCId == 1..4
MaxWeight == 2
MCMaxHops == 3

AStation(l) == [name |-> "n", line |-> l, pos |-> NoPosition]

\* one line per station, but one station whose line id is empty
LineOf == <<"l1", NoLine, "l2", "l2">>

Stations(S) == [id \in S |-> AStation(LineOf[id])]

EdgeTo(v, w) == [target |-> v, weight |-> w, type |-> IF w = 0 THEN "TRANSFER" ELSE "RIDE"]

\* The edges u has towards the later entries of ts: each absent or of a weight in ws.
Fans(ts, ws) ==
    LET Absent == MaxWeight + 1
        choice == [1..Len(ts) -> ws \cup {Absent}]
        Present(x) == x.weight # Absent
    IN  {SelectSeq([i \in 1..Len(ts) |-> EdgeTo(ts[i], c[i])], Present) : c \in choice}

FourStations ==
    {[graph |-> [station |-> Stations(1..4), adjacency |-> <<a, b, c>>],
      start |-> 1, end |-> 4]
        : a \in Fans(<<2, 3, 4>>, 0..MaxWeight), b \in Fans(<<4, 3>>, {0, 1}), c \in Fans(<<2, 4>>, {0, 2})}

\* up to two edges per station, parallel edges, loops and edges back to start;
\* station 2 may be missing although edges lead there
Twos == {<<>>} \cup {<<x>> : x \in [target : 1..3, weight : {0, 1}, type : {"RIDE"}]}
        \cup {<<x, y>> : x \in [target : {2, 3}, weight : {1, 2}, type : {"RIDE"}],
                         y \in [target : 1..3, weight : {0, 1}, type : {"TRANSFER"}]}

Crooked ==
    {[graph |-> [station |-> Stations(S), adjacency |-> <<a, b>>], start |-> 1, end |-> 3]
        : S \in {{1, 3}, {1, 2, 3}}, a \in Twos, b \in Twos}

\* ways of three hops through an id without a station
Gaps ==
    {[graph |-> [station |-> Stations(S), adjacency |-> <<a, b, c>>], start |-> 1, end |-> 4]
        : S \in {{1, 3, 4}, {1, 2, 4}}, a \in Fans(<<2, 3>>, {0, 1}),
          b \in Fans(<<3, 4>>, {1, 2}), c \in Fans(<<4, 2>>, {0, 1})}

BadCalls ==
    {[graph |-> [station |-> Stations(1..2), adjacency |-> << <<EdgeTo(3, 1)>> >>],
      start |-> s, end |-> e] : s \in 1..3, e \in 1..3}

\* edges leave every station, end included, which only matters to the riders
Pairs(es) == {<<>>} \cup {<<x>> : x \in es} \cup {<<x, y>> : x \in es, y \in es}

EdgesTo(ws, ts) == {[target |-> v, weight |-> w, type |-> "RIDE"] : v \in ts, w \in ws}

RoundTrips ==
    {[graph |-> [station |-> Stations(S), adjacency |-> <<a, b, c>>], start |-> 1, end |-> 3]
        : S \in {{1, 3}, {1, 2, 3}}, a \in Pairs(EdgesTo({0, 1, 2}, {2, 3})),
          b \in Pairs(EdgesTo({0, 1}, {1, 3})), c \in {<<>>, <<EdgeTo(2, 0)>>}}

MCCalls == FourStations \cup Crooked \cup RoundTrips \cup Gaps \cup BadCalls
=============================================================================

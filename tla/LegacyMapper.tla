---------------------------- MODULE LegacyMapper ----------------------------
(***************************************************************************)
(* The first mapper, a console program (source/main.cpp and                 *)
(* source/station_parser.cpp): it reads both tables, then asks for two      *)
(* stations and prints the way, until the user leaves.  Its maps are        *)
(* std::unordered_maps indexed with [], which inserts what it does not      *)
(* find.                                                                    *)
(***************************************************************************)
EXTENDS Naturals, FiniteSets, SequencesExt

CONSTANTS
    Id,         \* ids in the tables, and ids users enter
    Files,      \* [connections, stations, ended]: the rows of both tables (None for a file
                \* that cannot be read), and which of them end with a newline
    None,
    MaxSearches \* bound on the searches of a behaviour

\* 64-bit ids, 0 being what strtoul makes of an empty field
ASSUME LegacyIdAssumption == Id \subseteq Nat /\ 0 \in Id /\ IsFiniteSet(Id)

ASSUME LegacyFilesAssumption ==
    \A f \in Files : f.connections = None \/ f.connections \in Seq([from : Id, to : Id, time : Nat])

VARIABLES
    file, pc,
    connections, \* connections_hashmap: from -> to -> time
    stations,    \* stations_hashmap: id -> [name, line], line being line_name
    chosen,      \* the ids entered so far for this search
    open, closed, parent, \* open: id -> cost; closed: <<id, cost>> in the order visited
    path, legs,  \* the way found, and the directions printed for it
    searches

search == <<open, closed, parent>>
vars == <<file, pc, connections, stations, chosen, search, path, legs, searches>>

Put(f, k, v) == [x \in DOMAIN f \cup {k} |-> IF x = k THEN v ELSE f[x]]

Blank == [name |-> "", line |-> ""]

Init ==
    /\ file \in Files /\ pc = "connections"
    /\ connections = <<>> /\ stations = <<>>
    /\ chosen = <<>> /\ open = <<>> /\ closed = <<>> /\ parent = <<>>
    /\ path = <<>> /\ legs = <<>> /\ searches = 0

-----------------------------------------------------------------------------
(* Reading the tables.  After a newline that ends a table the loop runs     *)
(* once more: getline empties the first field and leaves the others as the  *)
(* row before had them, or empty under a header alone.                      *)

\* of two rows with the same ends the later one stays
Linked(rows) ==
    LET From(id) == {i \in DOMAIN rows : rows[i].from = id}
    IN  [id \in {rows[i].from : i \in DOMAIN rows} |->
            [to \in {rows[i].to : i \in From(id)} |-> rows[Max({i \in From(id) : rows[i].to = to})].time]]

\* what is read of a table, ghost being the row read past its end
Read(rows, ended, ghost) == IF ended THEN Append(rows, ghost) ELSE rows

\* one more connection, from 0 to where the last one went
GhostRow(rows) ==
    IF rows = <<>> THEN [from |-> 0, to |-> 0, time |-> 0] ELSE [Last(rows) EXCEPT !.from = 0]

\* the last station once more, without its name; the id of a header is 0
Nameless(rows) ==
    IF rows = <<>> THEN [id |-> 0, name |-> "", line |-> ""] ELSE [Last(rows) EXCEPT !.name = ""]

SetConnections ==
    /\ pc = "connections"
    /\ IF file.connections = None
       THEN pc' = "crashed" /\ UNCHANGED connections
       ELSE /\ pc' = "stations"
            /\ connections' = Linked(Read(file.connections, "connections" \in file.ended,
                                          GhostRow(file.connections)))
    /\ UNCHANGED <<file, stations, chosen, search, path, legs, searches>>

\* insert keeps the row that is there
Inserted(m, row) == IF row.id \in DOMAIN m THEN m ELSE Put(m, row.id, [name |-> row.name, line |-> row.line])

SetStations ==
    /\ pc = "stations"
    /\ IF file.stations = None
       THEN pc' = "crashed" /\ UNCHANGED stations
       ELSE /\ pc' = "menu"
            /\ stations' = FoldLeft(Inserted, <<>>,
                              Read(file.stations, "stations" \in file.ended, Nameless(file.stations)))
    /\ UNCHANGED <<file, connections, chosen, search, path, legs, searches>>

-----------------------------------------------------------------------------
(* The menu and choose_station_id                                           *)

NewSearch ==
    /\ pc = "menu" /\ searches < MaxSearches /\ searches' = searches + 1
    /\ pc' = "choose" /\ chosen' = <<>>
    /\ open' = <<>> /\ closed' = <<>> /\ parent' = <<>> /\ path' = <<>> /\ legs' = <<>>
    /\ UNCHANGED <<file, connections, stations>>

\* 2 in the menu, or n after an unknown id
Leave ==
    /\ pc \in {"menu", "retry"} /\ pc' = "exited"
    /\ UNCHANGED <<file, connections, stations, chosen, search, path, legs, searches>>

\* valid_int_input never clears the error: it asks again for ever
NotANumber ==
    /\ pc \in {"menu", "choose"} /\ pc' = "spinning"
    /\ UNCHANGED <<file, connections, stations, chosen, search, path, legs, searches>>

Choose(id) ==
    /\ pc = "choose"
    /\ IF id \notin DOMAIN stations
       THEN pc' = "retry" /\ UNCHANGED <<chosen, open, path>>
       ELSE /\ chosen' = Append(chosen, id)
            /\ IF chosen = <<>> THEN pc' = "choose" /\ UNCHANGED <<open, path>>
               ELSE IF chosen[1] = id
                    THEN pc' = "display" /\ path' = <<<<id, 0>>>> /\ UNCHANGED open
                    ELSE pc' = "search" /\ open' = Put(<<>>, chosen[1], 0) /\ UNCHANGED path
    /\ UNCHANGED <<file, connections, stations, closed, parent, legs, searches>>

Again ==
    /\ pc = "retry" /\ pc' = "choose"
    /\ UNCHANGED <<file, connections, stations, chosen, search, path, legs, searches>>

-----------------------------------------------------------------------------
(* compute_travel.  std::sort puts equal costs in any order.                *)

Start == chosen[1]
End   == chosen[2]

Children(id) == IF id \in DOMAIN connections THEN connections[id] ELSE <<>>

ClosedIds == {closed[i][1] : i \in DOMAIN closed}

CheaperNeverMutant(id, cost) == id \notin DOMAIN open

Cheaper(id, cost) == id \notin DOMAIN open \/ open[id] > cost

Cheapest(id) == \A other \in DOMAIN open : open[id] <= open[other]

Expand(id) ==
    LET cost == open[id]
        rest == [x \in DOMAIN open \ {id} |-> open[x]]
        to   == Children(id)
        new  == {x \in DOMAIN to \ (ClosedIds \cup {id}) : Cheaper(x, cost + to[x])}
    IN  /\ pc = "search" /\ id \in DOMAIN open /\ Cheapest(id) /\ id # End
        /\ closed' = Append(closed, <<id, cost>>)
        /\ open' = [x \in DOMAIN rest \cup new |-> IF x \in new THEN cost + to[x] ELSE rest[x]]
        /\ parent' = [x \in DOMAIN parent \cup new |-> IF x \in new THEN id ELSE parent[x]]
        /\ UNCHANGED <<file, pc, connections, stations, chosen, path, legs, searches>>

ParentOf(id) == IF id \in DOMAIN parent THEN parent[id] ELSE 0

\* one pass backwards over closed, prepending each next parent
Back(visited, way) == IF visited[1] = ParentOf(way[1][1]) THEN <<visited>> \o way ELSE way

WalkBack(last) ==
    LET n == Len(closed)
        way[k \in 0..n] == IF k = 0 THEN <<last>> ELSE Back(closed[n + 1 - k], way[k - 1])
    IN  way[n]

Arrive ==
    /\ pc = "search" /\ End \in DOMAIN open /\ Cheapest(End)
    /\ pc' = "display" /\ path' = WalkBack(<<End, open[End]>>)
    /\ UNCHANGED <<file, connections, stations, chosen, search, legs, searches>>

\* an empty path, of which compute_and_display_travel reads the first element
Unreachable ==
    /\ pc = "search" /\ open = <<>> /\ pc' = "crashed"
    /\ UNCHANGED <<file, connections, stations, chosen, search, path, legs, searches>>

-----------------------------------------------------------------------------
(* compute_and_display_travel                                               *)

StationOf(id) == IF id \in DOMAIN stations THEN stations[id] ELSE Blank

\* sec_to_hhmmss
Hms(t) ==
    IF t < 60 THEN <<t>>
    ELSE IF t < 3600 THEN <<t \div 60, t % 60>>
         ELSE <<t \div 3600, (t % 3600) \div 60, (t % 3600) % 60>>

\* nothing is printed for a leg that takes no time
Leg(kind, p, q) ==
    IF p[2] = q[2] THEN <<>> ELSE << [kind |-> kind, at |-> p[1], time |-> Hms(q[2] - p[2])] >>

Take(p, q) ==
    IF StationOf(p[1]).line # StationOf(q[1]).line THEN <<>>
    ELSE << [kind |-> "take", at |-> p[1], time |-> <<0>>] >>

\* the loop's body at path[i]: said is what was printed, same where the line was taken
AtStationKeepsSameMutant(d, i) ==
    LET p == path[i]
    IN  IF StationOf(p[1]).line = d.line THEN [d EXCEPT !.curr = p]
        ELSE [d EXCEPT !.line = StationOf(p[1]).line, !.curr = p,
                       !.said = @ \o Leg("ride", d.same, d.curr) \o Leg("walk", d.curr, p)]

AtStation(d, i) ==
    LET p == path[i]
        arrived == StationOf(p[1]).name = StationOf(End).name
    IN  IF StationOf(p[1]).line = d.line THEN [d EXCEPT !.curr = p]
        ELSE [line |-> StationOf(p[1]).line, same |-> p, curr |-> p,
              said |-> d.said \o Leg("ride", d.same, d.curr) \o Leg("walk", d.curr, p)
                       \o IF arrived THEN <<>> ELSE Take(p, path[i + 1])]

AtStart ==
    [line |-> StationOf(Start).line, same |-> path[1], curr |-> path[1], said |-> Take(path[1], path[2])]

Directions ==
    LET told[i \in 0..Len(path)] == IF i = 0 THEN AtStart ELSE AtStation(told[i - 1], i)
        done == told[Len(path)]
    IN  done.said \o Leg("ride", done.same, done.curr)

\* a path of one station is read past its end: the id found there, whatever it
\* is, decides what is printed and is inserted; so is any id of a longer path
Display ==
    /\ pc = "display" /\ pc' = "menu"
    /\ \E stray \in Id :
          LET touched == IF Len(path) = 1 THEN {stray} ELSE {path[i][1] : i \in DOMAIN path}
          IN  /\ stations' = [id \in DOMAIN stations \cup touched |-> StationOf(id)]
              /\ legs' = IF Len(path) = 1 THEN Take(path[1], <<stray, 0>>) ELSE Directions
    /\ UNCHANGED <<file, connections, chosen, search, path, searches>>

Next == \/ SetConnections \/ SetStations
        \/ NewSearch \/ Leave \/ NotANumber \/ Again \/ \E id \in Id : Choose(id)
        \/ (\E id \in DOMAIN open : Expand(id)) \/ Arrive \/ Unreachable
        \/ Display

Spec == Init /\ [][Next]_vars

-----------------------------------------------------------------------------
\* Bellman-Ford: the least time to each id, a set that is empty if there is none
Least(S) == {x \in S : \A y \in S : x <= y}

Improved(q) ==
    LET Via(v) == {u \in Id : v \in DOMAIN Children(u)}
    IN  [v \in Id |-> Least(q[v] \cup UNION {{t + Children(u)[v] : t \in q[u]} : u \in Via(v)})]

Quickest ==
    LET n == Cardinality(Id)
        round[k \in 0..n] ==
            IF k = 0 THEN [v \in Id |-> IF v = Start THEN {0} ELSE {}] ELSE Improved(round[k - 1])
    IN  round[n]

(* compute_travel returns a shortest ride from start to end, hop by hop:    *)
(* the single pass backwards over closed loses no station of the way,       *)
(* although parents are overwritten while the search runs.  And a search    *)
(* comes back without a way, on which the program crashes (line 202), only  *)
(* where there is none.                                                     *)
ShortestTravel ==
    /\ pc = "display" =>
          LET times == [i \in DOMAIN path |-> path[i][2]]
          IN  /\ path[1] = <<Start, 0>> /\ path[Len(path)][1] = End
              /\ Last(times) \in Quickest[End]
              /\ \A i \in 1..Len(path) - 1 :
                    /\ path[i + 1][1] \in DOMAIN Children(path[i][1])
                    /\ times[i + 1] = times[i] + Children(path[i][1])[path[i + 1][1]]
    /\ pc = "crashed" /\ Len(chosen) = 2 => Quickest[End] = {}

Seconds(t) ==
    CASE Len(t) = 1 -> t[1]
      [] Len(t) = 2 -> 60 * t[1] + t[2]
      [] Len(t) = 3 -> 3600 * t[1] + 60 * t[2] + t[3]

\* the times of all legs
Spent(said) ==
    LET sum[i \in 0..Len(said)] == IF i = 0 THEN 0 ELSE sum[i - 1] + Seconds(said[i].time)
    IN  sum[Len(said)]

(* The times printed add up to the total, and every line ridden is said to  *)
(* be taken where the ride begins, unless it begins at a namesake of the    *)
(* destination.                                                             *)
DirectionsComplete ==
    pc = "menu" /\ Len(path) > 1 =>
    /\ Spent(legs) = Last(path)[2]
    /\ \A i \in DOMAIN legs :
          legs[i].kind = "ride" /\ StationOf(legs[i].at).name # StationOf(End).name
          => i > 1 /\ legs[i - 1] = [kind |-> "take", at |-> legs[i].at, time |-> <<0>>]
=============================================================================

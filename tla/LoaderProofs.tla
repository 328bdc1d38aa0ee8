---------------------------- MODULE LoaderProofs ----------------------------
(***************************************************************************)
(* What is served when loading ends is what the files say, for any files:   *)
(* each of the three maps that are filled from them tells, row by row, the  *)
(* last row read for each of its keys.  And the graph has no parallel edges,*)
(* in whatever order the unordered maps give up the pairs: the nested map   *)
(* holds a pair once, and the edges there are belong to pairs that are no   *)
(* longer to be added.                                                      *)
(***************************************************************************)
EXTENDS Loader, TLAPS

\* operator[] and push_back keep the graph's two maps and its lists
WellBuilt(g) ==
    /\ DOMAIN g = {"station", "adjacency"}
    /\ g = [station |-> g.station, adjacency |-> g.adjacency]
    /\ \A id \in DOMAIN g.adjacency : \E S : g.adjacency[id] \in Seq(S)

\* the connections are keyed by pairs
Paired == \A p \in DOMAIN connections : p = <<p[1], p[2]>>

\* no edge is there before the pairs to add are known, and none twice
EdgesOnce ==
    /\ phase \in {"stations", "connections"} => graph.adjacency = <<>>
    /\ phase = "edges" =>
         /\ todo \subseteq DOMAIN connections
         /\ \A id \in DOMAIN graph.adjacency : \A i \in DOMAIN graph.adjacency[id] :
               <<id, graph.adjacency[id][i].target>> \notin todo

LoaderInv == WellBuilt(graph) /\ Paired /\ EdgesOnce /\ NoParallelEdges

-----------------------------------------------------------------------------
LEMMA InitLoader == Init => LoaderInv
  BY DEF Init, EmptyGraph, LoaderInv, WellBuilt, Paired, EdgesOnce, NoParallelEdges

\* what add_connection leaves: one more edge at the end of one list
LEMMA AddConnectionFacts ==
    ASSUME NEW g, WellBuilt(g), NEW from, NEW e
    PROVE  LET old == Neighbors(g, from)
               new == AddConnection(g, from, e)
           IN  /\ WellBuilt(new)
               /\ DOMAIN new.adjacency = DOMAIN g.adjacency \cup {from}
               /\ \A id \in DOMAIN g.adjacency \ {from} : new.adjacency[id] = g.adjacency[id]
               /\ Len(old) \in Nat /\ DOMAIN old = 1..Len(old)
               /\ DOMAIN new.adjacency[from] = 1..Len(old) + 1
               /\ \A i \in 1..Len(old) : new.adjacency[from][i] = old[i]
               /\ new.adjacency[from][Len(old) + 1] = e
  <1> DEFINE old == Neighbors(g, from)
             new == AddConnection(g, from, e)
  <1>1. PICK S : old \in Seq(S)
    <2>1. CASE from \in DOMAIN g.adjacency
      BY <2>1 DEF WellBuilt, Neighbors
    <2>2. CASE from \notin DOMAIN g.adjacency
      <3>1. old = <<>> /\ <<>> \in Seq({})
        BY <2>2 DEF Neighbors
      <3> QED BY <3>1
    <2> QED BY <2>1, <2>2
  <1>2. old \in Seq(S \cup {e}) /\ e \in S \cup {e}
    BY <1>1
  <1>3. /\ Append(old, e) \in Seq(S \cup {e})
        /\ Len(old) \in Nat /\ DOMAIN old = 1..Len(old)
        /\ DOMAIN Append(old, e) = 1..Len(old) + 1
        /\ \A i \in 1..Len(old) : Append(old, e)[i] = old[i]
        /\ Append(old, e)[Len(old) + 1] = e
    BY <1>2
  <1>4. /\ DOMAIN new = {"station", "adjacency"}
        /\ new = [station |-> g.station, adjacency |-> Put(g.adjacency, from, Append(old, e))]
    BY DEF WellBuilt, AddConnection
  <1>5. /\ DOMAIN new.adjacency = DOMAIN g.adjacency \cup {from}
        /\ new.adjacency[from] = Append(old, e)
        /\ \A id \in DOMAIN g.adjacency \ {from} : new.adjacency[id] = g.adjacency[id]
    BY <1>4 DEF Put
  <1>6. WellBuilt(new)
    <2>1. new = [station |-> new.station, adjacency |-> new.adjacency]
      BY <1>4
    <2>2. ASSUME NEW id \in DOMAIN new.adjacency PROVE \E T : new.adjacency[id] \in Seq(T)
      <3>1. CASE id = from
        BY <3>1, <1>3, <1>5
      <3>2. CASE id # from
        BY <3>2, <1>5 DEF WellBuilt
      <3> QED BY <3>1, <3>2
    <2> QED BY <1>4, <2>1, <2>2 DEF WellBuilt
  <1> HIDE DEF old, new
  <1>7. QED BY <1>3, <1>5, <1>6 DEF old, new

LEMMA StepAddEdge ==
    ASSUME LoaderInv, AddEdge
    PROVE  LoaderInv'
  <1>1. phase = "edges" /\ phase' = phase /\ connections' = connections
    BY DEF AddEdge
  <1>2. PICK p \in todo : graph' = AddConnection(graph, p[1], Edge(p)) /\ todo' = todo \ {p}
    BY DEF AddEdge
  <1> DEFINE from == p[1]
             e    == Edge(p)
             old  == Neighbors(graph, from)
  <1>3. /\ WellBuilt(graph')
        /\ DOMAIN graph'.adjacency = DOMAIN graph.adjacency \cup {from}
        /\ \A id \in DOMAIN graph.adjacency \ {from} : graph'.adjacency[id] = graph.adjacency[id]
        /\ Len(old) \in Nat /\ DOMAIN old = 1..Len(old)
        /\ DOMAIN graph'.adjacency[from] = 1..Len(old) + 1
        /\ \A i \in 1..Len(old) : graph'.adjacency[from][i] = old[i]
        /\ graph'.adjacency[from][Len(old) + 1] = e
    BY <1>2, AddConnectionFacts DEF LoaderInv
  <1>4. e.target = p[2] /\ p = <<from, p[2]>> /\ p \in DOMAIN connections
    BY <1>1, <1>2 DEF Edge, LoaderInv, Paired, EdgesOnce
  \* an edge from p[1] that is there already does not lead to p[2]
  <1>5. \A i \in 1..Len(old) : from \in DOMAIN graph.adjacency /\ old = graph.adjacency[from]
    BY <1>3 DEF Neighbors
  <1>6. \A i \in 1..Len(old) : <<from, old[i].target>> \notin todo /\ old[i].target # p[2]
    <2>1. SUFFICES ASSUME NEW i \in 1..Len(old)
                   PROVE  <<from, old[i].target>> \notin todo /\ old[i].target # p[2]
      OBVIOUS
    <2>2. from \in DOMAIN graph.adjacency /\ i \in DOMAIN graph.adjacency[from]
          /\ old[i] = graph.adjacency[from][i]
      BY <1>3, <1>5
    <2>3. <<from, old[i].target>> \notin todo
      BY <1>1, <2>2 DEF LoaderInv, EdgesOnce
    <2> HIDE DEF from, old
    <2> QED BY <1>2, <1>4, <2>3
  <1>7. \A i, j \in 1..Len(old) : i # j => old[i].target # old[j].target
    BY <1>3, <1>5 DEF LoaderInv, NoParallelEdges
  <1> HIDE DEF from, e, old
  <1>8. NoParallelEdges'
    <2>1. SUFFICES ASSUME NEW id \in DOMAIN graph'.adjacency,
                          NEW i \in DOMAIN graph'.adjacency[id],
                          NEW j \in DOMAIN graph'.adjacency[id], i # j
                   PROVE  graph'.adjacency[id][i].target # graph'.adjacency[id][j].target
      BY DEF NoParallelEdges
    <2>2. CASE id # from
      BY <1>3, <2>1, <2>2 DEF LoaderInv, NoParallelEdges
    <2>3. CASE id = from
      BY <1>3, <1>4, <1>6, <1>7, <2>1, <2>3
    <2> QED BY <2>2, <2>3
  <1>9. EdgesOnce'
    <2>1. todo' \subseteq DOMAIN connections'
      BY <1>1, <1>2 DEF LoaderInv, EdgesOnce
    <2>2. ASSUME NEW id \in DOMAIN graph'.adjacency, NEW i \in DOMAIN graph'.adjacency[id]
          PROVE  <<id, graph'.adjacency[id][i].target>> \notin todo'
      <3>1. CASE id # from
        BY <1>1, <1>2, <1>3, <2>2, <3>1 DEF LoaderInv, EdgesOnce
      <3>2. CASE id = from
        BY <1>2, <1>3, <1>4, <1>6, <2>2, <3>2
      <3> QED BY <3>1, <3>2
    <2> QED BY <1>1, <2>1, <2>2 DEF EdgesOnce
  <1> QED BY <1>1, <1>3, <1>8, <1>9 DEF LoaderInv, Paired

\* every other step but the two that change the stations leaves the graph alone
LEMMA SameGraph ==
    ASSUME LoaderInv, UNCHANGED graph, Paired',
           phase' = "edges" => phase = "edges" /\ todo' = todo /\ connections' = connections,
           phase' \in {"stations", "connections"} => phase \in {"stations", "connections"}
    PROVE  LoaderInv'
  BY DEF LoaderInv, WellBuilt, EdgesOnce, NoParallelEdges

LEMMA StepLoader == LoaderInv /\ [Next]_vars => LoaderInv'
  <1> SUFFICES ASSUME LoaderInv, [Next]_vars PROVE LoaderInv'
    OBVIOUS
  <1>1. CASE CannotOpen \/ ReadStation \/ EndOfStations \/ EndOfEdges \/ NoStops \/ ReadStop
             \/ UNCHANGED vars
    <2>1. UNCHANGED <<graph, connections, todo>>
      BY <1>1 DEF CannotOpen, ReadStation, EndOfStations, EndOfEdges, NoStops, ReadStop, vars
    <2>2. Paired'
      BY <2>1 DEF LoaderInv, Paired
    <2>3. /\ phase' = "edges" => phase = "edges"
          /\ phase' \in {"stations", "connections"} => phase \in {"stations", "connections"}
      BY <1>1 DEF CannotOpen, ReadStation, EndOfStations, EndOfEdges, NoStops, ReadStop, vars, Goto
    <2> QED BY <2>1, <2>2, <2>3, SameGraph
  <1>2. CASE ReadConnection
    <2>1. UNCHANGED <<phase, graph>> /\ phase = "connections"
      BY <1>2 DEF ReadConnection
    <2>2. Paired'
      <3>1. DOMAIN connections' \subseteq DOMAIN connections
                 \cup {<<input.connections[row].from, input.connections[row].to>>}
        BY <1>2 DEF ReadConnection, Record, Put
      <3> QED BY <3>1 DEF LoaderInv, Paired
    <2> QED BY <2>1, <2>2, SameGraph
  <1>3. CASE AddStations
    <2>1. /\ graph' = [graph EXCEPT !.station = stations] /\ UNCHANGED connections
          /\ phase = "connections" /\ phase' = "edges" /\ todo' = DOMAIN connections
      BY <1>3 DEF AddStations, Goto
    <2>2. graph.adjacency = <<>>
      BY <2>1 DEF LoaderInv, EdgesOnce
    <2>3. DOMAIN graph' = {"station", "adjacency"} /\ graph'.adjacency = <<>>
          /\ graph' = [station |-> graph'.station, adjacency |-> graph'.adjacency]
      BY <2>1, <2>2 DEF LoaderInv, WellBuilt
    <2> QED BY <2>1, <2>3 DEF LoaderInv, WellBuilt, Paired, EdgesOnce, NoParallelEdges
  <1>4. CASE AddEdge
    BY <1>4, StepAddEdge
  <1>5. CASE Merge
    <2>1. phase' = "serving" /\ UNCHANGED connections
          /\ graph' = [graph EXCEPT !.station = [id \in DOMAIN @ |-> Located(@[id])]]
      BY <1>5 DEF Merge, Goto
    <2>2. DOMAIN graph' = {"station", "adjacency"} /\ graph'.adjacency = graph.adjacency
          /\ graph' = [station |-> graph'.station, adjacency |-> graph'.adjacency]
      BY <2>1 DEF LoaderInv, WellBuilt
    <2> QED BY <2>1, <2>2 DEF LoaderInv, WellBuilt, Paired, EdgesOnce, NoParallelEdges
  <1> QED BY <1>1, <1>2, <1>3, <1>4, <1>5 DEF Next

\* No two edges of a station lead to the same one, at any time of the loading.
THEOREM EdgesNeverParallel == Spec => []NoParallelEdges
  <1>1. LoaderInv => NoParallelEdges
    BY DEF LoaderInv
  <1> QED BY <1>1, InitLoader, StepLoader, PTL DEF Spec

-----------------------------------------------------------------------------
(* What is served is what the tables say.  Three maps are filled from three *)
(* files by the same rule: the row read last for a key is the one kept.     *)

\* After the first n of the rows, m holds for each key that a good row has
\* the value of the last such row.
Tells(m, good, key, val, n) ==
    /\ \A i \in good : i <= n => key[i] \in DOMAIN m
    /\ \A k \in DOMAIN m :
          \E i \in good : /\ i <= n /\ key[i] = k /\ m[k] = val[i]
                          /\ \A j \in good : i < j /\ j <= n => key[j] # k

Good(rows) == {i \in DOMAIN rows : rows[i] \notin {Blank, Malformed}}

StationKey == [i \in DOMAIN input.stations |-> input.stations[i].id]
StationVal == [i \in DOMAIN input.stations |->
                  [name |-> NameRead(input.stations, i), line |-> input.stations[i].line,
                   pos |-> NoPosition]]
ConnectionKey == [i \in DOMAIN input.connections |->
                     <<input.connections[i].from, input.connections[i].to>>]
ConnectionVal == [i \in DOMAIN input.connections |-> input.connections[i].weight]
StopKey == [i \in DOMAIN input.stops |-> Normal[input.stops[i].name]]
StopVal == [i \in DOMAIN input.stops |-> input.stops[i].pos]

StationsTell(n)    == Tells(stations, Good(input.stations), StationKey, StationVal, n)
ConnectionsTell(n) == Tells(connections, Good(input.connections), ConnectionKey, ConnectionVal, n)
StopsTell(n)       == Tells(stops, Good(input.stops), StopKey, StopVal, n)

TablesRead ==
    /\ input.stations \in Table(StationRow \cup {Blank})
    /\ input.connections \in Table(ConnectionRow \cup {Blank, Malformed})
    /\ input.stops \in Table(StopRow \cup {Blank, Malformed})

InTable(rows) == row \in 1..Len(rows) + 1

\* what was read stays, but for a station 0 that an empty last line overwrites
StationsKept ==
    \A i \in LastRows(input.stations, SameStation) :
       ~Overwritten(input.stations, StationKey[i]) =>
          StationKey[i] \in DOMAIN stations /\ stations[StationKey[i]] = StationVal[i]

\* no station has a place before the stops are merged
Unplaced ==
    \A id \in DOMAIN stations :
       stations[id] = [name |-> stations[id].name, line |-> stations[id].line, pos |-> NoPosition]

Between(g, from, to) == {x \in OutEdges(g, from) : x.target = to}

\* the one edge of each pair that is no longer to be added
EdgesTell ==
    \A from, to \in Id :
       Between(graph, from, to)
       = {Edge(p) : p \in {q \in DOMAIN connections \ todo : q = <<from, to>>}}

\* what main knows in each phase
ReadingStations ==
    phase = "stations" =>
       /\ connections = <<>> /\ stops = <<>>
       /\ input.stations # Unreadable =>
             /\ InTable(input.stations) /\ StationsTell(row - 1)
             /\ newline \in BOOLEAN /\ (newline <=> row > 1 /\ input.stations[row - 1] = Blank)

ReadingConnections ==
    phase = "connections" =>
       /\ stops = <<>>
       /\ input.stations # Unreadable /\ StationsKept
       /\ input.connections # Unreadable =>
             InTable(input.connections) /\ ConnectionsTell(row - 1)

Connected ==
    phase \in {"edges", "stops", "serving"} =>
       /\ input.stations # Unreadable /\ StationsKept
       /\ input.connections # Unreadable /\ ConnectionsTell(Len(input.connections))
       /\ EdgesTell

AddingEdges == phase = "edges" => stops = <<>> /\ graph.station = stations

ReadingStops ==
    phase = "stops" =>
       /\ todo = {} /\ graph.station = stations
       /\ input.stops # Unreadable => InTable(input.stops) /\ StopsTell(row - 1)

Serving ==
    phase = "serving" =>
       /\ todo = {}
       /\ IF input.stops = Unreadable THEN graph.station = stations
          ELSE /\ StopsTell(Len(input.stops))
               /\ graph.station = [id \in DOMAIN stations |-> Located(stations[id])]

TablesInv ==
    /\ LoaderInv /\ TablesRead /\ Unplaced
    /\ ReadingStations /\ ReadingConnections /\ Connected /\ AddingEdges /\ ReadingStops /\ Serving

LEMMA TellsNothing ==
    ASSUME NEW good, NEW key, NEW val, NEW n, \A i \in good : ~(i <= n)
    PROVE  Tells(<<>>, good, key, val, n)
  BY DEF Tells

LEMMA TellsSkip ==
    ASSUME NEW m, NEW good \in SUBSET Nat, NEW key, NEW val, NEW n \in Nat,
           Tells(m, good, key, val, n), n + 1 \notin good
    PROVE  Tells(m, good, key, val, n + 1)
  <1>1. \A i \in good : i <= n + 1 => i <= n
    OBVIOUS
  <1>2. \A i \in good : i <= n => i <= n + 1
    OBVIOUS
  <1> QED BY <1>1, <1>2 DEF Tells

LEMMA TellsPut ==
    ASSUME NEW m, NEW good \in SUBSET Nat, NEW key, NEW val, NEW n \in Nat,
           Tells(m, good, key, val, n), n + 1 \in good
    PROVE  Tells(Put(m, key[n + 1], val[n + 1]), good, key, val, n + 1)
  <1> DEFINE new == Put(m, key[n + 1], val[n + 1])
  <1>1. /\ DOMAIN new = DOMAIN m \cup {key[n + 1]}
        /\ new[key[n + 1]] = val[n + 1]
        /\ \A k \in DOMAIN m : k # key[n + 1] => new[k] = m[k]
    BY DEF Put
  <1> HIDE DEF new
  <1>2. ASSUME NEW i \in good, i <= n + 1 PROVE key[i] \in DOMAIN new
    <2>1. i <= n \/ i = n + 1
      BY <1>2
    <2> QED BY <1>1, <1>2, <2>1 DEF Tells
  <1>3. ASSUME NEW k \in DOMAIN new
        PROVE  \E i \in good : /\ i <= n + 1 /\ key[i] = k /\ new[k] = val[i]
                               /\ \A j \in good : i < j /\ j <= n + 1 => key[j] # k
    <2>1. CASE k = key[n + 1]
      <3>1. \A j \in good : ~(n + 1 < j /\ j <= n + 1)
        OBVIOUS
      <3> QED BY <1>1, <2>1, <3>1
    <2>2. CASE k # key[n + 1]
      <3>1. PICK i \in good : /\ i <= n /\ key[i] = k /\ m[k] = val[i]
                              /\ \A j \in good : i < j /\ j <= n => key[j] # k
        BY <1>1, <1>3, <2>2 DEF Tells
      <3>2. i <= n + 1 /\ new[k] = val[i]
        BY <1>1, <1>3, <2>2, <3>1
      <3>3. \A j \in good : i < j /\ j <= n + 1 => key[j] # k
        BY <2>2, <3>1
      <3> QED BY <3>1, <3>2, <3>3
    <2> QED BY <2>1, <2>2
  <1> QED BY <1>2, <1>3 DEF Tells, new

\* Row i is the last good one for its key.
LastOfKey(i, good, key) == i \in good /\ \A j \in good : i < j => key[j] # key[i]

LEMMA TellsLast ==
    ASSUME NEW m, NEW n \in Nat, NEW good \in SUBSET (1..n), NEW key, NEW val,
           Tells(m, good, key, val, n), NEW i, LastOfKey(i, good, key)
    PROVE  key[i] \in DOMAIN m /\ m[key[i]] = val[i]
  <1>0. i \in good /\ \A j \in good : i < j => key[j] # key[i]
    BY DEF LastOfKey
  <1>1. key[i] \in DOMAIN m
    BY <1>0 DEF Tells
  <1>2. PICK h \in good : /\ h <= n /\ key[h] = key[i] /\ m[key[i]] = val[h]
                          /\ \A j \in good : h < j /\ j <= n => key[j] # key[i]
    BY <1>1 DEF Tells
  <1>3. ~(h < i) /\ ~(i < h)
    BY <1>0, <1>2
  <1>4. h = i
    BY <1>0, <1>3
  <1> QED BY <1>1, <1>2, <1>4

LEMMA RowsOf ==
    ASSUME NEW R, NEW rows \in Table(R), rows # Unreadable
    PROVE  /\ Len(rows) \in Nat /\ DOMAIN rows = 1..Len(rows)
           /\ \A i \in 1..Len(rows) : rows[i] \in R
           /\ Good(rows) \subseteq 1..Len(rows) /\ Good(rows) \in SUBSET Nat
  <1>1. rows \in Seq(R)
    BY DEF Table
  <1>2. Len(rows) \in Nat /\ DOMAIN rows = 1..Len(rows) /\ \A i \in 1..Len(rows) : rows[i] \in R
    BY <1>1
  <1> QED BY <1>2 DEF Good

\* The files stay the files they were.
LEMMA SameInput ==
    ASSUME UNCHANGED given
    PROVE  /\ input' = input
           /\ UNCHANGED <<StationKey, StationVal, ConnectionKey, ConnectionVal, StopKey, StopVal>>
  <1>1. input' = input
    BY DEF given, input, FileAt
  <1> QED BY <1>1 DEF StationKey, StationVal, ConnectionKey, ConnectionVal, StopKey, StopVal

LEMMA InitTables == Init => TablesInv
  <1> SUFFICES ASSUME Init PROVE TablesInv
    OBVIOUS
  <1>1. LoaderInv
    BY InitLoader
  <1>2. TablesRead
    BY TablesAssumption DEF Init, TablesRead, input, FileAt
  <1>3. phase = "stations" /\ row = 1 /\ newline = FALSE /\ DOMAIN stations = {}
        /\ stations = <<>> /\ connections = <<>> /\ stops = <<>>
    BY DEF Init
  <1>4. ReadingStations
    <2> SUFFICES ASSUME input.stations # Unreadable
                 PROVE  /\ InTable(input.stations) /\ StationsTell(row - 1)
                        /\ newline \in BOOLEAN /\ (newline <=> row > 1 /\ input.stations[row - 1] = Blank)
      BY <1>3 DEF ReadingStations
    <2>1. Len(input.stations) \in Nat /\ Good(input.stations) \subseteq 1..Len(input.stations)
      BY <1>2, RowsOf DEF TablesRead
    <2>2. \A i \in Good(input.stations) : ~(i <= 0)
      BY <2>1
    <2>3. StationsTell(0)
      BY <1>3, <2>2, TellsNothing DEF StationsTell
    <2>4. row - 1 = 0 /\ row \in 1..Len(input.stations) + 1
      BY <1>3, <2>1
    <2>5. newline \in BOOLEAN /\ (newline <=> row > 1 /\ input.stations[row - 1] = Blank)
      <3>1. newline \in BOOLEAN /\ ~newline
        BY <1>3
      <3>2. ~(row > 1)
        BY <1>3
      <3> QED BY <3>1, <3>2
    <2> QED BY <2>3, <2>4, <2>5 DEF InTable
  <1>5. Unplaced /\ ReadingConnections /\ Connected /\ AddingEdges /\ ReadingStops /\ Serving
    BY <1>3 DEF Unplaced, ReadingConnections, Connected, AddingEdges, ReadingStops, Serving
  <1> QED BY <1>1, <1>2, <1>4, <1>5 DEF TablesInv

-----------------------------------------------------------------------------
LEMMA StepReadStation ==
    ASSUME TablesInv, LoaderInv', ReadStation
    PROVE  TablesInv'
  <1> DEFINE S == input.stations
             r == S[row]
  <1>1. /\ phase = "stations" /\ phase' = "stations" /\ S # Unreadable /\ row <= Len(S)
        /\ UNCHANGED given /\ row' = row + 1 /\ UNCHANGED <<connections, todo, stops, graph>>
    BY DEF ReadStation
  <1>2. input' = input /\ StationKey' = StationKey /\ StationVal' = StationVal
    BY <1>1, SameInput
  <1>3. TablesRead' /\ TablesRead
    BY <1>2 DEF TablesInv, TablesRead
  <1>4. /\ Len(S) \in Nat /\ DOMAIN S = 1..Len(S)
        /\ \A i \in 1..Len(S) : S[i] \in StationRow \cup {Blank}
        /\ Good(S) \in SUBSET Nat
    BY <1>1, <1>3, RowsOf DEF TablesRead
  <1>5. row \in 1..Len(S) /\ row - 1 \in Nat /\ (row - 1) + 1 = row /\ row' - 1 = row
    BY <1>1, <1>4 DEF TablesInv, ReadingStations, InTable
  <1>6. StationsTell(row - 1) /\ newline \in BOOLEAN /\ (newline <=> row > 1 /\ S[row - 1] = Blank)
    BY <1>1 DEF TablesInv, ReadingStations
  <1>7. CASE r = Blank
    <2>1. newline' = TRUE /\ stations' = stations
      BY <1>7 DEF ReadStation
    <2>2. row \notin Good(S)
      BY <1>7 DEF Good
    <2>3. Tells(stations, Good(S), StationKey, StationVal, row)
      BY <1>4, <1>5, <1>6, <2>2, TellsSkip DEF StationsTell
    <2>4. StationsTell(row - 1)'
      BY <1>2, <1>5, <2>1, <2>3 DEF StationsTell
    <2>5. ReadingStations'
      BY <1>1, <1>2, <1>4, <1>5, <1>7, <2>1, <2>4 DEF ReadingStations, TablesInv, InTable
    <2>6. Unplaced'
      BY <2>1 DEF TablesInv, Unplaced
    <2> QED BY <1>1, <1>3, <2>5, <2>6
            DEF TablesInv, ReadingConnections, Connected, AddingEdges, ReadingStops, Serving
  <1>8. CASE r # Blank
    <2>1. newline' = FALSE
      BY <1>8 DEF ReadStation
    <2>2. stations' = Put(stations, r.id,
               [name |-> IF newline THEN WithNewline(r.name) ELSE r.name,
                line |-> r.line, pos |-> NoPosition])
      BY <1>8 DEF ReadStation
    <2>3. row \in Good(S)
      <3>1. r \in StationRow
        BY <1>4, <1>5, <1>8
      <3> QED BY <1>4, <1>5, <1>8, <3>1, TablesAssumption DEF Good
    <2>4. r.id = StationKey[row] /\ StationVal[row] =
               [name |-> IF newline THEN WithNewline(r.name) ELSE r.name,
                line |-> r.line, pos |-> NoPosition]
      BY <1>4, <1>5, <1>6 DEF StationKey, StationVal, NameRead
    <2>5. stations' = Put(stations, StationKey[row], StationVal[row])
      BY <2>2, <2>4
    <2>6. Tells(stations', Good(S), StationKey, StationVal, row)
      <3>1. \A n \in Nat : n = row - 1 =>
               Tells(Put(stations, StationKey[n + 1], StationVal[n + 1]),
                     Good(S), StationKey, StationVal, n + 1)
        BY <1>4, <1>5, <1>6, <2>3, TellsPut DEF StationsTell
      <3> QED BY <1>5, <2>5, <3>1
    <2>7. StationsTell(row - 1)'
      BY <1>2, <1>5, <2>6 DEF StationsTell
    <2>8. ReadingStations'
      <3>1. newline' \in BOOLEAN /\ ~newline'
        BY <2>1
      <3>2. ~(row' > 1 /\ input'.stations[row' - 1] = Blank)
        BY <1>2, <1>5, <1>8
      <3>3. InTable(input.stations)'
        BY <1>1, <1>2, <1>4, <1>5 DEF InTable
      <3> QED BY <1>1, <2>7, <3>1, <3>2, <3>3 DEF ReadingStations, TablesInv
    <2>9. Unplaced'
      <3>1. StationVal[row] = [name |-> StationVal[row].name, line |-> StationVal[row].line,
                               pos |-> NoPosition]
        BY <2>4
      <3> QED BY <2>5, <3>1 DEF TablesInv, Unplaced, Put
    <2> QED BY <1>1, <1>3, <2>8, <2>9
            DEF TablesInv, ReadingConnections, Connected, AddingEdges, ReadingStops, Serving
  <1> QED BY <1>7, <1>8

LEMMA LastStation ==
    ASSUME Good(input.stations) \subseteq Nat, NEW i \in LastRows(input.stations, SameStation)
    PROVE  LastOfKey(i, Good(input.stations), StationKey)
  BY DEF LastRows, SameStation, Good, StationKey, LastOfKey

\* The table of stations has been read: the last row of each is what is kept.
LEMMA StepEndOfStations ==
    ASSUME TablesInv, LoaderInv', EndOfStations
    PROVE  TablesInv'
  <1> DEFINE S == input.stations
             ghost == [name |-> Newline, line |-> NoLine, pos |-> NoPosition]
  <1>1. /\ phase = "stations" /\ phase' = "connections" /\ S # Unreadable /\ row > Len(S)
        /\ UNCHANGED given /\ row' = 1 /\ UNCHANGED <<connections, todo, stops, graph>>
        /\ stations' = IF newline THEN Put(stations, 0, ghost) ELSE stations
    BY DEF EndOfStations, Goto
  <1>2. input' = input /\ UNCHANGED <<StationKey, StationVal, ConnectionKey, ConnectionVal>>
    BY <1>1, SameInput
  <1>3. TablesRead' /\ TablesRead
    BY <1>2 DEF TablesInv, TablesRead
  <1>4. Len(S) \in Nat /\ DOMAIN S = 1..Len(S) /\ Good(S) \in SUBSET Nat /\ Good(S) \subseteq 1..Len(S)
    BY <1>1, <1>3, RowsOf DEF TablesRead
  <1>5. row - 1 = Len(S)
    BY <1>1, <1>4 DEF TablesInv, ReadingStations, InTable
  <1>6. Tells(stations, Good(S), StationKey, StationVal, Len(S))
        /\ (newline => S[Len(S)] = Blank) /\ connections = <<>> /\ stops = <<>>
    BY <1>1, <1>5 DEF TablesInv, ReadingStations, StationsTell
  <1>7. StationsKept'
    <2>1. ASSUME NEW i \in LastRows(S, SameStation), ~Overwritten(S, StationKey[i])
          PROVE  StationKey[i] \in DOMAIN stations' /\ stations'[StationKey[i]] = StationVal[i]
      <3>1. LastOfKey(i, Good(S), StationKey)
        <4>1. Good(input.stations) \subseteq Nat
          BY <1>4
        <4> QED BY <2>1, <4>1, LastStation
      <3>2. StationKey[i] \in DOMAIN stations /\ stations[StationKey[i]] = StationVal[i]
        <4>1. Len(S) \in Nat /\ Good(S) \in SUBSET (1..Len(S))
          BY <1>4
        <4>2. Tells(stations, Good(S), StationKey, StationVal, Len(S))
          BY <1>6
        <4> HIDE DEF S
        <4> QED BY <3>1, <4>1, <4>2, TellsLast
      <3>3. CASE newline
        <4>1. StationKey[i] # 0
          BY <1>6, <2>1, <3>3 DEF Overwritten
        <4>2. stations' = Put(stations, 0, ghost)
          BY <1>1, <3>3
        <4> QED BY <3>2, <4>1, <4>2 DEF Put
      <3>4. CASE ~newline
        BY <1>1, <3>2, <3>4
      <3> QED BY <3>3, <3>4
    <2> QED BY <1>2, <2>1 DEF StationsKept
  <1>8. Unplaced'
    BY <1>1 DEF TablesInv, Unplaced, Put
  <1>9. ReadingConnections'
    <2> SUFFICES ASSUME input.connections # Unreadable
                 PROVE  InTable(input.connections)' /\ ConnectionsTell(row - 1)'
      BY <1>1, <1>2, <1>6, <1>7 DEF ReadingConnections
    <2>1. Len(input.connections) \in Nat /\ Good(input.connections) \subseteq 1..Len(input.connections)
      BY <1>3, RowsOf DEF TablesRead
    <2>2. \A i \in Good(input.connections) : ~(i <= 0)
      BY <2>1
    <2>3. Tells(<<>>, Good(input.connections), ConnectionKey, ConnectionVal, 0)
      BY <2>2, TellsNothing
    <2>4. connections' = <<>> /\ row' - 1 = 0
      BY <1>1, <1>6
    <2>5. ConnectionsTell(row - 1)'
      BY <1>2, <2>3, <2>4 DEF ConnectionsTell
    <2> QED BY <1>1, <1>2, <2>1, <2>5 DEF InTable
  <1> QED BY <1>1, <1>3, <1>8, <1>9
          DEF TablesInv, ReadingStations, Connected, AddingEdges, ReadingStops, Serving

LEMMA StepReadConnection ==
    ASSUME TablesInv, LoaderInv', ReadConnection
    PROVE  TablesInv'
  <1> DEFINE C == input.connections
             r == C[row]
  <1>1. /\ phase = "connections" /\ phase' = "connections" /\ C # Unreadable /\ row <= Len(C)
        /\ UNCHANGED given /\ row' = row + 1 /\ UNCHANGED <<newline, stations, todo, stops, graph>>
        /\ connections' = IF r \in {Blank, Malformed} THEN connections
                          ELSE Record(r.from, r.to, r.weight)
    BY DEF ReadConnection
  <1>2. input' = input
        /\ UNCHANGED <<StationKey, StationVal, ConnectionKey, ConnectionVal>>
    BY <1>1, SameInput
  <1>3. TablesRead' /\ TablesRead
    BY <1>2 DEF TablesInv, TablesRead
  <1>4. Len(C) \in Nat /\ DOMAIN C = 1..Len(C) /\ Good(C) \in SUBSET Nat
    BY <1>1, <1>3, RowsOf DEF TablesRead
  <1>5. row \in 1..Len(C) /\ row - 1 \in Nat /\ (row - 1) + 1 = row /\ row' - 1 = row
    BY <1>1, <1>4 DEF TablesInv, ReadingConnections, InTable
  <1>6. ConnectionsTell(row - 1)
    BY <1>1 DEF TablesInv, ReadingConnections
  <1>7. Tells(connections', Good(C), ConnectionKey, ConnectionVal, row)
    <2>1. CASE r \in {Blank, Malformed}
      <3>1. row \notin Good(C)
        BY <2>1 DEF Good
      <3> QED BY <1>1, <1>4, <1>5, <1>6, <2>1, <3>1, TellsSkip DEF ConnectionsTell
    <2>2. CASE r \notin {Blank, Malformed}
      <3>1. row \in Good(C)
        BY <1>4, <1>5, <2>2 DEF Good
      <3>2. connections' = Put(connections, ConnectionKey[row], ConnectionVal[row])
        BY <1>1, <1>4, <1>5, <2>2 DEF Record, ConnectionKey, ConnectionVal
      <3>3. \A n \in Nat : n = row - 1 =>
               Tells(Put(connections, ConnectionKey[n + 1], ConnectionVal[n + 1]),
                     Good(C), ConnectionKey, ConnectionVal, n + 1)
        BY <1>4, <1>5, <1>6, <3>1, TellsPut DEF ConnectionsTell
      <3> QED BY <1>5, <3>2, <3>3
    <2> QED BY <2>1, <2>2
  <1>8. ConnectionsTell(row - 1)'
    BY <1>2, <1>5, <1>7 DEF ConnectionsTell
  <1>9. InTable(input.connections)'
    BY <1>1, <1>2, <1>4, <1>5 DEF InTable
  <1>10. StationsKept' /\ Unplaced'
    BY <1>1, <1>2 DEF TablesInv, ReadingConnections, StationsKept, Unplaced
  <1>11. ReadingConnections'
    BY <1>1, <1>2, <1>8, <1>9, <1>10 DEF TablesInv, ReadingConnections
  <1> QED BY <1>1, <1>3, <1>10, <1>11
          DEF TablesInv, ReadingStations, Connected, AddingEdges, ReadingStops, Serving

LEMMA StepAddStations ==
    ASSUME TablesInv, LoaderInv', AddStations
    PROVE  TablesInv'
  <1> DEFINE C == input.connections
  <1>1. /\ phase = "connections" /\ phase' = "edges" /\ C # Unreadable /\ row > Len(C)
        /\ UNCHANGED given /\ UNCHANGED <<newline, stations, connections, stops>>
        /\ graph' = [graph EXCEPT !.station = stations] /\ todo' = DOMAIN connections
    BY DEF AddStations, Goto
  <1>2. input' = input
        /\ UNCHANGED <<StationKey, StationVal, ConnectionKey, ConnectionVal>>
    BY <1>1, SameInput
  <1>3. TablesRead' /\ TablesRead
    BY <1>2 DEF TablesInv, TablesRead
  <1>4. Len(C) \in Nat /\ row - 1 = Len(C)
    <2>1. Len(C) \in Nat
      BY <1>1, <1>3, RowsOf DEF TablesRead
    <2> QED BY <1>1, <2>1 DEF TablesInv, ReadingConnections, InTable
  <1>5. ConnectionsTell(Len(C))'
    BY <1>1, <1>2, <1>4 DEF TablesInv, ReadingConnections, ConnectionsTell
  <1>6. graph'.station = stations /\ graph'.adjacency = <<>>
    BY <1>1 DEF TablesInv, LoaderInv, WellBuilt, EdgesOnce
  <1>7. EdgesTell'
    <2>1. \A id : OutEdges(graph', id) = {}
      BY <1>6 DEF OutEdges, Neighbors
    <2> QED BY <1>1, <2>1 DEF EdgesTell, Between
  <1>8. StationsKept' /\ Unplaced'
    BY <1>1, <1>2 DEF TablesInv, ReadingConnections, StationsKept, Unplaced
  <1>9. Connected'
    BY <1>1, <1>2, <1>5, <1>7, <1>8 DEF TablesInv, ReadingConnections, Connected
  <1>10. AddingEdges'
    BY <1>1, <1>6 DEF TablesInv, ReadingConnections, AddingEdges
  <1> QED BY <1>1, <1>3, <1>8, <1>9, <1>10
          DEF TablesInv, ReadingStations, ReadingConnections, ReadingStops, Serving

\* What the edges of a graph say of a pair when one is added.
LEMMA EdgesAfterAdding ==
    ASSUME NEW g, WellBuilt(g), NEW u, NEW e, NEW from, NEW to,
           NEW new, new = AddConnection(g, u, e)
    PROVE  /\ new.station = g.station
           /\ from = u /\ to = e.target =>
                 Between(new, from, to) = Between(g, from, to) \cup {e}
           /\ from # u \/ to # e.target => Between(new, from, to) = Between(g, from, to)
  <1> DEFINE old == Neighbors(g, u)
  <1>1. /\ DOMAIN new.adjacency = DOMAIN g.adjacency \cup {u}
        /\ \A id \in DOMAIN g.adjacency \ {u} : new.adjacency[id] = g.adjacency[id]
        /\ Len(old) \in Nat /\ DOMAIN old = 1..Len(old)
        /\ DOMAIN new.adjacency[u] = 1..Len(old) + 1
        /\ \A i \in 1..Len(old) : new.adjacency[u][i] = old[i]
        /\ new.adjacency[u][Len(old) + 1] = e
    BY AddConnectionFacts
  <1>2. new.station = g.station
    BY DEF AddConnection, WellBuilt
  <1>3. from # u => OutEdges(new, from) = OutEdges(g, from)
    <2> SUFFICES ASSUME from # u PROVE Neighbors(new, from) = Neighbors(g, from)
      BY DEF OutEdges
    <2> QED BY <1>1 DEF Neighbors
  <1>4. OutEdges(new, u) = OutEdges(g, u) \cup {e}
    <2>1. Neighbors(new, u) = new.adjacency[u]
      BY <1>1 DEF Neighbors
    <2>2. DOMAIN Neighbors(new, u) = DOMAIN old \cup {Len(old) + 1}
      <3> HIDE DEF old
      <3> QED BY <1>1, <2>1
    <2>3. /\ \A i \in DOMAIN old : Neighbors(new, u)[i] = old[i]
          /\ Neighbors(new, u)[Len(old) + 1] = e
      <3> HIDE DEF old
      <3> QED BY <1>1, <2>1
    <2>4. OutEdges(new, u) = {Neighbors(new, u)[i] : i \in DOMAIN Neighbors(new, u)}
          /\ OutEdges(g, u) = {old[i] : i \in DOMAIN old}
      BY DEF OutEdges
    <2> HIDE DEF old
    <2> QED BY <2>2, <2>3, <2>4
  <1> QED BY <1>2, <1>3, <1>4 DEF Between

\* The edge added is the one its pair calls for, and no other pair has changed.
LEMMA StepAddEdgeTables ==
    ASSUME TablesInv, LoaderInv', AddEdge
    PROVE  TablesInv'
  <1>1. phase = "edges" /\ UNCHANGED <<given, phase, row, newline, stations, connections, stops>>
    BY DEF AddEdge
  <1>2. PICK p \in todo : graph' = AddConnection(graph, p[1], Edge(p)) /\ todo' = todo \ {p}
    BY DEF AddEdge
  <1>3. /\ input' = input
        /\ UNCHANGED <<StationKey, StationVal, ConnectionKey, ConnectionVal>>
    BY <1>1, SameInput
  <1>4. WellBuilt(graph) /\ p \in DOMAIN connections /\ p = <<p[1], p[2]>> /\ Edge(p).target = p[2]
    BY <1>1, <1>2 DEF TablesInv, LoaderInv, EdgesOnce, Paired, Edge
  <1>5. graph'.station = graph.station
    BY <1>2 DEF AddConnection
  <1>6. \A q : Edge(q)' = Edge(q)
    BY <1>1, <1>5 DEF Edge, Classify, HasStation
  <1>7. EdgesTell'
    <2> SUFFICES ASSUME NEW from \in Id, NEW to \in Id
                 PROVE  Between(graph', from, to)
                        = {Edge(q) : q \in {q \in DOMAIN connections \ (todo \ {p}) : q = <<from, to>>}}
      BY <1>1, <1>2, <1>6 DEF EdgesTell
    <2>1. Between(graph, from, to)
          = {Edge(q) : q \in {q \in DOMAIN connections \ todo : q = <<from, to>>}}
      BY <1>1 DEF TablesInv, Connected, EdgesTell
    <2>2. CASE from = p[1] /\ to = p[2]
      <3>1. Between(graph', from, to)
            = Between(graph, from, to) \cup {Edge(p)}
        BY <1>2, <1>4, <2>2, EdgesAfterAdding
      <3>2. {q \in DOMAIN connections \ (todo \ {p}) : q = <<from, to>>}
            = {q \in DOMAIN connections \ todo : q = <<from, to>>} \cup {p}
        BY <1>4, <2>2
      <3> QED BY <2>1, <3>1, <3>2
    <2>3. CASE from # p[1] \/ to # p[2]
      <3>1. Between(graph', from, to)
            = Between(graph, from, to)
        BY <1>2, <1>4, <2>3, EdgesAfterAdding
      <3>2. {q \in DOMAIN connections \ (todo \ {p}) : q = <<from, to>>}
            = {q \in DOMAIN connections \ todo : q = <<from, to>>}
        BY <1>4, <2>3
      <3> QED BY <2>1, <3>1, <3>2
    <2> QED BY <2>2, <2>3
  <1>8. TablesRead' /\ StationsKept' /\ Unplaced'
    BY <1>1, <1>3 DEF TablesInv, TablesRead, Connected, StationsKept, Unplaced
  <1>9. Connected' /\ AddingEdges'
    BY <1>1, <1>3, <1>5, <1>7, <1>8 DEF TablesInv, Connected, ConnectionsTell, AddingEdges
  <1> QED BY <1>1, <1>8, <1>9
          DEF TablesInv, ReadingStations, ReadingConnections, ReadingStops, Serving

LEMMA StepEndOfEdges ==
    ASSUME TablesInv, LoaderInv', EndOfEdges
    PROVE  TablesInv'
  <1>1. /\ phase = "edges" /\ phase' = "stops" /\ row' = 1 /\ todo = {}
        /\ UNCHANGED <<given, newline, stations, connections, todo, stops, graph>>
    BY DEF EndOfEdges, Goto
  <1>2. /\ input' = input
        /\ UNCHANGED <<StationKey, StationVal, ConnectionKey, ConnectionVal, StopKey, StopVal>>
    BY <1>1, SameInput
  <1>3. TablesRead' /\ StationsKept' /\ Unplaced'
    BY <1>1, <1>2 DEF TablesInv, TablesRead, Connected, StationsKept, Unplaced
  <1>4. EdgesTell'
    BY <1>1 DEF TablesInv, Connected, EdgesTell, Edge
  <1>5. Connected'
    BY <1>1, <1>2, <1>3, <1>4 DEF TablesInv, Connected, ConnectionsTell
  <1>6. ReadingStops'
    <2> SUFFICES ASSUME input.stops # Unreadable
                 PROVE  InTable(input.stops)' /\ StopsTell(row - 1)'
      BY <1>1, <1>2 DEF TablesInv, AddingEdges, ReadingStops
    <2>1. Len(input.stops) \in Nat /\ Good(input.stops) \subseteq 1..Len(input.stops)
      BY RowsOf DEF TablesInv, TablesRead
    <2>2. \A i \in Good(input.stops) : ~(i <= 0)
      BY <2>1
    <2>3. Tells(<<>>, Good(input.stops), StopKey, StopVal, 0)
      BY <2>2, TellsNothing
    <2>4. stops' = <<>> /\ row' - 1 = 0
      BY <1>1 DEF TablesInv, AddingEdges
    <2>5. StopsTell(row - 1)'
      BY <1>2, <2>3, <2>4 DEF StopsTell
    <2> QED BY <1>1, <1>2, <2>1, <2>5 DEF InTable
  <1> QED BY <1>1, <1>3, <1>5, <1>6
          DEF TablesInv, ReadingStations, ReadingConnections, AddingEdges, Serving

LEMMA StepNoStops ==
    ASSUME TablesInv, LoaderInv', NoStops
    PROVE  TablesInv'
  <1>1. /\ phase = "stops" /\ phase' = "serving" /\ input.stops = Unreadable
        /\ UNCHANGED <<given, newline, stations, connections, todo, stops, graph>>
    BY DEF NoStops, Goto
  <1>2. /\ input' = input
        /\ UNCHANGED <<StationKey, StationVal, ConnectionKey, ConnectionVal>>
    BY <1>1, SameInput
  <1>3. TablesRead' /\ StationsKept' /\ Unplaced'
    BY <1>1, <1>2 DEF TablesInv, TablesRead, Connected, StationsKept, Unplaced
  <1>4. EdgesTell'
    BY <1>1 DEF TablesInv, Connected, EdgesTell, Edge
  <1>5. Connected' /\ Serving'
    BY <1>1, <1>2, <1>3, <1>4 DEF TablesInv, Connected, ConnectionsTell, ReadingStops, Serving
  <1> QED BY <1>1, <1>3, <1>5
          DEF TablesInv, ReadingStations, ReadingConnections, AddingEdges, ReadingStops

LEMMA StepReadStop ==
    ASSUME TablesInv, LoaderInv', ReadStop
    PROVE  TablesInv'
  <1> DEFINE T == input.stops
             r == T[row]
  <1>1. /\ phase = "stops" /\ phase' = "stops" /\ T # Unreadable /\ row <= Len(T)
        /\ row' = row + 1
        /\ UNCHANGED <<given, newline, stations, connections, todo, graph>>
        /\ stops' = IF r \in {Blank, Malformed} THEN stops ELSE Put(stops, Normal[r.name], r.pos)
    BY DEF ReadStop
  <1>2. /\ input' = input
        /\ UNCHANGED <<StationKey, StationVal, ConnectionKey, ConnectionVal, StopKey, StopVal>>
    BY <1>1, SameInput
  <1>3. TablesRead' /\ StationsKept' /\ Unplaced'
    BY <1>1, <1>2 DEF TablesInv, TablesRead, Connected, StationsKept, Unplaced
  <1>4. EdgesTell'
    BY <1>1 DEF TablesInv, Connected, EdgesTell, Edge
  <1>5. Connected'
    BY <1>1, <1>2, <1>3, <1>4 DEF TablesInv, Connected, ConnectionsTell
  <1>6. Len(T) \in Nat /\ DOMAIN T = 1..Len(T) /\ Good(T) \in SUBSET Nat
    BY <1>1, RowsOf DEF TablesInv, TablesRead
  <1>7. row \in 1..Len(T) /\ row - 1 \in Nat /\ (row - 1) + 1 = row /\ row' - 1 = row
    BY <1>1, <1>6 DEF TablesInv, ReadingStops, InTable
  <1>8. StopsTell(row - 1)
    BY <1>1 DEF TablesInv, ReadingStops
  <1>9. Tells(stops', Good(T), StopKey, StopVal, row)
    <2>1. CASE r \in {Blank, Malformed}
      <3>1. row \notin Good(T)
        BY <2>1 DEF Good
      <3> QED BY <1>1, <1>6, <1>7, <1>8, <2>1, <3>1, TellsSkip DEF StopsTell
    <2>2. CASE r \notin {Blank, Malformed}
      <3>1. row \in Good(T)
        BY <1>6, <1>7, <2>2 DEF Good
      <3>2. stops' = Put(stops, StopKey[row], StopVal[row])
        BY <1>1, <1>6, <1>7, <2>2 DEF StopKey, StopVal
      <3>3. \A n \in Nat : n = row - 1 =>
               Tells(Put(stops, StopKey[n + 1], StopVal[n + 1]), Good(T), StopKey, StopVal, n + 1)
        BY <1>6, <1>7, <1>8, <3>1, TellsPut DEF StopsTell
      <3> QED BY <1>7, <3>2, <3>3
    <2> QED BY <2>1, <2>2
  <1>10. StopsTell(row - 1)' /\ InTable(input.stops)'
    BY <1>1, <1>2, <1>6, <1>7, <1>9 DEF StopsTell, InTable
  <1>11. ReadingStops'
    BY <1>1, <1>2, <1>10 DEF TablesInv, ReadingStops
  <1> QED BY <1>1, <1>3, <1>5, <1>11
          DEF TablesInv, ReadingStations, ReadingConnections, AddingEdges, Serving

\* A place given to a station changes neither its name nor its line, and so
\* not the type of any edge.
LEMMA StepMerge ==
    ASSUME TablesInv, LoaderInv', Merge
    PROVE  TablesInv'
  <1> DEFINE T == input.stops
  <1>1. /\ phase = "stops" /\ phase' = "serving" /\ T # Unreadable /\ row > Len(T)
        /\ graph' = [graph EXCEPT !.station = [id \in DOMAIN @ |-> Located(@[id])]]
        /\ UNCHANGED <<given, newline, stations, connections, todo, stops>>
    BY DEF Merge, Goto
  <1>2. /\ input' = input
        /\ UNCHANGED <<StationKey, StationVal, ConnectionKey, ConnectionVal, StopKey, StopVal>>
    BY <1>1, SameInput
  <1>3. TablesRead' /\ StationsKept' /\ Unplaced'
    BY <1>1, <1>2 DEF TablesInv, TablesRead, Connected, StationsKept, Unplaced
  <1>4. /\ graph.station = stations
        /\ graph'.station = [id \in DOMAIN stations |-> Located(stations[id])]
        /\ graph'.adjacency = graph.adjacency
    BY <1>1 DEF TablesInv, ReadingStops, LoaderInv, WellBuilt
  <1>5. \A id \in DOMAIN stations :
           /\ graph'.station[id].name = graph.station[id].name
           /\ graph'.station[id].line = graph.station[id].line
    BY <1>4 DEF TablesInv, Unplaced, Located
  <1>6. \A from, to, w : Classify(graph', from, to, w) = Classify(graph, from, to, w)
    BY <1>4, <1>5 DEF Classify, HasStation
  <1>7. EdgesTell'
    <2>1. \A q : Edge(q)' = Edge(q)
      BY <1>1, <1>6 DEF Edge
    <2>2. \A id : OutEdges(graph', id) = OutEdges(graph, id)
      BY <1>4 DEF OutEdges, Neighbors
    <2> QED BY <1>1, <2>1, <2>2 DEF TablesInv, Connected, EdgesTell, Between
  <1>8. Connected'
    BY <1>1, <1>2, <1>3, <1>7 DEF TablesInv, Connected, ConnectionsTell
  <1>9. StopsTell(Len(input.stops))'
    <2>1. Len(T) \in Nat
      BY <1>1, RowsOf DEF TablesInv, TablesRead
    <2>2. row - 1 = Len(T)
      BY <1>1, <2>1 DEF TablesInv, ReadingStops, InTable
    <2> QED BY <1>1, <1>2, <2>2 DEF TablesInv, ReadingStops, StopsTell
  <1>10. Serving'
    <2>1. graph'.station = [id \in DOMAIN stations' |-> Located(stations[id])']
      BY <1>1, <1>4 DEF Located
    <2> QED BY <1>1, <1>2, <1>9, <2>1 DEF TablesInv, ReadingStops, Serving
  <1> QED BY <1>1, <1>3, <1>8, <1>10
          DEF TablesInv, ReadingStations, ReadingConnections, AddingEdges, ReadingStops

LEMMA StepTables == TablesInv /\ [Next]_vars => TablesInv'
  <1> SUFFICES ASSUME TablesInv, [Next]_vars PROVE TablesInv'
    OBVIOUS
  <1>1. LoaderInv'
    BY StepLoader DEF TablesInv
  <1>2. CASE CannotOpen
    <2>1. phase' = "exited" /\ UNCHANGED <<given, stations>>
      BY <1>2 DEF CannotOpen, Goto
    <2>2. TablesRead' /\ Unplaced'
      BY <2>1, SameInput DEF TablesInv, TablesRead, Unplaced
    <2> QED BY <1>1, <2>1, <2>2 DEF TablesInv, ReadingStations, ReadingConnections, Connected,
                                    AddingEdges, ReadingStops, Serving
  <1>3. CASE UNCHANGED vars
    <2>1. UNCHANGED <<given, phase, row, newline, stations, connections, todo, stops, graph>>
      BY <1>3 DEF vars, given
    <2>2. /\ input' = input
          /\ UNCHANGED <<StationKey, StationVal, ConnectionKey, ConnectionVal, StopKey, StopVal>>
      BY <2>1, SameInput
    <2>3. TablesRead' /\ Unplaced' /\ (StationsKept' <=> StationsKept) /\ (EdgesTell' <=> EdgesTell)
      BY <2>1, <2>2 DEF TablesInv, TablesRead, Unplaced, StationsKept, EdgesTell, Edge
    <2>4. ReadingStations' /\ ReadingConnections' /\ Connected'
      BY <2>1, <2>2, <2>3 DEF TablesInv, ReadingStations, ReadingConnections, Connected,
                              InTable, StationsTell, ConnectionsTell
    <2>5. AddingEdges' /\ ReadingStops' /\ Serving'
      BY <2>1, <2>2, <2>3 DEF TablesInv, AddingEdges, ReadingStops, Serving, InTable, StopsTell, Located
    <2> QED BY <1>1, <2>3, <2>4, <2>5 DEF TablesInv
  <1> QED
    BY <1>1, <1>2, <1>3, StepReadStation, StepEndOfStations, StepReadConnection, StepAddStations,
       StepAddEdgeTables, StepEndOfEdges, StepNoStops, StepReadStop, StepMerge DEF Next

-----------------------------------------------------------------------------
\* The last good row of its key, of the key of a given entry.
LEMMA EntryFromLast ==
    ASSUME NEW m, NEW n \in Nat, NEW good \in SUBSET (1..n), NEW key, NEW val,
           Tells(m, good, key, val, n), NEW k \in DOMAIN m
    PROVE  \E i \in good : LastOfKey(i, good, key) /\ key[i] = k /\ m[k] = val[i]
  <1>1. PICK i \in good : /\ key[i] = k /\ m[k] = val[i]
                          /\ \A j \in good : i < j /\ j <= n => key[j] # k
    BY DEF Tells
  <1>2. \A j \in good : j <= n
    OBVIOUS
  <1> QED BY <1>1, <1>2 DEF LastOfKey

LEMMA LastConnection ==
    ASSUME Good(input.connections) \subseteq Nat, NEW i
    PROVE  i \in LastRows(input.connections, SamePair)
           <=> LastOfKey(i, Good(input.connections), ConnectionKey)
  BY DEF LastRows, SamePair, Good, ConnectionKey, LastOfKey

\* A name has the place of its last stop, and none without a stop.
LEMMA PlaceOfName ==
    ASSUME input.stops # Unreadable, TablesRead, StopsTell(Len(input.stops)), NEW name
    PROVE  LET at == StopsOf(input.stops, name)
           IN  IF at = {} THEN name \notin DOMAIN stops
               ELSE name \in DOMAIN stops /\ stops[name] = input.stops[Max(at)].pos
  <1> DEFINE T  == input.stops
             at == StopsOf(T, name)
  <1>1. Len(T) \in Nat /\ DOMAIN T = 1..Len(T) /\ Good(T) \subseteq 1..Len(T)
    BY RowsOf DEF TablesRead
  <1>2. Tells(stops, Good(T), StopKey, StopVal, Len(T))
    BY DEF StopsTell
  <1>3. \A k : k \in at <=> k \in Good(T) /\ StopKey[k] = name
    BY DEF StopsOf, Good, StopKey
  <1>4. CASE name \in DOMAIN stops
    <2>1. PICK i \in Good(T) : /\ LastOfKey(i, Good(T), StopKey)
                               /\ StopKey[i] = name /\ stops[name] = StopVal[i]
      <3> HIDE DEF T, at
      <3>1. PICK i \in Good(T) : /\ StopKey[i] = name /\ stops[name] = StopVal[i]
                                 /\ \A j \in Good(T) : i < j /\ j <= Len(T) => StopKey[j] # name
        BY <1>2, <1>4 DEF Tells
      <3>2. \A j \in Good(T) : j <= Len(T)
        BY <1>1
      <3> QED BY <3>1, <3>2 DEF LastOfKey
    <2>2. i \in at /\ \A k \in at : i >= k
      BY <1>1, <1>3, <2>1 DEF LastOfKey
    <2>3. \A k \in at : (\A h \in at : k >= h) => k = i
      BY <1>1, <1>3, <2>2
    <2>4. Max(at) = i
      BY <2>2, <2>3 DEF Max
    <2>5. stops[name] = T[i].pos
      BY <1>1, <2>1 DEF StopVal
    <2> QED BY <1>4, <2>2, <2>4, <2>5
  <1>5. CASE name \notin DOMAIN stops
    <2>1. at = {}
      BY <1>1, <1>2, <1>3, <1>5 DEF Tells
    <2> QED BY <1>5, <2>1
  <1> QED BY <1>4, <1>5

\* Each station has what its last row and the last stop of its name give it.
LEMMA StationsServed ==
    ASSUME TablesInv, phase = "serving",
           NEW i \in LastRows(input.stations, SameStation),
           ~Overwritten(input.stations, input.stations[i].id)
    PROVE  LET r == input.stations[i]
               s == graph.station[r.id]
               at == IF input.stops = Unreadable THEN {}
                     ELSE StopsOf(input.stops, Normal[s.name])
           IN  /\ HasStation(graph, r.id)
               /\ s.line = r.line
               /\ s.name = NameRead(input.stations, i)
               /\ s.pos = IF at = {} THEN NoPosition ELSE input.stops[Max(at)].pos
  <1> DEFINE r == input.stations[i]
             s == graph.station[r.id]
             was == stations[r.id]
  <1>1. i \in DOMAIN input.stations /\ r.id = StationKey[i]
    BY DEF LastRows, StationKey
  <1>2. r.id \in DOMAIN stations /\ was = StationVal[i]
    BY <1>1 DEF TablesInv, Connected, StationsKept
  <1>3. was.line = r.line /\ was.name = NameRead(input.stations, i) /\ was.pos = NoPosition
        /\ was = [name |-> was.name, line |-> was.line, pos |-> was.pos]
    BY <1>1, <1>2 DEF StationVal
  <1>4. CASE input.stops = Unreadable
    <2>1. s = was /\ HasStation(graph, r.id)
      BY <1>2, <1>4 DEF TablesInv, Serving, HasStation
    <2> QED BY <1>3, <1>4, <2>1
  <1>5. CASE input.stops # Unreadable
    <2>1. HasStation(graph, r.id) /\ s = Located(was) /\ StopsTell(Len(input.stops)) /\ TablesRead
      BY <1>2, <1>5 DEF TablesInv, Serving, HasStation
    <2>2. /\ s.line = was.line /\ s.name = was.name
          /\ s.pos = IF Normal[was.name] \in DOMAIN stops THEN stops[Normal[was.name]]
                     ELSE was.pos
      <3> HIDE DEF s, was
      <3>1. was = [name |-> was.name, line |-> was.line, pos |-> was.pos]
        BY <1>3
      <3> QED BY <2>1, <3>1 DEF Located
    <2>3. LET at == StopsOf(input.stops, Normal[was.name])
          IN  IF at = {} THEN Normal[was.name] \notin DOMAIN stops
              ELSE /\ Normal[was.name] \in DOMAIN stops
                   /\ stops[Normal[was.name]] = input.stops[Max(at)].pos
      BY <1>5, <2>1, PlaceOfName
    <2> HIDE DEF r, s, was
    <2> QED BY <1>3, <1>5, <2>1, <2>2, <2>3 DEF r, s
  <1> QED BY <1>4, <1>5

\* Each pair has the edge its last row calls for, and no pair another one.
LEMMA EdgesServed ==
    ASSUME TablesInv, phase = "serving", NEW from \in Id, NEW to \in Id
    PROVE  {[weight |-> e.weight, type |-> e.type] :
              e \in {x \in OutEdges(graph, from) : x.target = to}}
           = {[weight |-> input.connections[i].weight,
               type |-> Classify(graph, from, to, input.connections[i].weight)] :
               i \in {k \in LastRows(input.connections, SamePair) :
                        SamePair(input.connections[k], [from |-> from, to |-> to])}}
  <1> DEFINE C == input.connections
             pair == <<from, to>>
             last == {k \in LastRows(C, SamePair) : SamePair(C[k], [from |-> from, to |-> to])}
             Row(w) == [weight |-> w, type |-> Classify(graph, from, to, w)]
             there == {p \in DOMAIN connections : p = pair}
  <1>1. /\ C # Unreadable /\ ConnectionsTell(Len(C)) /\ todo = {}
        /\ {x \in OutEdges(graph, from) : x.target = to}
           = {Edge(p) : p \in {q \in DOMAIN connections \ todo : q = pair}}
    BY DEF TablesInv, Connected, Serving, EdgesTell, Between
  <1>2. Len(C) \in Nat /\ DOMAIN C = 1..Len(C) /\ Good(C) \subseteq 1..Len(C)
    BY <1>1, RowsOf DEF TablesInv, TablesRead
  <1>3. {[weight |-> e.weight, type |-> e.type] :
              e \in {x \in OutEdges(graph, from) : x.target = to}}
        = {Row(connections[p]) : p \in there}
    <2>1. {x \in OutEdges(graph, from) : x.target = to} = {Edge(p) : p \in there}
      BY <1>1
    <2> DEFINE Shown(e) == [weight |-> e.weight, type |-> e.type]
    <2>2. \A p \in there : Shown(Edge(p)) = Row(connections[p])
      BY DEF Edge
    <2>3. {Shown(e) : e \in {Edge(p) : p \in there}} = {Row(connections[p]) : p \in there}
      <3> HIDE DEF there, Row, Shown
      <3> QED BY <2>2
    <2> HIDE DEF there, Row
    <2> QED BY <2>1, <2>3
  <1>4. \A k : k \in last <=> LastOfKey(k, Good(C), ConnectionKey) /\ ConnectionKey[k] = pair
    <2>1. \A k : k \in LastRows(C, SamePair) <=> LastOfKey(k, Good(C), ConnectionKey)
      BY <1>2, LastConnection
    <2>2. \A k \in Good(C) :
             SamePair(C[k], [from |-> from, to |-> to]) <=> ConnectionKey[k] = pair
      BY <1>2 DEF SamePair, ConnectionKey, Good
    <2> QED BY <2>1, <2>2 DEF LastOfKey
  <1>5. \A k \in last : pair \in there /\ connections[pair] = C[k].weight
    <2>1. SUFFICES ASSUME NEW k \in last
                   PROVE  pair \in DOMAIN connections /\ connections[pair] = C[k].weight
      OBVIOUS
    <2>2. LastOfKey(k, Good(C), ConnectionKey) /\ ConnectionKey[k] = pair /\ k \in Good(C)
      BY <1>4 DEF LastOfKey
    <2>3. Tells(connections, Good(C), ConnectionKey, ConnectionVal, Len(C))
      BY <1>1 DEF ConnectionsTell
    <2>4. /\ ConnectionKey[k] \in DOMAIN connections
          /\ connections[ConnectionKey[k]] = ConnectionVal[k]
      <3>1. Len(C) \in Nat /\ Good(C) \in SUBSET (1..Len(C))
        BY <1>2
      <3>2. LastOfKey(k, Good(C), ConnectionKey)
        BY <2>2
      <3> HIDE DEF C, pair, last
      <3> QED BY <2>3, <3>1, <3>2, TellsLast
    <2> QED BY <1>2, <2>2, <2>4 DEF ConnectionVal
  <1>6. pair \in there => \E k \in last : connections[pair] = C[k].weight
    <2>1. SUFFICES ASSUME pair \in DOMAIN connections
                   PROVE  \E k \in last : connections[pair] = C[k].weight
      OBVIOUS
    <2>2. PICK k \in Good(C) : /\ LastOfKey(k, Good(C), ConnectionKey)
                               /\ ConnectionKey[k] = pair
                               /\ connections[pair] = ConnectionVal[k]
      <3>1. Tells(connections, Good(C), ConnectionKey, ConnectionVal, Len(C))
        BY <1>1 DEF ConnectionsTell
      <3> HIDE DEF C, pair
      <3> QED BY <1>2, <2>1, <3>1, EntryFromLast
    <2> QED BY <1>2, <1>4, <2>2 DEF ConnectionVal
  <1>7. \A p \in there : p = pair
    OBVIOUS
  <1> HIDE DEF last, pair, there, Row
  <1>8. {Row(connections[p]) : p \in there} = {Row(C[i].weight) : i \in last}
    BY <1>5, <1>6, <1>7
  <1> QED BY <1>3, <1>8 DEF last, Row

\* What is served is what the tables say: each station with the name, line and
\* place of its last row and last stop, each pair with the edge of its last row,
\* of the type its stations call for, and nothing in between that the tables do
\* not name.
THEOREM TablesServed == Spec => []ServesTables
  <1>1. TablesInv => ServesTables
    <2> SUFFICES ASSUME TablesInv, phase = "serving" PROVE ServesTables
      BY DEF ServesTables
    <2> QED BY StationsServed, EdgesServed DEF ServesTables
  <1> QED BY <1>1, InitTables, StepTables, PTL DEF Spec
=============================================================================

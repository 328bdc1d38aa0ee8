------------------------------- MODULE Loader -------------------------------
(***************************************************************************)
(* How the server comes up: main reads the two CSV tables (CSVStationParser,*)
(* CSVConnectionParser), GraphLoader::load builds the graph from them, main *)
(* merges coordinates from the GTFS stops, and only then serves.  One step  *)
(* per row read and per edge added; the maps in between are unordered, so   *)
(* edges are added in any order.                                            *)
(***************************************************************************)
EXTENDS TransitGraph, AppConfig, StopNames

CONSTANTS
    Hosts,      \* what the server may find: see AppConfig, and [path -> table] as files
    Unreadable, \* a file that cannot be opened (stops: or lacks a column)
    Blank,      \* a line without anything
    Malformed   \* a line without its fields (among the stops: or its numbers)

\* a name that has swallowed an empty line, and one that is nothing else
Newline == <<10>>
WithNewline(name) == Newline \o name

\* the names there are, normalised
Normal == [name \in Name |-> NormalizeName(name)]

ASSUME NameAssumption ==
    0 \in Id /\ Name \subseteq Seq(Nat) /\ Newline \in Name

StationRow    == [id: Id, name: Name, line: Line \cup {NoLine}]
ConnectionRow == [from: Id, to: Id, weight: Nat]
StopRow       == [name: Name, pos: Position]

FileOf(h, path) == IF path \in DOMAIN h.files THEN h.files[path] ELSE Unreadable

Table(rows) == {Unreadable} \cup Seq(rows)

\* what from_env leads to on every host are tables of their kind
ASSUME TablesAssumption ==
    /\ Malformed \notin StationRow
    /\ \A h \in Hosts :
          LET c == FromEnv(h) IN
          /\ FileOf(h, StationsPath(c)) \in Table(StationRow \cup {Blank})
          /\ FileOf(h, ConnectionsPath(c)) \in Table(ConnectionRow \cup {Blank, Malformed})
          /\ FileOf(h, GtfsStopsPath(c)) \in Table(StopRow \cup {Blank, Malformed})

VARIABLES
    host, config,
    phase,       \* what main is doing
    row,         \* index of the next line of the file being read
    newline,     \* has the next name swallowed an empty line?
    stations,    \* CSVStationParser's map: id -> station
    connections, \* CSVConnectionParser's nested map: from, to -> weight
    todo,        \* the edges the two loops of load have yet to add
    stops,       \* GTFSStopsParser's map: normalised name -> position
    graph

given == <<host, config>>
vars == <<host, config, phase, row, newline, stations, connections, todo, stops, graph>>

FileAt(path) == FileOf(host, path)

\* the three files main opens
input == [stations    |-> FileAt(StationsPath(config)),
          connections |-> FileAt(ConnectionsPath(config)),
          stops       |-> FileAt(GtfsStopsPath(config))]

Init ==
    /\ host \in Hosts /\ config = FromEnv(host)
    /\ phase = "stations" /\ row = 1 /\ newline = FALSE
    /\ stations = <<>> /\ connections = <<>> /\ todo = {} /\ stops = <<>>
    /\ graph = EmptyGraph

Goto(p) == phase' = p /\ row' = 1

-----------------------------------------------------------------------------
(* CSVStationParser::parse                                                  *)

\* the exception reaches main, which returns 1
CannotOpen ==
    /\ \/ phase = "stations" /\ input.stations = Unreadable
       \/ phase = "connections" /\ input.connections = Unreadable
    /\ Goto("exited")
    /\ UNCHANGED <<given, newline, stations, connections, todo, stops, graph>>

(* Fields are read up to the next comma, whatever line it is on: an empty   *)
(* line becomes part of the next name.                                      *)
ReadStation ==
    /\ phase = "stations" /\ input.stations # Unreadable
    /\ row <= Len(input.stations)
    /\ LET r == input.stations[row] IN
       IF r = Blank
       THEN newline' = TRUE /\ UNCHANGED stations
       ELSE /\ stations' = Put(stations, r.id,
                  [name |-> IF newline THEN WithNewline(r.name) ELSE r.name,
                   line |-> r.line, pos |-> NoPosition])
            /\ newline' = FALSE
    /\ row' = row + 1
    /\ UNCHANGED <<given, phase, connections, todo, stops, graph>>

(* With an empty line last, the name read is that newline: the guard for an *)
(* empty name does not see it, and the record, without further fields, is   *)
(* kept under id 0.                                                         *)
EndOfStations ==
    /\ phase = "stations" /\ input.stations # Unreadable
    /\ row > Len(input.stations)
    /\ stations' = IF newline
                   THEN Put(stations, 0, [name |-> Newline, line |-> NoLine, pos |-> NoPosition])
                   ELSE stations
    /\ newline' = FALSE
    /\ Goto("connections")
    /\ UNCHANGED <<given, connections, todo, stops, graph>>

-----------------------------------------------------------------------------
(* CSVConnectionParser::parse reads by lines, and skips what it cannot use. *)

\* the first row of a pair wins
RecordKeepsFirstMutant(from, to, weight) ==
    IF <<from, to>> \in DOMAIN connections THEN connections
    ELSE Put(connections, <<from, to>>, weight)

Record(from, to, weight) == Put(connections, <<from, to>>, weight)

ReadConnection ==
    /\ phase = "connections" /\ input.connections # Unreadable
    /\ row <= Len(input.connections)
    /\ LET r == input.connections[row] IN
       connections' = IF r \in {Blank, Malformed} THEN connections
                      ELSE Record(r.from, r.to, r.weight)
    /\ row' = row + 1
    /\ UNCHANGED <<given, phase, newline, stations, todo, stops, graph>>

-----------------------------------------------------------------------------
(* GraphLoader::load: all the stations, then the edges.                     *)

AddStations ==
    /\ phase = "connections" /\ input.connections # Unreadable
    /\ row > Len(input.connections)
    /\ graph' = [graph EXCEPT !.station = stations]
    /\ todo' = DOMAIN connections
    /\ Goto("edges")
    /\ UNCHANGED <<given, newline, stations, connections, stops>>

\* classify_connection; RIDE when an end is not a station
Classify(g, from, to, weight) ==
    IF /\ HasStation(g, from) /\ HasStation(g, to)
       /\ \/ weight = 0
          \/ /\ g.station[from].name = g.station[to].name
             /\ g.station[from].line # g.station[to].line
    THEN "TRANSFER" ELSE "RIDE"

Edge(p) == [target |-> p[2], weight |-> connections[p],
            type |-> Classify(graph, p[1], p[2], connections[p])]

\* edges in both directions, as if the table were of undirected links
AddEdgeBothWaysMutant ==
    /\ phase = "edges"
    /\ \E p \in todo :
          /\ graph' = AddConnection(AddConnection(graph, p[1], Edge(p)),
                          p[2], [Edge(p) EXCEPT !.target = p[1]])
          /\ todo' = todo \ {p}
    /\ UNCHANGED <<given, phase, row, newline, stations, connections, stops>>

AddEdge ==
    /\ phase = "edges"
    /\ \E p \in todo :
          /\ graph' = AddConnection(graph, p[1], Edge(p))
          /\ todo' = todo \ {p}
    /\ UNCHANGED <<given, phase, row, newline, stations, connections, stops>>

EndOfEdges ==
    /\ phase = "edges" /\ todo = {}
    /\ Goto("stops")
    /\ UNCHANGED <<given, newline, stations, connections, todo, stops, graph>>

-----------------------------------------------------------------------------
(* GTFS coordinates: a failure is a warning, the graph stays as it is.      *)

NoStops ==
    /\ phase = "stops" /\ input.stops = Unreadable
    /\ Goto("serving")
    /\ UNCHANGED <<given, newline, stations, connections, todo, stops, graph>>

ReadStop ==
    /\ phase = "stops" /\ input.stops # Unreadable /\ row <= Len(input.stops)
    /\ LET r == input.stops[row] IN
       stops' = IF r \in {Blank, Malformed} THEN stops
                ELSE Put(stops, Normal[r.name], r.pos)
    /\ row' = row + 1
    /\ UNCHANGED <<given, phase, newline, stations, connections, todo, graph>>

Located(s) == [s EXCEPT !.pos = IF Normal[s.name] \in DOMAIN stops
                                THEN stops[Normal[s.name]] ELSE @]

Merge ==
    /\ phase = "stops" /\ input.stops # Unreadable /\ row > Len(input.stops)
    /\ graph' = [graph EXCEPT !.station = [id \in DOMAIN @ |-> Located(@[id])]]
    /\ Goto("serving")
    /\ UNCHANGED <<given, newline, stations, connections, todo, stops>>

-----------------------------------------------------------------------------
Next == \/ CannotOpen
        \/ ReadStation \/ EndOfStations \/ ReadConnection
        \/ AddStations \/ AddEdge \/ EndOfEdges
        \/ NoStops \/ ReadStop \/ Merge

\* main runs on: nothing here waits for anything
Spec == Init /\ [][Next]_vars /\ WF_vars(Next)
-----------------------------------------------------------------------------
\* the rows of a file that have no later row for the same thing
LastRows(rows, Same(_, _)) ==
    {i \in DOMAIN rows : /\ rows[i] \notin {Blank, Malformed}
                         /\ \A j \in DOMAIN rows :
                               j > i /\ rows[j] \notin {Blank, Malformed} => ~Same(rows[i], rows[j])}

SameStation(r, s) == r.id = s.id
SamePair(r, s) == r.from = s.from /\ r.to = s.to

\* the name row i of the stations is read with
NameRead(rows, i) ==
    IF i > 1 /\ rows[i - 1] = Blank THEN WithNewline(rows[i].name) ELSE rows[i].name

\* the record made up from an empty last line takes the place of a station 0
Overwritten(rows, id) == id = 0 /\ rows[Len(rows)] = Blank

\* the rows of a readable file of stops for a name
StopsOf(rows, name) ==
    {k \in DOMAIN rows : rows[k] \notin {Blank, Malformed} /\ Normal[rows[k].name] = name}

(* What is served is what the files say, whatever their order, their blank  *)
(* lines and repeated rows: the last row of each station with the place the *)
(* last stop of its name gives it, and the last row of each pair, as an     *)
(* edge of the type the stations it joins call for.  An empty last line may *)
(* cost a station 0 its row, as the run of NoGhostStation shows.            *)
ServesTables ==
    phase = "serving" =>
    LET files == input IN
    /\ \A i \in LastRows(files.stations, SameStation) :
          LET r == files.stations[i]
              s == graph.station[r.id]
              at == IF files.stops = Unreadable THEN {} ELSE StopsOf(files.stops, Normal[s.name])
          IN  ~Overwritten(files.stations, r.id) =>
              /\ HasStation(graph, r.id)
              /\ s.line = r.line
              /\ s.name = NameRead(files.stations, i)
              /\ s.pos = IF at = {} THEN NoPosition ELSE files.stops[Max(at)].pos
    /\ \A from, to \in Id :
          {[weight |-> e.weight, type |-> e.type] :
              e \in {x \in OutEdges(graph, from) : x.target = to}}
          = {[weight |-> files.connections[i].weight,
              type |-> Classify(graph, from, to, files.connections[i].weight)] :
              i \in {k \in LastRows(files.connections, SamePair) :
                       SamePair(files.connections[k], [from |-> from, to |-> to])}}

(* The loader never builds parallel edges, which is why the type a search   *)
(* shows for a segment, that of the first edge there, is the type of the    *)
(* edge it used (Dijkstra.cpp 130-136).                                     *)
NoParallelEdges ==
    \A id \in DOMAIN graph.adjacency : \A i, j \in DOMAIN graph.adjacency[id] :
       i # j => graph.adjacency[id][i].target # graph.adjacency[id][j].target

\* the directories of README.md 86-90 in that order, a limit to each way up
Upwards(dir) == [k \in 1..Min({Len(dir) + 1, MaxLevels}) |-> SubSeq(dir, 1, Len(dir) - k + 1)]

Tables ==
    LET ways == SelectSeq(<<host.compiled>> \o Upwards(host.exe) \o Upwards(host.cwd),
                          LAMBDA dir : dir \in host.projects)
        dir  == IF "DATA_PATH" \in DOMAIN host.env THEN host.env["DATA_PATH"]
                ELSE Append(Head(Append(ways, host.cwd)), "data")
    IN  {FileAt(Append(dir, Getenv(host, "STATIONS_FILE", "s.csv"))),
         FileAt(Append(dir, Getenv(host, "CONNECTIONS_FILE", "c.csv")))}

(* The server comes up exactly when both tables can be read in the          *)
(* directory DATA_PATH names, or in the first project there is if that is   *)
(* not set; the stops are welcome but never needed.  Each directory has its *)
(* own default, as the comment on AppConfig (lines 58-64) and the table of  *)
(* the repository's README (76, 79) have it: with GTFS_PATH set and         *)
(* DATA_PATH not, the tables are still looked for in the project, which is  *)
(* what the code does (125-133).  The comment on line 124 says otherwise:   *)
(* that nothing is resolved unless neither of the two was set.              *)
StartsIffReadable == <>[](phase = IF Unreadable \in Tables THEN "exited" ELSE "serving")

(* CSVParserTest.cpp 60: no station with id 0 from an empty line.           *)
NoGhostStation ==
    \A id \in DOMAIN stations :
       \E i \in DOMAIN input.stations : input.stations[i] # Blank /\ input.stations[i].id = id
=============================================================================

# City-Mapper in TLA+

City-Mapper answers "how do I get from this metro station to that one": a C++
server loads the network from CSV tables, finds shortest routes with Dijkstra or
A*, caches them, and serves them to an Angular client. This directory holds
TLA+ modules of its core, the TLC configurations that check them, and proofs
that TLAPS checks. File names below are relative to `backend/src/` or
`frontend/src/app/`.

## The system

| Part | State | Operations | Hard about it |
|---|---|---|---|
| Graph (`core/graph`) | stations, adjacency lists | add, look up, search by name | nothing ties the two maps together: edges may lead to ids without a station |
| Dijkstra, A* (`core/algorithms`) | per call: heap, distances, parents, settled set | `compute` | outdated heap entries, ties and zero weights, the walk back, when skipping a settled station is right |
| LRU cache (`core/cache`) | list, map of iterators, two counters | get, put, clear, statistics | two structures in step, eviction at the limit, capacity 0 |
| Route endpoint, health (`api/controllers`) | the cache, shared by the server's threads | `computeRoute`, `health` | lookup, search and store are separate critical sections |
| Station endpoints | none | list, get, connections, search | stations met in the order of a hash map, several per name |
| Start-up (`config`, `data`, `main.cpp`) | settings, tables, graph under construction | find the files, parse, build, merge coordinates, serve | two directories resolved together, blank, malformed and repeated rows, unordered maps, optional GTFS file |
| Route slice and search panel (`store/route`, `features/search`) | selection, route, loading, error, history | select, compute, recent searches | answers race selections, timers and other requests |
| Station slice and autocomplete (`store/station`) | two boxes, results, searching | type, pick, clear, focus | two debounces, two filters of repetitions, one shared list |
| Map view (`features/map`) | list of stations, drawn route, animation frame, deep link | draw, clear, animate, leave, return | a loop of frames of which only the last handle is known |
| Voice input (`core/services/speech.service.ts`) | recogniser, two buttons | listen, stop, hear | two buttons on the same two subjects, events of recognisers already replaced |
| UI slice, settings | toggles | toggle | nothing |
| First command-line mapper (`source/` at the root) | its own maps, filled by reading them | parse, choose, search, print | `operator[]` that inserts, a walk back in one pass |

They interact by calls within the server (endpoint -> cache -> pathfinder ->
graph, the graph read-only once served), by HTTP between client and server, and
in the client by dispatched actions that reducers and effects receive.

What makes each correct:

* pathfinders: return, and return a shortest ride, or "not found" exactly when
  there is none (`Pathfinder`, `ShortestRide`);
* cache: behaves as a map that forgets, the least recently used first
  (`CacheContract`);
* server: clients cannot tell that there is a cache (`RouteService`);
* station search: the answer depends on the stations, not on the order in which
  they are met (`StationController!GroupsRight`, `RankedRight`);
* start-up: what is served is what the tables say, and the server comes up
  exactly when it can (`Loader!ServesTables`, `StartsIffReadable`);
* client: the last request wins, the flags tell the truth, every wait ends, what
  is drawn is what is current, no animation and no button is left on;
* first mapper: the way is shortest and the directions add up.

The full list of what can go wrong and where is under `hazards` in
`PROJECT.json`, each with the property that covers it or the reason none does.

## The modules

| Module | Stands for | How state and steps correspond |
|---|---|---|
| `TransitGraph` | `Graph`, `Station`, `WeightedEdge` | a graph is a value of two functions; `Put` is `operator[]` and assignment |
| `RouteResult` | `RouteResult.hpp` and the tail of both searches | from path and costs to segments, transfers, raw path; also what a route is held against: rides, and distances by Bellman's rounds |
| `Dijkstra` | `Dijkstra::compute` | one step per iteration of its three loops, one per early return; a behaviour is one call |
| `AStar` | `AStar::compute` | the same loops, the heap ordered by g + h |
| `Pathfinder` | the promise of `IPathfinder` | one step from call to answer, at the distance and by a ride |
| `ShortestRide` | a rider against Dijkstra's answer | the search composed with a rider who follows any edges; carries the inductive invariant |
| `GuidedRide` | a rider against A*'s answer | the same for `AStar`, with what the estimates must satisfy for it (`Consistent`) |
| `LRUCache` | `LRUCache.hpp` | each operation holds the mutex throughout, so it is one step; the map of iterators is its set of keys |
| `CacheContract` | what the cache promises | a map that may forget one key per store, only when full; calls and answers are observed |
| `RecentUse` | the cache with the moment of each key's last hit or store | extends `LRUCache` by a history it never reads, for the property of eviction |
| `RouteServer` | `RouteController`, `HealthController` on several threads | one step per stretch between two calls into the cache; instantiates `LRUCache` |
| `RouteStatistics` | the server with what its clients were told | extends `RouteServer` by a history it never reads, for the property of the counters |
| `RouteService` | the endpoint as a client sees it | ask, reply |
| `StationController` | the four station endpoints, `Graph::search_stations`, the normalisation of `StringUtils.hpp` | a behaviour is one request; one step per station the search meets, in any order; names are sequences of code points |
| `AppConfig` | `AppConfig.hpp` | paths are sequences of names; `FromEnv` is the configuration a host leads to |
| `StopNames` | `normalize_name` of `GTFSStopsParser.cpp` | a function on sequences of code points |
| `Loader` | `main` up to serving, parsers, `GraphLoader` | one step per row read and per edge added; starts from `FromEnv` of a host and opens the files it names |
| `RouteStore` | route slice and effect, search panel, recent searches | one step per browser callback, with everything it dispatches |
| `MapView` | `MapComponent`, `RouteLayer`, the list of stations, deep links | extends `RouteStore`: subscribers run inside the dispatch, so a change of route and its drawing are one step; one step per animation frame |
| `StationSearch` | station slice and effect, the two boxes | one step per event, timer and answer; the timers all take 300 ms, so they fire in the order they were set |
| `VoiceInput` | `SpeechService` and the two buttons | one step per click and per event of a recogniser, which come late |
| `VoiceSearch` | the search panel | composes `StationSearch` and `VoiceInput`: words heard are set as the text of a box; closing the panel destroys box after box, each letting the text that waits through (`takeUntil` comes before `debounceTime`), and opening it builds them anew |
| `LegacyMapper` | `source/main.cpp`, `source/station_parser.cpp` | one step per table, entry, station expanded, walk back and print-out; the maps keep what a search inserted |
| `DijkstraProofs`, `AStarProofs` (both with `RouteFacts`), `LRUCacheProofs`, `RouteServerProofs`, `StationControllerProofs`, `LoaderProofs`, `ClientProofs`, `LegacyMapperProofs` | | theorems and proofs |

`RouteServer` composes with `LRUCache` and `RouteStatistics` with
`RouteServer`, `Loader` with `AppConfig` and
`StopNames`, `MapView` with `RouteStore`, `VoiceSearch` with `StationSearch` and
`VoiceInput`, `ShortestRide` with `Dijkstra`, `GuidedRide` with `AStar`, and both
searches with `TransitGraph` and `RouteResult`. `AStar` instantiates `Dijkstra` twice over: as
what it degrades to without coordinates, and, by `Pathfinder`, as its equal.

Abstractions. Costs are natural numbers (the code's `uint64_t` would need
weights near 2^64 to differ). The binary heap is the set of its entries, popped
in the order of `std::greater` on (cost, id); a pair is never pushed twice. A
place on the map is an abstract position and the straight-line estimate a
function of two of them. In `RouteServer` a computed route is what identifies it
(finder, ends, found or not). In `Loader` a line of a
table is well formed, blank or malformed, without its fields being split; two
newlines in front of a name count as one, and stations are added to the graph in
one step, their order being invisible. In `StationController` a score counts
bytes as the code does, from the code points. In `MapView` a drawing is the route
and whether it has points (`placed`), which the model leaves open as soon as the
list of stations is there, since no station need have a place. In `LegacyMapper`
an entry is an id or no number, and of the newlines of a table only the one at
its end is kept, which makes the program read a row too many.

## The runs

| Run | Question | Instance |
|---|---|---|
| `dijkstra` | does `compute` keep its promise, does any rider beat the route, is the invariant of the proofs true? | every small network of up to four stations from a chosen set of edges: parallel edges, loops, zero weights, dangling ids, unknown stations, start = end, ways of three hops through an id without a station; riders of at most `MaxHops` = 3 hops |
| `astar` | is A* right with coordinates everywhere, and without any Dijkstra step by step? | networks whose edges never beat the straight line, and networks without coordinates |
| `astar_partial` | is it right with coordinates for some stations? | violated, see below |
| `lru` | does the cache keep its contract? | 4 keys, 2 values, capacity 3 |
| `server` | is the cache invisible under concurrency, and do its statistics account for what clients were told? | 2 threads, 3 requests, a cache of one entry, one unknown station, one pair without a route |
| `ranking` | does a search depend on the order of a hash map? | 4 stations with any of five names (accents, capitals, a ligature, a long one), two queries and an empty one, two limits, 3 lines; every order |
| `loader` | is what is served what the tables say, and when does the server come up? | every station table of up to three rows, connection tables of up to two rows and one of four, four stop files, unreadable files; and one pair of tables in any of three places with every subset of four environment variables, project roots and a compiled-in root |
| `loader_trailing` | does an empty last line make up a station? | violated, see below |
| `map_view` | do flags, route, history and drawing stay true? | 2 stations, 2 algorithms, a history of 2, 3 searches, leaving and coming back |
| `voice_search` | do suggestions answer the last query, and do buttons switch off? | 2 boxes, 2 queries, one short text, 4 user events, 2 recognisers |
| `station_repeat` | does every search end? | violated, see below |
| `legacy` | is the way shortest and do the directions add up? | 4 stations on two lines, two of them namesakes, an id without a station, times over a minute and an hour, two searches in a row, tables with and without a newline at their end, a table of its header only, files that cannot be read |

Why the bounds suffice. A shortest-path mistake needs two ways to a station and
a third to be reached through it, which four stations give, with weights that
tie and weights of zero. The cache needs its capacity, one more key, and an
entry in the middle of the list. The server's races are between two threads on
one key, with a third request that evicts or hits. Grouping needs a name that
three stations share, met best first and best last, and a fourth that competes
with it. A wrong choice of directory needs one directory given and the other
looked for, and a place for each that holds the files or does not. The history
needs one pair more than it keeps, a lost answer two requests, an animation left
over a second route. A late event of a recogniser needs a second one. In the
first mapper a second search meets what the first one inserted. The bounds are
named constants: `MaxHops`, `MaxLookups`, `MaxRequests`, `MaxSearches`,
`MaxEvents`, `MaxRecognisers`; `MaxLevels` is how far the code itself looks up
for a project, shortened from ten directories to three.

Deadlock is not checked where the system stops: a call that returned, a server
out of requests (a bound), a request that was answered, a loader that serves,
users out of events (a bound), a console program that was left.

Fairness. `compute` and `main` are sequential code and run on (weak fairness of
`Next`). A server thread with a request finishes its handler. In the client, a
timer fires, an HTTP request ends, well or badly, and a recogniser, which is
never continuous, comes to its end event; users never have to do anything. No
fairness is assumed of a choice between success and failure.

### Where code and documents part

* `astar_partial`: with coordinates for some stations only, the heuristic is
  admissible but not consistent, and a closed station is never reopened
  (`AStar.cpp` 95): the route may be longer than the shortest.
  `docs/ALGORITHMS.md` derives optimality from admissibility.
* `loader_trailing`: an empty line at the end of the station table becomes
  station 0 with a newline for a name; the guard meant for it tests for an empty
  name (`CSVStationParser.cpp` 35).
* `station_repeat`: the effect drops a query equal to the last one
  (`station.effects.ts` 37), after the reducer has already set `searching`:
  focusing a box again after the answer came, or retyping a cleared text, waits
  for ever.

More were met while reading and have no run of their own:

* a comment (`AppConfig.hpp` 124) has the directories looked for only if neither
  DATA_PATH nor GTFS_PATH was set; the code under it (125 to 133) looks for each
  of the two whose own variable is not set, as the comment on the struct (58 to
  64) and the table of the repository's `README.md` (76, 79) have it. The
  documents disagree with one another here, and `StartsIffReadable` checks the
  latter: with only GTFS_PATH set, the tables are still found;
* closing the search panel less than 300 ms after a key starts the search the
  key asked for, with no box left to show it (`Destroy` in `VoiceSearch`);
* the error card (`route-details.component.ts` 41) is inside a component that is
  only there when there is a route (`app.html` 31);
* changing the selection while a request is on its way leaves the earlier route
  on screen, under a share button that copies the later selection;
* a deep link does not compute a route as `map.component.ts` 192 says: `getById`
  (`station.service.ts` 78) reads a member `station` that `GET /stations/:id` does
  not send, and nobody handles the error (`LinkEnds` in `MapView`);
* `Graph.hpp` 74 promises matches at the start of a name first, but a tenth of
  the length in bytes is added to every score (`Graph.cpp` 109): a long name that
  starts with the query comes after a short one that contains it (`Score`);
* `StringUtils.hpp` 73 says that the ligature ae is written out, the code leaves
  it alone (`Plain`);
* `README.md` 89 and `AppConfig.hpp` 36 name `data/csv/s.csv`, the code looks for
  `data/s.csv`;
* PORT is cut to 16 bits without a check, so that 70000 listens on 4464
  (`FromEnv`);
* a change of line on the last hop of a route is no transfer, the line of a
  segment being that of its first station (`Dijkstra.cpp` 139);
* the first mapper crashes on two stations without a way between them
  (`station_parser.cpp` 202), reads past the end of the path from a station to
  itself (210), and asks for ever after an entry that is no number (389).

## What is proved

### Dijkstra

For every set of calls, graph, id, line, and number of hops (`DijkstraProofs`):

* `SearchCorrect`: the inductive invariant `SearchInv`, and from it
  `TypeCorrect`, `ParentsExist`, `SettledInOrder`: the locals are well typed,
  the walk back never invents a parent, stations settle in order of distance;
* `FoundIsRide`: a route found is a ride of the graph, edge by edge;
* `ShortestRoute`: no ride is faster, and where there is one a route is found;
* `SegmentsTellThePath`: the segments are the hops of the path between stations
  that are known, each once and in its place (`PlacesDiffer`), with its stations
  and its time;
* `KeepsPromise`: the safety part of the refinement to `Pathfinder`. `compute`
  takes the one step of the promise and stutters otherwise, so the time returned
  is the distance, and nothing is found exactly where there is none.

The invariant. `NoFasterRide` speaks of the end of a search, so the invariant has
to say what the search knows on the way (`SearchInv`, in `ShortestRide`): the
heap holds an entry at the current distance for every open station
(`HeapCovers`), every settled station but the one at work has had all its edges
relaxed (`Expanded`), a parent is one edge away at exactly the difference of the
distances (`ParentEdge`), the walk back follows parents (`Tracing`), and nothing
open is nearer than something settled (`SettledFirst`), which needs the popped
entry to be the least of the heap. The rider is then held by a potential
(`RiderInv`): the distance of where the rider is never exceeds the time taken,
or the rider has left the settled stations, and is already later than the route.

The distance. `Distance` is what a fixed number of rounds of relaxing all edges
at once leaves. Two bounds meet. From below: the stations and times a finished
search has not beaten (`Behind`) are closed under edges (`SearchCloses`), so no
round gets under the time returned. From above: the rounds reach every settled
station at its distance (`Reckoned`), because each was settled from a parent
settled before it, one round earlier. There are enough rounds, one per id, since
no station settles twice; `Reckoned` counts them. That the rounds exist
as a function at all, and what holds of each, is an induction over numbers, done
by the least number that fails (`SetInduction`), a set and not an operator.

### A*

For every graph and any estimates (`AStarProofs`): `GuidedSearchCorrect`, with
`GuidedParentsExist` and `GuidedFoundIsRide`; wrong estimates may cost
optimality, never truth, and a route is found wherever there is a ride
(`ConsistentIsShortest`). With estimates that drop along no edge by more than the
edge takes, no ride is faster, and `GuidedKeepsPromise` is the refinement to
`Pathfinder`. `BlindIsDijkstra`: without coordinates the steps are Dijkstra's
one by one, with the same ties.

The invariant `GuidedInv` is Dijkstra's with the heap ordered by g + h. What is
lost without consistency is one conjunct only, that stations close in the order
of g + h; everything that makes a found route a ride is proved without it. What
`astar_partial` shows is that the conjunct cannot be had otherwise. Lemmas about
graphs and routes alone are proved once, in `DijkstraProofs`, and cited from an
instance of it.

### The cache and the server

For every capacity, key and value set (`LRUCacheProofs`): `CacheTypeCorrect`,
`CacheCoherent`, `CacheBounded`, `EvictionHasVictim`, `EvictionTakesOldest`, and
`CacheImplementsContract`, the refinement to `CacheContract`. The inductive
invariant is the conjunction of types, coherence and bound: splice moves an entry
without changing which keys there are, and the number of keys equals the length
of the list because no key is there twice. With the history of `RecentUse`, the
list is moreover in the order of the last uses: splice and insertion put the key
just used first and keep the order of the others (`UsedFirst`), so the last entry
is the one unused longest.

For any number of threads, requests and any capacity (`RouteServerProofs`):
`ServerTypeCorrect`, `ServerCacheIsTrue`, `ServerAccountsLookups`,
`ReportsNeverBackwards`, and `ServesAsIfUncached`, the safety part of the
refinement to `RouteService`. The invariant: every entry of the cache, and every
route a thread holds between its search and its store, is what the search gives
for the key (`Computed`); the entries and the searches under way were each a
miss (`Counted`), which bounds cardinalities over the threads; and what a health
report has read first the counters have reached (`Reported`).
`ServerAccountsLookups` is about the server with its history (`CountedSpec`):
the hits are the routes clients were told came from the cache, and the misses
the routes they were told were computed, together with the searches under way.
Both are equations, so a lookup uncounted or counted twice breaks them (`Told`). What one operation does to list and
counters is stated once, beside the cache (`AfterGet`, `AfterPut`).

### Station search

For any stations, queries and limits (`StationControllerProofs`):
`GroupsAreRight`, in whatever order the hash map yields the stations, and from it
`RankingIsRight`. `GroupsRight` is nearly inductive, a visit comparing one score
with the best so far; that scores are numbers at all rests on a normalised name
being a sequence, hence on the type of a concatenation of sequences, by
`SetInduction` again. The ranking counts groups: as many as there are names,
none twice in the sorted sequence, so cutting it keeps the best.

### Start-up

For all files on all hosts (`LoaderProofs`): `EdgesNeverParallel`. The nested map
keeps one weight per pair, and while the edges are added the pairs of the edges
that are there are no longer among those to add (`EdgesOnce`). `TablesServed`:
what is served is what the tables say, the last row of an id or pair winning.
The invariant says it of the rows read so far: after each row the parser's map
tells the last of the rows up to it that has an id, the graph under construction
tells the map for the edges no longer to be added, and the merge changes places
only.

### The client

For any stations, algorithms, searches and length of the history
(`ClientProofs`): `StoreTypeCorrect`; `LoadingIsHonest`, `LastRequestShown`,
`OutcomesExclusive`, which are inductive together, for a late answer can only be
the last request's when nothing else is awaited; `RecentsTellTheStored`, where a
search put in front of a history that does not hold it any more leaves it without
repetitions, the entries kept being counted by their rank among those kept; and
`MapFollowsRoute` and `NoLoopAbandoned`, which also need that a page that was
left has nothing drawn.

For any boxes, queries and recognisers: `NoButtonIdle`, which holds because only
a button that listens to the shared subject can be on and any recogniser's end
switches all of those off; `OneHears`; and the action property `LastQueryShown`,
from the invariant that the effect awaits nothing but the query it took last,
closing the panel included, where the texts of several boxes are let through in
a row.

### The first mapper

For any tables over any finite set of ids, and whatever is typed
(`LegacyMapperProofs`): `TravelIsShortest`, the time told is that of a quickest
travel over the connections as the program read them, and where there is a
travel one is found, and `DirectionsTellAll`,
the times told, each split into hours, minutes and seconds, add up to that of the
whole travel, and every ride is told where it begins unless it begins at a
namesake of the destination.

The inductive invariant is `MapperInv` (theorem `MapperInvariant`). Of the search
it says that stations are visited once (`Distinct`), that none is queued again
and the destination is not among them (`Apart`), that they come in the order of
their times, none still in the queue being below one already visited (`InOrder`), that the first is the start at no time (`FromStart`), that each parent
was visited before and the connection to it accounts for the time (`Parents`),
and that every connection out of a visited station has been tried (`Relaxed`).
TLC agreed on the instance of `legacy` before it was proved.
`Distinct` and `Parents` are why a single pass backwards over the visited
stations is enough: looking for the parent of the station at hand, it always
meets it further on (`WalkBackIsTravel`). A search that runs dry has visited
stations closed under connections, so there was no way (`ExhaustedIsNoWay`). `InOrder` and `Relaxed` give the lower
bound, since the visited stations with their times are closed under connections
that could do better; the upper bound comes from counting, a visited station's
time being reached one round of relaxing after its parent's and there being as
many rounds as stations. The property reckons the quickest travel by those
rounds and knows nothing of the queue (`RoundsAre` to `ArrivesQuickest`).

The directions have a loop invariant: what has been told adds up to the stop at
which the present line was taken (`Directions` is a function on how much of the
path is done). `Hms` is undone by `Seconds` (`HmsTells`), so nothing is lost in
the conversion. That a function defined by recursion on 0..n exists, and is the
only one, is proved once (`Recursion`, `SameRecursion`) by `SetInduction`.

### From which assumptions

The named ones, next to the constants they are about:

* graph and searches: ids are natural numbers (`IdAssumption`) and there are
  finitely many, being `uint64_t` (`FiniteIds`); every call is well typed
  (`CallsAssumption`); an estimate is a natural number, and zero from a place to
  itself (`TravelTimeAssumption`, `SamePlaceAssumption`);
* cache and server: the capacity is a natural number, `NoValue` is no value, neither a route nor
  what is said of a failure (`NoValueAssumption`), and `NoRequest` no request, the threads are finitely many (`WorkerAssumption`),
  a search either finds or does not (`FoundAssumption`), and the bound on
  requests, there for TLC, is some natural number;
* start-up: the files of every host are tables of their kind or unreadable
  (`TablesAssumption`), and the name a blank line makes is a name
  (`NameAssumption`);
* station search: the graphs are graphs with finitely many stations
  (`GraphsAssumption`), a query is a sequence of code points
  (`RequestsAssumption`), the limits are natural numbers (`LimitsAssumption`) and
  bytes are divided by a positive number (`LengthStepAssumption`);
* the first mapper: ids are natural numbers, finitely many, and 0, which an
  empty field is read as, is one of them (`LegacyIdAssumption`); a table of connections
  cannot be read or is a sequence of rows over them (`LegacyFilesAssumption`);
* client: the history keeps at least one entry, the default algorithm is one of
  them, and no station is `None` (`RouteStoreAssumption`); the boxes in the order of
  the panel's template are all the boxes (`TemplateAssumption`).

### Only model-checked

* Termination and every other liveness property, in the refinements to
  `Pathfinder` and `RouteService` too: liveness under fairness is outside the
  prover's reach.
* When the server comes up (`StartsIffReadable`) and that buttons rest
  (`ButtonRests`), both liveness.

Every invariant and every action property of a passing run has a theorem.

## What is not modelled, and why

* The UI slice, settings, route details and shared components: toggles and
  presentation.
* Of the map, the layers of stations and lines: they draw what they are given.
* `Haversine.hpp` (floating-point geometry: `AStar` takes the estimate as a
  parameter), `TimeFormatter.hpp` and the layout of JSON.
* The splitting of CSV lines into fields, and of the first mapper's entries.
* The answers 503 of the station endpoints: `main` serves only with a graph.
* Exceptions inside the web framework, to which an id that is no unsigned number
  leads (`RouteController.cpp` 122).
* Wrap-around of costs: weights are seconds, far from 2^64.
* The CORS filter, attached to no controller; deployment.

## Plan

1. Done: the modules above; proofs of both searches up to the promise of
   `IPathfinder`, of the cache and its contract, of the server and its
   refinement, of the station search, of start-up, of the route slice with the
   map, of the search panel, and of the first mapper.
2. More of the model: rows of the tables as fields, to follow a missing field
   through both parsers.

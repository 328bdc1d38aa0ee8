----------------------------- MODULE RouteServer -----------------------------
(***************************************************************************)
(* The HTTP server: Drogon's threads running RouteController::computeRoute  *)
(* and HealthController::health over the one RouteCache.  Handlers run      *)
(* synchronously on their thread; between two calls into the cache another  *)
(* thread may do anything.  The graph is read-only once main has loaded it  *)
(* (main exits before serving when it cannot), so a search is a function of *)
(* its arguments.                                                           *)
(***************************************************************************)
EXTENDS Naturals, Sequences, FiniteSets

CONSTANTS
    Worker,          \* the threads (config.thread_count)
    StationId,       \* ids clients ask for
    Known,           \* ids the graph has a station for
    Algorithm,       \* the strings clients send
    Found(_, _),     \* is there a route between two stations?
    Capacity,        \* config.cache_size
    MaxRequests,     \* bound on the requests of a behaviour
    NoRequest, NoValue

ASSUME WorkerAssumption == IsFiniteSet(Worker)
ASSUME FoundAssumption == \A from, to \in StationId : Found(from, to) \in BOOLEAN
ASSUME CapacityAssumption == Capacity \in Nat
ASSUME MaxRequestsAssumption == MaxRequests \in Nat

VARIABLES
    list, map, hits, misses, reply, \* the cache (LRUCache)
    pc,       \* what each thread is about to do
    asked,    \* the request a thread is handling
    route,    \* the route it computed (local result)
    answer,   \* its last response
    report,   \* its last health response, as far as it is read
    accepted  \* requests taken so far

serverVars == <<pc, asked, route, answer, report, accepted>>
vars == <<list, map, hits, misses, reply, pc, asked, route, answer, report, accepted>>

(* A body without JSON, one without an id, or both ids and perhaps an       *)
(* algorithm ("" when the member is absent).                                *)
Request ==
    {[body |-> "invalid"], [body |-> "incomplete"]}
    \cup [body: {"ids"}, from: StationId, to: StationId, algorithm: Algorithm \cup {""}]

DefaultAlgorithm == "a_star"

Chosen(rq) == IF rq.algorithm = "" THEN DefaultAlgorithm ELSE rq.algorithm

\* create_pathfinder: any string but "dijkstra" is A*
Finder(algorithm) == IF algorithm = "dijkstra" THEN "Dijkstra" ELSE "A*"

\* compute(), abstracted to what identifies its result
Compute(finder, from, to) ==
    [finder |-> finder, from |-> from, to |-> to, found |-> Found(from, to)]

CacheKeyNoAlgorithmMutant(rq) == [start |-> rq.from, end |-> rq.to, algorithm |-> "a_star"]

CacheKey(rq) == [start |-> rq.from, end |-> rq.to, algorithm |-> Chosen(rq)]

Keys == [start: StationId, end: StationId, algorithm: Algorithm \cup {DefaultAlgorithm}]

Routes == [finder: {"Dijkstra", "A*"}, from: StationId, to: StationId, found: BOOLEAN]

Cache == INSTANCE LRUCache WITH Key <- Keys, Value <- Routes, MaxLookups <- MaxRequests

\* route_result_to_json: of a failure there is only the algorithm to tell
RouteJson(r) == IF r.found THEN r ELSE [finder |-> r.finder, found |-> FALSE]

Response(status, r, cached) == [status |-> status, route |-> r, cached |-> cached]

Failures == [finder: {"Dijkstra", "A*"}, found: {FALSE}]

Json == Routes \cup Failures \cup {NoValue}

Responses == [status: {200, 400, 404}, route: Json, cached: BOOLEAN]

\* NoRequest and NoValue are neither requests, responses, routes
\* nor what is said of a failure.
ASSUME NoRequestAssumption == NoRequest \notin Request \cup Responses
ASSUME NoValueAssumption == NoValue \notin Routes \cup Failures

NoReport == [size |-> 0, ratio |-> <<0, 0>>, hits |-> 0, misses |-> 0]

Init ==
    /\ Cache!Init
    /\ pc = [w \in Worker |-> "idle"]
    /\ asked = [w \in Worker |-> NoRequest]
    /\ route = [w \in Worker |-> NoValue]
    /\ answer = [w \in Worker |-> NoRequest]
    /\ report = [w \in Worker |-> NoReport]
    /\ accepted = 0

Goto(w, l) == pc' = [pc EXCEPT ![w] = l]

-----------------------------------------------------------------------------
(* computeRoute                                                             *)

Accept(w, rq) ==
    /\ pc[w] = "idle" /\ accepted < MaxRequests
    /\ accepted' = accepted + 1
    /\ asked' = [asked EXCEPT ![w] = rq]
    /\ Goto(w, "validate")
    /\ UNCHANGED <<list, map, hits, misses, reply, route, answer, report>>

Respond(w, response) ==
    /\ answer' = [answer EXCEPT ![w] = response]
    /\ asked' = [asked EXCEPT ![w] = NoRequest]
    /\ Goto(w, "idle")

\* no return after the error was sent
RejectFallsThroughMutant(w) ==
    /\ pc[w] = "validate" /\ asked[w].body # "ids"
    /\ answer' = [answer EXCEPT ![w] = Response(400, NoValue, FALSE)]
    /\ asked' = [asked EXCEPT ![w] = NoRequest]
    /\ Goto(w, "compute")
    /\ UNCHANGED <<list, map, hits, misses, reply, route, report, accepted>>

\* lines 103-148: 400 without JSON or ids, 404 for a station that is not there
Reject(w) ==
    /\ pc[w] = "validate"
    /\ \/ asked[w].body # "ids" /\ Respond(w, Response(400, NoValue, FALSE))
       \/ /\ asked[w].body = "ids" /\ {asked[w].from, asked[w].to} \ Known # {}
          /\ Respond(w, Response(404, NoValue, FALSE))
    /\ UNCHANGED <<list, map, hits, misses, reply, route, report, accepted>>

Lookup(w) ==
    /\ pc[w] = "validate"
    /\ asked[w].body = "ids" /\ {asked[w].from, asked[w].to} \subseteq Known
    /\ Cache!Get(CacheKey(asked[w]))
    /\ IF reply'.value # NoValue
       THEN Respond(w, Response(200, RouteJson(reply'.value), TRUE))
       ELSE Goto(w, "compute") /\ UNCHANGED <<asked, answer>>
    /\ UNCHANGED <<route, report, accepted>>

Search(w) ==
    /\ pc[w] = "compute"
    /\ route' = [route EXCEPT ![w] =
                    Compute(Finder(Chosen(asked[w])), asked[w].from, asked[w].to)]
    /\ Goto(w, "store")
    /\ UNCHANGED <<list, map, hits, misses, reply, asked, answer, report, accepted>>

CacheableAlwaysMutant(r) == TRUE

Cacheable(r) == r.found

\* put when found, then the response
Store(w) ==
    /\ pc[w] = "store"
    /\ IF Cacheable(route[w])
       THEN Cache!Put(CacheKey(asked[w]), route[w])
       ELSE UNCHANGED <<list, map, hits, misses, reply>>
    /\ Respond(w, Response(IF route[w].found THEN 200 ELSE 404, RouteJson(route[w]), FALSE))
    /\ UNCHANGED <<route, report, accepted>>

-----------------------------------------------------------------------------
(* health: size, ratio, hits and misses are read under four separate locks  *)

ReadHealth(w, from, to, field, value) ==
    /\ pc[w] = from
    /\ report' = [report EXCEPT ![w][field] = value]
    /\ Goto(w, to)
    /\ UNCHANGED <<list, map, hits, misses, reply, asked, route, answer>>

HealthSize(w)   == /\ accepted < MaxRequests /\ accepted' = accepted + 1
                   /\ ReadHealth(w, "idle", "ratio", "size", Cardinality(map))
HealthRatio(w)  == /\ ReadHealth(w, "ratio", "hits", "ratio", <<hits, hits + misses>>)
                   /\ UNCHANGED accepted
HealthHitsMixedUpMutant(w) == /\ ReadHealth(w, "hits", "misses", "hits", misses)
                              /\ UNCHANGED accepted

HealthHits(w)   == /\ ReadHealth(w, "hits", "misses", "hits", hits)
                   /\ UNCHANGED accepted
HealthMisses(w) == /\ ReadHealth(w, "misses", "idle", "misses", misses)
                   /\ UNCHANGED accepted

-----------------------------------------------------------------------------
Work(w) == Reject(w) \/ Lookup(w) \/ Search(w) \/ Store(w)
           \/ HealthRatio(w) \/ HealthHits(w) \/ HealthMisses(w)

Next == \E w \in Worker : Work(w) \/ HealthSize(w) \/ \E rq \in Request : Accept(w, rq)

(* A thread that has a request runs its handler to the end.                 *)
Spec == Init /\ [][Next]_vars /\ \A w \in Worker : WF_vars(Work(w))

-----------------------------------------------------------------------------
(* Types; a thread has a request exactly while it is handling one.          *)
TypeOK ==
    /\ Cache!TypeOK
    /\ pc \in [Worker -> {"idle", "validate", "compute", "store", "ratio", "hits", "misses"}]
    /\ asked \in [Worker -> Request \cup {NoRequest}]
    /\ \A w \in Worker : pc[w] \in {"validate", "compute", "store"} <=> asked[w] # NoRequest
    /\ route \in [Worker -> Routes \cup {NoValue}]
    /\ answer \in [Worker -> {NoRequest} \cup Responses]
    /\ report \in [Worker -> [size: Nat, ratio: Nat \X Nat, hits: Nat, misses: Nat]]
    /\ accepted \in 0..MaxRequests

(* Whatever the order of lookups, searches and stores, the shared cache     *)
(* only ever holds what a search for that very key would return, and never  *)
(* a failure, which would turn a later 404 into a 200.                      *)
CacheIsTrue ==
    \A i \in DOMAIN list :
       LET k == list[i].key IN
       list[i].value = Compute(Finder(k.algorithm), k.start, k.end) /\ list[i].value.found

(* A health report is torn (ratio, hits and misses are of different         *)
(* moments) but never runs backwards: no counter is below the ratio's.      *)
ReportNotBackwards ==
    \A w \in Worker :
       /\ pc[w] \in {"misses"} => report[w].ratio[1] <= report[w].hits /\ report[w].hits <= hits
       /\ pc[w] \in {"hits", "misses"} =>
             /\ report[w].ratio[2] - report[w].ratio[1] <= misses
             /\ report[w].size <= report[w].ratio[2]

Right(rq) ==
    IF rq.body # "ids" THEN [status |-> 400, route |-> NoValue]
    ELSE IF {rq.from, rq.to} \ Known # {} THEN [status |-> 404, route |-> NoValue]
    ELSE LET r == Compute(Finder(Chosen(rq)), rq.from, rq.to)
         IN  [status |-> IF r.found THEN 200 ELSE 404, route |-> RouteJson(r)]

Visible(a) == IF a = NoRequest THEN NoRequest ELSE [status |-> a.status, route |-> a.route]

S == INSTANCE RouteService
     WITH answer <- [w \in Worker |-> Visible(answer[w])], Expected <- Right

(* With the cache, under any interleaving, clients cannot tell that there   *)
(* is one: every request is answered, and as if computed for it alone.      *)
ImplementsService == S!Spec
=============================================================================

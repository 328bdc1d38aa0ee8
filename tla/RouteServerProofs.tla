-------------------------- MODULE RouteServerProofs --------------------------
(***************************************************************************)
(* Proofs about RouteServer, for any number of threads, any stations and    *)
(* algorithms, any cache capacity and any number of requests.  What the     *)
(* shared cache does in one locked call is cited from LRUCacheProofs.       *)
(***************************************************************************)
EXTENDS RouteStatistics, FiniteSetTheorems, TLAPS

\* The history of uses, which the cache never reads, plays no part here.
CP == INSTANCE LRUCacheProofs WITH Key <- Keys, Value <- Routes, MaxLookups <- MaxRequests,
                                   MaxUses <- 0, now <- 0, lastUse <- <<>>

\* The threads at one of some points of their handlers.
At(points) == {v \in Worker : pc[v] \in points}

Searching == At({"compute", "store"})

\* A thread past the lookup has a request with two stations of the graph.
Informed ==
    \A w \in Worker : pc[w] \in {"compute", "store"} =>
       asked[w].body = "ids" /\ {asked[w].from, asked[w].to} \subseteq Known

Answer(rq) == Compute(Finder(Chosen(rq)), rq.from, rq.to)

\* What a thread is about to store is the answer to its request.
Computed == \A w \in Worker : pc[w] = "store" => route[w] = Answer(asked[w])

\* Every entry of the cache and every search under way was a miss.
Counted == Cardinality(map) + Cardinality(Searching) <= misses

\* What a health report read first, the counters have reached already.
Reported ==
    \A w \in Worker :
       /\ pc[w] = "ratio" => report[w].size <= misses
       /\ pc[w] = "hits" => report[w].ratio[1] <= hits

ServerInv ==
    /\ CP!CacheInv /\ TypeOK /\ CacheIsTrue
    /\ Informed /\ Computed /\ Counted /\ Reported /\ ReportNotBackwards

cacheVars == <<list, map, hits, misses, reply>>

-----------------------------------------------------------------------------
\* The cache of the server is the one LRUCacheProofs is about.
LEMMA SameCache ==
    /\ Cache!Init <=> CP!Init
    /\ Cache!TypeOK <=> CP!TypeOK
    /\ \A k : Cache!Get(k) => CP!Get(k)
    /\ \A k, v : Cache!Put(k, v) => CP!Put(k, v)
  <1>1. (Cache!Init <=> CP!Init) /\ (Cache!TypeOK <=> CP!TypeOK)
    BY DEF Cache!Init, CP!Init, Cache!TypeOK, CP!TypeOK
  <1>2. \A k : Cache!Position(k) = CP!Position(k)
    BY DEF Cache!Position, CP!Position
  <1>3. \A s, i : Cache!ToFront(s, i) = CP!ToFront(s, i)
    BY DEF Cache!ToFront, CP!ToFront
  <1>4. Cache!Kept = CP!Kept /\ Cache!Left = CP!Left
    <2>1. Cache!Cardinality(map) = CP!Cardinality(map)
      BY DEF Cache!Cardinality, CP!Cardinality
    <2>2. Cache!Full <=> CP!Full
      BY <2>1 DEF Cache!Full, CP!Full, Cache!Room, CP!Room
    <2> QED BY <2>2 DEF Cache!Kept, CP!Kept, Cache!Left, CP!Left
  <1>5. ASSUME NEW k, Cache!Get(k) PROVE CP!Get(k)
    BY <1>2, <1>3, <1>5 DEF Cache!Get, CP!Get, Cache!GetHit, CP!GetHit,
       Cache!GetMiss, CP!GetMiss, Cache!Promote, CP!Promote
  <1>6. ASSUME NEW k, NEW v, Cache!Put(k, v) PROVE CP!Put(k, v)
    <2>1. Cache!PutNew(k, v) => CP!PutNew(k, v)
      BY <1>4 DEF Cache!PutNew, CP!PutNew
    <2>2. Cache!PutExisting(k, v) => CP!PutExisting(k, v)
      BY DEF Cache!PutExisting, CP!PutExisting, Cache!Position, CP!Position,
         Cache!ToFront, CP!ToFront
    <2> QED BY <1>6, <2>1, <2>2 DEF Cache!Put, CP!Put
  <1> QED BY <1>1, <1>5, <1>6

LEMMA Lookups ==
    ASSUME CP!CacheInv, NEW k \in Keys, Cache!Get(k)
    PROVE  /\ CP!CacheInv' /\ map' = map
           /\ \A j \in DOMAIN list' : \E i \in DOMAIN list : list'[j] = list[i]
           /\ \/ hits' = hits /\ misses' = misses + 1 /\ reply'.value = NoValue
              \/ /\ hits' = hits + 1 /\ misses' = misses
                 /\ \E i \in DOMAIN list : /\ list[i] \in CP!ListEntry /\ list[i].key = k
                                          /\ reply'.value = list[i].value
  BY CP!AfterGet, SameCache, CapacityAssumption, NoValueAssumption

LEMMA SameSizes ==
    /\ \A X : CP!Cardinality(X) = Cardinality(X)
    /\ \A X : CP!IsFiniteSet(X) <=> IsFiniteSet(X)
  BY DEF CP!Cardinality, Cardinality, CP!IsFiniteSet, IsFiniteSet

LEMMA Stores ==
    ASSUME CP!CacheInv, NEW k \in Keys, NEW v \in Routes, Cache!Put(k, v)
    PROVE  /\ CP!CacheInv' /\ hits' = hits /\ misses' = misses
           /\ Cardinality(map') <= Cardinality(map) + 1
           /\ \A j \in DOMAIN list' :
                 \/ list'[j].key = k /\ list'[j].value = v
                 \/ \E i \in DOMAIN list : list'[j] = list[i]
  BY CP!AfterPut, SameSizes, SameCache, CapacityAssumption, NoValueAssumption

\* The sizes of the map are numbers, and the counters too.
LEMMA Numbers ==
    ASSUME CP!CacheInv
    PROVE  IsFiniteSet(map) /\ Cardinality(map) \in Nat /\ hits \in Nat /\ misses \in Nat
  BY SameSizes, FS_CardinalityType DEF CP!CacheInv, CP!SizesAgree, CP!TypeOK

LEMMA CacheTyped == CP!CacheInv => Cache!TypeOK
  BY SameCache DEF CP!CacheInv

LEMMA CacheUntouched ==
    ASSUME ServerInv, UNCHANGED cacheVars
    PROVE  CP!CacheInv' /\ Cache!TypeOK' /\ CacheIsTrue'
  <1>1. CP!CacheInv'
    BY CP!StepCache, CapacityAssumption, NoValueAssumption DEF ServerInv, cacheVars, CP!vars
  <1>2. Cache!TypeOK'
    BY <1>1, CacheTyped, PTL
  <1>3. CacheIsTrue'
    BY DEF ServerInv, cacheVars, CacheIsTrue
  <1> QED BY <1>1, <1>2, <1>3

\* How one thread's step moves the counts of threads.
LEMMA Moved ==
    ASSUME TypeOK, NEW w \in Worker, NEW l, Goto(w, l), NEW points
    PROVE  /\ Cardinality(At(points)) \in Nat /\ Cardinality(At(points)') \in Nat
           /\ (pc[w] \in points <=> l \in points) => At(points)' = At(points)
           /\ pc[w] \notin points /\ l \in points =>
                 Cardinality(At(points)') = Cardinality(At(points)) + 1
           /\ pc[w] \in points /\ l \notin points =>
                 Cardinality(At(points)') = Cardinality(At(points)) - 1
  <1>1. pc' = [pc EXCEPT ![w] = l] /\ DOMAIN pc = Worker
    BY DEF TypeOK, Goto
  <1>2. IsFiniteSet(At(points)) /\ IsFiniteSet(At(points)')
    <2>1. At(points) \subseteq Worker /\ At(points)' \subseteq Worker
      BY DEF At
    <2> QED BY <2>1, WorkerAssumption, FS_Subset
  <1>3. Cardinality(At(points)) \in Nat /\ Cardinality(At(points)') \in Nat
    BY <1>2, FS_CardinalityType
  <1>4. (pc[w] \in points <=> l \in points) => At(points)' = At(points)
    BY <1>1 DEF At
  <1>5. ASSUME pc[w] \notin points, l \in points
        PROVE  Cardinality(At(points)') = Cardinality(At(points)) + 1
    <2>1. At(points)' = At(points) \cup {w} /\ w \notin At(points)
      BY <1>1, <1>5 DEF At
    <2> QED BY <1>2, <2>1, FS_AddElement
  <1>6. ASSUME pc[w] \in points, l \notin points
        PROVE  Cardinality(At(points)') = Cardinality(At(points)) - 1
    <2>1. At(points)' = At(points) \ {w} /\ w \in At(points)
      BY <1>1, <1>6 DEF At
    <2> QED BY <1>2, <2>1, FS_RemoveElement
  <1> QED BY <1>3, <1>4, <1>5, <1>6

-----------------------------------------------------------------------------
\* A request with two stations has a key, and the search its key stands for.
LEMMA Requests ==
    ASSUME NEW rq \in Request, rq.body = "ids"
    PROVE  /\ rq.from \in StationId /\ rq.to \in StationId
           /\ CacheKey(rq) \in Keys
           /\ Answer(rq) \in Routes
           /\ Answer(rq) = Compute(Finder(CacheKey(rq).algorithm), CacheKey(rq).start, CacheKey(rq).end)
  <1>1. rq.from \in StationId /\ rq.to \in StationId /\ rq.algorithm \in Algorithm \cup {""}
    <2>1. rq # [body |-> "invalid"] /\ rq # [body |-> "incomplete"]
      OBVIOUS
    <2> QED BY <2>1 DEF Request
  <1>2. Chosen(rq) \in Algorithm \cup {DefaultAlgorithm}
    BY <1>1 DEF Chosen
  <1>3. CacheKey(rq) \in Keys
    BY <1>1, <1>2 DEF CacheKey, Keys
  <1>4. Finder(Chosen(rq)) \in {"Dijkstra", "A*"} /\ Found(rq.from, rq.to) \in BOOLEAN
    BY <1>1, FoundAssumption DEF Finder
  <1>5. Answer(rq) \in Routes
    BY <1>1, <1>4 DEF Answer, Compute, Routes
  <1>6. CacheKey(rq).algorithm = Chosen(rq) /\ CacheKey(rq).start = rq.from /\ CacheKey(rq).end = rq.to
    BY DEF CacheKey
  <1> QED BY <1>1, <1>3, <1>5, <1>6 DEF Answer

LEMMA JsonOf ==
    ASSUME NEW r \in Routes
    PROVE  RouteJson(r) \in Json
  BY DEF RouteJson, Json, Failures, Routes

\* Responding leaves every thread typed, and that one idle.
LEMMA Responding ==
    ASSUME TypeOK, Cache!TypeOK', NEW w \in Worker, NEW response \in Responses,
           pc' = [pc EXCEPT ![w] = "idle"], asked' = [asked EXCEPT ![w] = NoRequest],
           answer' = [answer EXCEPT ![w] = response], UNCHANGED <<route, report, accepted>>
    PROVE  TypeOK'
  <1>1. answer' \in [Worker -> {NoRequest} \cup Responses]
    BY DEF TypeOK
  <1>2. /\ pc' \in [Worker -> {"idle", "validate", "compute", "store", "ratio", "hits", "misses"}]
        /\ asked' \in [Worker -> Request \cup {NoRequest}]
    BY DEF TypeOK
  <1>3. \A v \in Worker : pc'[v] \in {"validate", "compute", "store"} <=> asked'[v] # NoRequest
    BY DEF TypeOK
  <1> QED BY <1>1, <1>2, <1>3 DEF TypeOK

-----------------------------------------------------------------------------
LEMMA StepAccept ==
    ASSUME ServerInv, NEW w \in Worker, NEW rq \in Request, Accept(w, rq)
    PROVE  ServerInv'
  <1>0. TypeOK /\ Goto(w, "validate") /\ pc[w] = "idle" /\ UNCHANGED cacheVars
    BY DEF ServerInv, Accept, cacheVars
  <1>1. CP!CacheInv' /\ Cache!TypeOK' /\ CacheIsTrue'
    BY <1>0, CacheUntouched
  <1>2. TypeOK'
    BY <1>0, <1>1, NoRequestAssumption, MaxRequestsAssumption DEF TypeOK, Accept, Goto
  <1>3. Informed' /\ Computed'
    BY <1>0 DEF ServerInv, TypeOK, Informed, Computed, Accept, Goto
  <1>4. Counted'
    <2>1. Searching' = Searching
      BY <1>0, Moved DEF Searching
    <2> QED BY <1>0, <2>1 DEF ServerInv, Counted, cacheVars
  <1>5. Reported' /\ ReportNotBackwards'
    BY <1>0 DEF ServerInv, TypeOK, Reported, ReportNotBackwards, Accept, Goto
  <1> QED BY <1>1, <1>2, <1>3, <1>4, <1>5 DEF ServerInv

LEMMA StepReject ==
    ASSUME ServerInv, NEW w \in Worker, Reject(w)
    PROVE  ServerInv'
  <1>0. /\ TypeOK /\ Goto(w, "idle") /\ pc[w] = "validate" /\ UNCHANGED cacheVars
        /\ asked' = [asked EXCEPT ![w] = NoRequest]
        /\ UNCHANGED <<route, report, accepted>>
    BY DEF ServerInv, Reject, Respond, cacheVars
  <1>1. CP!CacheInv' /\ Cache!TypeOK' /\ CacheIsTrue'
    BY <1>0, CacheUntouched
  <1>2. TypeOK'
    <2>1. PICK status \in {400, 404} : answer' = [answer EXCEPT ![w] = Response(status, NoValue, FALSE)]
      BY DEF Reject, Respond
    <2>n. NoValue \in Json
      BY DEF Json
    <2>2. Response(status, NoValue, FALSE) \in Responses
      BY <2>n DEF Response, Responses
    <2> QED BY <1>0, <1>1, <2>1, <2>2, Responding DEF Goto
  <1>3. Informed' /\ Computed'
    BY <1>0 DEF ServerInv, TypeOK, Informed, Computed, Goto
  <1>4. Counted'
    <2>1. Searching' = Searching
      BY <1>0, Moved DEF Searching
    <2> QED BY <1>0, <2>1 DEF ServerInv, Counted, cacheVars
  <1>5. Reported' /\ ReportNotBackwards'
    BY <1>0 DEF ServerInv, TypeOK, Reported, ReportNotBackwards, Goto, cacheVars
  <1> QED BY <1>1, <1>2, <1>3, <1>4, <1>5 DEF ServerInv

\* The counters only grow, so what a report has read stays below them.
LEMMA ReportsHold ==
    ASSUME ServerInv, NEW w \in Worker, NEW l \in {"idle", "compute", "store"}, Goto(w, l),
           hits' \in Nat, misses' \in Nat, hits <= hits', misses <= misses', report' = report
    PROVE  Reported' /\ ReportNotBackwards'
  <1>1. /\ pc' = [pc EXCEPT ![w] = l] /\ DOMAIN pc = Worker
        /\ hits \in Nat /\ misses \in Nat
    BY Numbers DEF ServerInv, TypeOK, Goto
  <1>2. ASSUME NEW v \in Worker, v # w PROVE pc'[v] = pc[v]
    BY <1>1, <1>2
  <1>3. pc'[w] = l
    BY <1>1
  <1>4. ASSUME NEW v \in Worker
        PROVE  /\ report[v].size \in Nat /\ report[v].hits \in Nat
               /\ report[v].ratio[1] \in Nat /\ report[v].ratio[2] \in Nat
    <2>1. report[v] \in [size: Nat, ratio: Nat \X Nat, hits: Nat, misses: Nat]
      BY DEF ServerInv, TypeOK
    <2>2. report[v].ratio \in Nat \X Nat
      BY <2>1
    <2> QED BY <2>1, <2>2
  <1>5. Reported'
    BY <1>1, <1>2, <1>3, <1>4 DEF ServerInv, Reported
  <1>6. ReportNotBackwards'
    BY <1>1, <1>2, <1>3, <1>4 DEF ServerInv, ReportNotBackwards
  <1> QED BY <1>5, <1>6

LEMMA StepLookup ==
    ASSUME ServerInv, NEW w \in Worker, Lookup(w)
    PROVE  ServerInv'
  <1> DEFINE rq == asked[w]
             k == CacheKey(rq)
  <1>0. /\ TypeOK /\ pc[w] = "validate" /\ rq.body = "ids" /\ {rq.from, rq.to} \subseteq Known
        /\ Cache!Get(k) /\ CP!CacheInv /\ UNCHANGED <<route, report, accepted>>
    BY DEF ServerInv, Lookup
  <1>r. rq \in Request
    BY <1>0 DEF TypeOK
  <1>k. k \in Keys
    BY <1>0, <1>r, Requests
  <1>n. hits \in Nat /\ misses \in Nat /\ Cardinality(map) \in Nat /\ accepted \in Nat
    BY <1>0, Numbers, MaxRequestsAssumption DEF TypeOK
  <1>1. CP!CacheInv' /\ Cache!TypeOK' /\ CacheIsTrue' /\ map' = map
    <2>1. CP!CacheInv' /\ map' = map /\ \A j \in DOMAIN list' : \E i \in DOMAIN list : list'[j] = list[i]
      BY <1>0, <1>k, Lookups
    <2>2. Cache!TypeOK'
      BY <2>1, CacheTyped, PTL
    <2>3. CacheIsTrue'
      BY <2>1 DEF ServerInv, CacheIsTrue
    <2> QED BY <2>1, <2>2, <2>3
  <1>2. CASE hits' = hits /\ misses' = misses + 1 /\ reply'.value = NoValue
    <2>1. Goto(w, "compute") /\ UNCHANGED <<asked, answer>>
      BY <1>2 DEF Lookup
    <2>2. TypeOK'
      BY <1>0, <1>1, <2>1 DEF TypeOK, Goto
    <2>3. Informed' /\ Computed'
      BY <1>0, <2>1 DEF ServerInv, TypeOK, Informed, Computed, Goto
    <2>4. Counted'
      <3>1. Cardinality(Searching') = Cardinality(Searching) + 1 /\ Cardinality(Searching) \in Nat
        BY <1>0, <2>1, Moved DEF Searching
      <3> QED BY <1>0, <1>1, <1>2, <1>n, <3>1 DEF ServerInv, Counted
    <2>5. Reported' /\ ReportNotBackwards'
      BY <1>0, <1>2, <1>n, <2>1, ReportsHold
    <2> QED BY <1>1, <2>2, <2>3, <2>4, <2>5 DEF ServerInv
  <1>3. CASE /\ hits' = hits + 1 /\ misses' = misses
             /\ \E i \in DOMAIN list : /\ list[i] \in CP!ListEntry /\ list[i].key = k
                                      /\ reply'.value = list[i].value
    <2>v. reply'.value \in Routes /\ reply'.value # NoValue
      BY <1>3, NoValueAssumption DEF CP!ListEntry
    <2>1. Respond(w, Response(200, RouteJson(reply'.value), TRUE))
      BY <2>v DEF Lookup
    <2>a. /\ Goto(w, "idle") /\ asked' = [asked EXCEPT ![w] = NoRequest]
          /\ answer' = [answer EXCEPT ![w] = Response(200, RouteJson(reply'.value), TRUE)]
      BY <2>1 DEF Respond
    <2>2. TypeOK'
      <3>1. Response(200, RouteJson(reply'.value), TRUE) \in Responses
        <4>1. RouteJson(reply'.value) \in Json
          BY <2>v, JsonOf
        <4> QED BY <4>1 DEF Response, Responses
      <3> QED BY <1>0, <1>1, <2>a, <3>1, Responding DEF Goto
    <2>3. Informed' /\ Computed'
      BY <1>0, <2>a DEF ServerInv, TypeOK, Informed, Computed, Goto
    <2>4. Counted'
      <3>1. Searching' = Searching
        BY <1>0, <2>a, Moved DEF Searching
      <3> QED BY <1>0, <1>1, <1>3, <1>n, <3>1 DEF ServerInv, Counted
    <2>5. Reported' /\ ReportNotBackwards'
      BY <1>0, <1>3, <1>n, <2>a, ReportsHold
    <2> QED BY <1>1, <2>2, <2>3, <2>4, <2>5 DEF ServerInv
  <1> QED BY <1>0, <1>2, <1>3, <1>k, Lookups

LEMMA StepSearch ==
    ASSUME ServerInv, NEW w \in Worker, Search(w)
    PROVE  ServerInv'
  <1>0. /\ TypeOK /\ Goto(w, "store") /\ pc[w] = "compute" /\ UNCHANGED cacheVars
        /\ route' = [route EXCEPT ![w] = Answer(asked[w])]
        /\ UNCHANGED <<asked, answer, report, accepted>>
    BY DEF ServerInv, Search, cacheVars, Answer
  <1>r. /\ asked[w] \in Request /\ asked[w].body = "ids" /\ Answer(asked[w]) \in Routes
        /\ hits \in Nat /\ misses \in Nat
    <2>1. asked[w] \in Request /\ asked[w].body = "ids"
      BY <1>0 DEF ServerInv, TypeOK, Informed
    <2> QED BY <2>1, Requests, Numbers DEF ServerInv
  <1>1. CP!CacheInv' /\ Cache!TypeOK' /\ CacheIsTrue'
    BY <1>0, CacheUntouched
  <1>2. TypeOK'
    BY <1>0, <1>1, <1>r DEF TypeOK, Goto
  <1>3. Informed'
    BY <1>0 DEF ServerInv, TypeOK, Informed, Goto
  <1>4. Computed'
    <2> SUFFICES ASSUME NEW v \in Worker, pc'[v] = "store"
                 PROVE  route'[v] = Answer(asked[v])
      BY <1>0 DEF Computed, Answer, Compute, Chosen
    <2>1. CASE v = w
      BY <1>0, <2>1 DEF TypeOK
    <2>2. CASE v # w
      BY <1>0, <2>2 DEF ServerInv, TypeOK, Computed, Goto
    <2> QED BY <2>1, <2>2
  <1>5. Counted'
    <2>1. Searching' = Searching
      BY <1>0, Moved DEF Searching
    <2> QED BY <1>0, <2>1 DEF ServerInv, Counted, cacheVars
  <1>6. Reported' /\ ReportNotBackwards'
    BY <1>0, <1>r, ReportsHold DEF cacheVars
  <1> QED BY <1>1, <1>2, <1>3, <1>4, <1>5, <1>6 DEF ServerInv

\* The cache gains at most what the thread had computed, under its own key.
LEMMA StoreKeepsTruth ==
    ASSUME ServerInv, NEW w \in Worker, Store(w)
    PROVE  /\ CP!CacheInv' /\ CacheIsTrue' /\ hits' = hits /\ misses' = misses
           /\ Cardinality(map') <= Cardinality(map) + 1
  <1> DEFINE rq == asked[w]
             k == CacheKey(rq)
             r == route[w]
  <1>0. CP!CacheInv /\ CacheIsTrue /\ pc[w] = "store"
    BY DEF ServerInv, Store
  <1>1. rq \in Request /\ rq.body = "ids" /\ r = Answer(rq)
    BY <1>0 DEF ServerInv, TypeOK, Informed, Computed
  <1>2. /\ k \in Keys /\ r \in Routes
        /\ r = Compute(Finder(k.algorithm), k.start, k.end)
    BY <1>1, Requests
  <1>3. CASE r.found
    <2>1. Cache!Put(k, r)
      BY <1>3 DEF Store, Cacheable
    <2>2. /\ CP!CacheInv' /\ hits' = hits /\ misses' = misses
          /\ Cardinality(map') <= Cardinality(map) + 1
          /\ \A j \in DOMAIN list' :
                \/ list'[j].key = k /\ list'[j].value = r
                \/ \E i \in DOMAIN list : list'[j] = list[i]
      BY <1>0, <1>2, <2>1, Stores
    <2> HIDE DEF rq, k, r
    <2>3. CacheIsTrue'
      BY <1>0, <1>2, <1>3, <2>2 DEF CacheIsTrue
    <2> QED BY <2>2, <2>3
  <1>4. CASE ~r.found
    <2>1. UNCHANGED cacheVars
      BY <1>4 DEF Store, Cacheable, cacheVars
    <2>2. CP!CacheInv' /\ CacheIsTrue'
      BY <2>1, CacheUntouched
    <2> QED BY <1>0, <2>1, <2>2, Numbers DEF cacheVars
  <1> QED BY <1>3, <1>4

LEMMA StepStore ==
    ASSUME ServerInv, NEW w \in Worker, Store(w)
    PROVE  ServerInv'
  <1> DEFINE response == Response(IF route[w].found THEN 200 ELSE 404, RouteJson(route[w]), FALSE)
  <1>0. /\ TypeOK /\ pc[w] = "store" /\ Goto(w, "idle")
        /\ asked' = [asked EXCEPT ![w] = NoRequest] /\ answer' = [answer EXCEPT ![w] = response]
        /\ UNCHANGED <<route, report, accepted>>
    BY DEF ServerInv, Store, Respond
  <1>1. /\ CP!CacheInv' /\ CacheIsTrue' /\ hits' = hits /\ misses' = misses
        /\ Cardinality(map') <= Cardinality(map) + 1
    BY StoreKeepsTruth
  <1>2. TypeOK'
    <2>1. Cache!TypeOK'
      BY <1>1, CacheTyped, PTL
    <2>2. asked[w] \in Request /\ asked[w].body = "ids" /\ route[w] = Answer(asked[w])
      BY <1>0 DEF ServerInv, TypeOK, Informed, Computed
    <2>3. route[w] \in Routes
      BY <2>2, Requests
    <2>4. RouteJson(route[w]) \in Json
      BY <2>3, JsonOf
    <2>5. response \in Responses
      BY <2>4 DEF Response, Responses
    <2> HIDE DEF response
    <2> QED BY <1>0, <2>1, <2>5, Responding DEF Goto
  <1>3. Informed' /\ Computed'
    BY <1>0 DEF ServerInv, TypeOK, Informed, Computed, Goto
  <1>n. /\ hits \in Nat /\ misses \in Nat /\ Cardinality(map) \in Nat
        /\ Cardinality(map') \in Nat /\ accepted \in Nat
    <2>1. Cardinality(map') \in Nat
      BY <1>1, SameSizes, FS_CardinalityType DEF CP!CacheInv, CP!SizesAgree
    <2> QED BY <1>0, <2>1, Numbers, MaxRequestsAssumption DEF ServerInv, TypeOK
  <1>4. Counted'
    <2>1. Cardinality(Searching') = Cardinality(Searching) - 1 /\ Cardinality(Searching) \in Nat
      BY <1>0, Moved DEF Searching
    <2> QED BY <1>0, <1>1, <1>n, <2>1 DEF ServerInv, Counted
  <1>5. Reported' /\ ReportNotBackwards'
    BY <1>0, <1>1, <1>n, ReportsHold
  <1> QED BY <1>1, <1>2, <1>3, <1>4, <1>5 DEF ServerInv

-----------------------------------------------------------------------------
HealthReport == [size: Nat, ratio: Nat \X Nat, hits: Nat, misses: Nat]

\* Reading one field of a report leaves the others, and the other reports.
LEMMA ReadField ==
    ASSUME TypeOK, NEW w \in Worker, NEW from, NEW to, NEW value,
           NEW field \in {"size", "ratio", "hits", "misses"},
           value \in IF field = "ratio" THEN Nat \X Nat ELSE Nat,
           ReadHealth(w, from, to, field, value)
    PROVE  /\ report' \in [Worker -> HealthReport]
           /\ \A v \in Worker : v # w => report'[v] = report[v]
           /\ report'[w][field] = value
           /\ \A f \in {"size", "ratio", "hits", "misses"} \ {field} : report'[w][f] = report[w][f]
  <1>1. report \in [Worker -> HealthReport]
    BY DEF TypeOK, HealthReport
  <1> DEFINE read == [report[w] EXCEPT ![field] = value]
  <1>2. report' = [report EXCEPT ![w] = read]
    BY <1>1 DEF ReadHealth
  <1>3. /\ read \in HealthReport /\ read[field] = value
        /\ \A f \in {"size", "ratio", "hits", "misses"} \ {field} : read[f] = report[w][f]
    BY <1>1 DEF HealthReport
  <1> HIDE DEF read
  <1> QED BY <1>1, <1>2, <1>3

\* What reading health leaves alone: everything but the report.
LEMMA ReadOnly ==
    ASSUME ServerInv, NEW w \in Worker, NEW from \in {"idle", "ratio", "hits", "misses"},
           NEW to \in {"idle", "ratio", "hits", "misses"}, NEW value,
           NEW field \in {"size", "ratio", "hits", "misses"},
           value \in IF field = "ratio" THEN Nat \X Nat ELSE Nat,
           ReadHealth(w, from, to, field, value), accepted' \in 0..MaxRequests
    PROVE  CP!CacheInv' /\ CacheIsTrue' /\ TypeOK' /\ Informed' /\ Computed'
  <1>0. /\ TypeOK /\ pc[w] = from /\ Goto(w, to) /\ UNCHANGED cacheVars
        /\ UNCHANGED <<asked, route, answer>>
    BY DEF ServerInv, ReadHealth, cacheVars
  <1>1. CP!CacheInv' /\ Cache!TypeOK' /\ CacheIsTrue'
    BY <1>0, CacheUntouched
  <1>2. report' \in [Worker -> HealthReport]
    BY <1>0, ReadField
  <1>3. TypeOK'
    BY <1>0, <1>1, <1>2 DEF TypeOK, Goto, HealthReport
  <1>4. Informed' /\ Computed'
    BY <1>0 DEF ServerInv, TypeOK, Informed, Computed, Goto, Answer, Compute, Chosen
  <1> QED BY <1>1, <1>3, <1>4

\* Another thread's report stays as true as it was.
LEMMA OthersHold ==
    ASSUME ServerInv, NEW w \in Worker, NEW l, Goto(w, l), UNCHANGED cacheVars,
           \A v \in Worker : v # w => report'[v] = report[v]
    PROVE  \A v \in Worker : v # w =>
             /\ pc'[v] = "ratio" => report'[v].size <= misses'
             /\ pc'[v] = "hits" => report'[v].ratio[1] <= hits'
             /\ pc'[v] \in {"misses"} => report'[v].ratio[1] <= report'[v].hits /\ report'[v].hits <= hits'
             /\ pc'[v] \in {"hits", "misses"} =>
                   /\ report'[v].ratio[2] - report'[v].ratio[1] <= misses'
                   /\ report'[v].size <= report'[v].ratio[2]
  BY DEF ServerInv, TypeOK, Reported, ReportNotBackwards, Goto, cacheVars

LEMMA StepHealthSize ==
    ASSUME ServerInv, NEW w \in Worker, HealthSize(w)
    PROVE  ServerInv'
  <1>0. /\ TypeOK /\ ReadHealth(w, "idle", "ratio", "size", Cardinality(map))
        /\ pc[w] = "idle" /\ Goto(w, "ratio") /\ UNCHANGED cacheVars
        /\ accepted < MaxRequests /\ accepted' = accepted + 1
    BY DEF ServerInv, HealthSize, ReadHealth, cacheVars
  <1>n. /\ hits \in Nat /\ misses \in Nat /\ Cardinality(map) \in Nat /\ accepted \in Nat
        /\ accepted' \in 0..MaxRequests
    BY <1>0, Numbers, MaxRequestsAssumption DEF ServerInv, TypeOK
  <1>1. CP!CacheInv' /\ CacheIsTrue' /\ TypeOK' /\ Informed' /\ Computed'
    BY <1>0, <1>n, ReadOnly
  <1>2. Counted'
    <2>1. Searching' = Searching
      BY <1>0, Moved DEF Searching
    <2> QED BY <1>0, <1>n, <2>1 DEF ServerInv, Counted, cacheVars
  <1>3. (\A v \in Worker : v # w => report'[v] = report[v]) /\ report'[w].size = Cardinality(map)
    BY <1>0, <1>n, ReadField
  <1>4. Cardinality(map) <= misses
    <2>1. Cardinality(Searching) \in Nat
      BY <1>0, Moved DEF Searching
    <2> QED BY <1>n, <2>1 DEF ServerInv, Counted
  <1>5. pc'[w] = "ratio" /\ misses' = misses
    BY <1>0 DEF TypeOK, Goto, cacheVars
  <1>6. Reported' /\ ReportNotBackwards'
    BY <1>0, <1>3, <1>4, <1>5, OthersHold DEF Reported, ReportNotBackwards
  <1> QED BY <1>1, <1>2, <1>6 DEF ServerInv

LEMMA StepHealthRatio ==
    ASSUME ServerInv, NEW w \in Worker, HealthRatio(w)
    PROVE  ServerInv'
  <1>0. /\ TypeOK /\ ReadHealth(w, "ratio", "hits", "ratio", <<hits, hits + misses>>)
        /\ pc[w] = "ratio" /\ Goto(w, "hits") /\ UNCHANGED cacheVars /\ accepted' = accepted
    BY DEF ServerInv, HealthRatio, ReadHealth, cacheVars
  <1>n. /\ hits \in Nat /\ misses \in Nat /\ accepted \in Nat /\ accepted' \in 0..MaxRequests
        /\ <<hits, hits + misses>> \in Nat \X Nat
    BY <1>0, Numbers, MaxRequestsAssumption DEF ServerInv, TypeOK
  <1>1. CP!CacheInv' /\ CacheIsTrue' /\ TypeOK' /\ Informed' /\ Computed'
    BY <1>0, <1>n, ReadOnly
  <1>2. Counted'
    <2>1. Searching' = Searching
      BY <1>0, Moved DEF Searching
    <2> QED BY <1>0, <2>1 DEF ServerInv, Counted, cacheVars
  <1>3. /\ \A v \in Worker : v # w => report'[v] = report[v]
        /\ report'[w].ratio = <<hits, hits + misses>> /\ report'[w].size = report[w].size
    BY <1>0, <1>n, ReadField
  <1>4. pc'[w] = "hits" /\ misses' = misses /\ hits' = hits
    BY <1>0 DEF TypeOK, Goto, cacheVars
  <1>5. report'[w].ratio[1] = hits /\ report'[w].ratio[2] = hits + misses
    BY <1>3
  <1>6. report[w].size \in Nat /\ report[w].size <= misses
    BY <1>0 DEF ServerInv, TypeOK, Reported
  <1>7. Reported' /\ ReportNotBackwards'
    BY <1>0, <1>n, <1>3, <1>4, <1>5, <1>6, OthersHold DEF Reported, ReportNotBackwards
  <1> QED BY <1>1, <1>2, <1>7 DEF ServerInv

LEMMA StepHealthHits ==
    ASSUME ServerInv, NEW w \in Worker, HealthHits(w)
    PROVE  ServerInv'
  <1>0. /\ TypeOK /\ ReadHealth(w, "hits", "misses", "hits", hits)
        /\ pc[w] = "hits" /\ Goto(w, "misses") /\ UNCHANGED cacheVars /\ accepted' = accepted
    BY DEF ServerInv, HealthHits, ReadHealth, cacheVars
  <1>n. hits \in Nat /\ misses \in Nat /\ accepted' \in 0..MaxRequests
    BY <1>0, Numbers DEF ServerInv, TypeOK
  <1>1. CP!CacheInv' /\ CacheIsTrue' /\ TypeOK' /\ Informed' /\ Computed'
    BY <1>0, <1>n, ReadOnly
  <1>2. Counted'
    <2>1. Searching' = Searching
      BY <1>0, Moved DEF Searching
    <2> QED BY <1>0, <2>1 DEF ServerInv, Counted, cacheVars
  <1>3. /\ \A v \in Worker : v # w => report'[v] = report[v]
        /\ report'[w].hits = hits /\ report'[w].ratio = report[w].ratio
        /\ report'[w].size = report[w].size
    BY <1>0, <1>n, ReadField
  <1>4. pc'[w] = "misses" /\ misses' = misses /\ hits' = hits
    BY <1>0 DEF TypeOK, Goto, cacheVars
  <1>5. /\ report[w].ratio[1] <= hits /\ report[w].ratio[2] - report[w].ratio[1] <= misses
        /\ report[w].size <= report[w].ratio[2]
    BY <1>0 DEF ServerInv, Reported, ReportNotBackwards
  <1>6. Reported' /\ ReportNotBackwards'
    BY <1>0, <1>n, <1>3, <1>4, <1>5, OthersHold DEF Reported, ReportNotBackwards
  <1> QED BY <1>1, <1>2, <1>6 DEF ServerInv

LEMMA StepHealthMisses ==
    ASSUME ServerInv, NEW w \in Worker, HealthMisses(w)
    PROVE  ServerInv'
  <1>0. /\ TypeOK /\ ReadHealth(w, "misses", "idle", "misses", misses)
        /\ pc[w] = "misses" /\ Goto(w, "idle") /\ UNCHANGED cacheVars /\ accepted' = accepted
    BY DEF ServerInv, HealthMisses, ReadHealth, cacheVars
  <1>n. /\ hits \in Nat /\ misses \in Nat /\ accepted \in Nat /\ accepted' \in 0..MaxRequests
    BY <1>0, Numbers, MaxRequestsAssumption DEF ServerInv, TypeOK
  <1>1. CP!CacheInv' /\ CacheIsTrue' /\ TypeOK' /\ Informed' /\ Computed'
    BY <1>0, <1>n, ReadOnly
  <1>2. Counted'
    <2>1. Searching' = Searching
      BY <1>0, Moved DEF Searching
    <2> QED BY <1>0, <1>n, <2>1 DEF ServerInv, Counted, cacheVars
  <1>3. \A v \in Worker : v # w => report'[v] = report[v]
    BY <1>0, <1>n, ReadField
  <1>4. pc'[w] = "idle"
    BY <1>0 DEF TypeOK, Goto
  <1>5. Reported' /\ ReportNotBackwards'
    BY <1>0, <1>3, <1>4, OthersHold DEF Reported, ReportNotBackwards
  <1> QED BY <1>1, <1>2, <1>5 DEF ServerInv

-----------------------------------------------------------------------------
LEMMA InitServer == Init => ServerInv
  <1> SUFFICES ASSUME Init PROVE ServerInv
    OBVIOUS
  <1>1. /\ list = <<>> /\ map = {} /\ hits = 0 /\ misses = 0
        /\ pc = [w \in Worker |-> "idle"] /\ accepted = 0
    BY DEF Init, Cache!Init
  <1>2. CP!CacheInv /\ Cache!TypeOK
    BY SameCache, CP!InitCache, CacheTyped, CapacityAssumption, NoValueAssumption DEF Init
  <1>3. TypeOK
    <2>1. NoReport \in [size: Nat, ratio: Nat \X Nat, hits: Nat, misses: Nat]
      BY DEF NoReport
    <2> QED BY <1>1, <1>2, <2>1, MaxRequestsAssumption DEF Init, TypeOK
  <1>4. CacheIsTrue
    BY <1>1 DEF CacheIsTrue
  <1>5. Informed /\ Computed /\ Reported /\ ReportNotBackwards
    BY <1>1 DEF Informed, Computed, Reported, ReportNotBackwards
  <1>6. Counted
    <2>1. Searching = {}
      BY <1>1 DEF Searching, At
    <2> QED BY <1>1, <2>1, FS_EmptySet DEF Counted
  <1> QED BY <1>2, <1>3, <1>4, <1>5, <1>6 DEF ServerInv

LEMMA StepServer == ServerInv /\ [Next]_vars => ServerInv'
  <1> SUFFICES ASSUME ServerInv, [Next]_vars PROVE ServerInv'
    OBVIOUS
  <1>1. ASSUME NEW w \in Worker, Work(w) PROVE ServerInv'
    BY <1>1, StepReject, StepLookup, StepSearch, StepStore,
       StepHealthRatio, StepHealthHits, StepHealthMisses DEF Work
  <1>2. ASSUME NEW w \in Worker, HealthSize(w) PROVE ServerInv'
    BY <1>2, StepHealthSize
  <1>3. ASSUME NEW w \in Worker, NEW rq \in Request, Accept(w, rq) PROVE ServerInv'
    BY <1>3, StepAccept
  <1>4. CASE UNCHANGED vars
    <2>1. CP!CacheInv' /\ Cache!TypeOK' /\ CacheIsTrue'
      BY <1>4, CacheUntouched DEF vars, cacheVars
    <2>2. TypeOK'
      BY <1>4, <2>1 DEF ServerInv, TypeOK, vars
    <2>3. Informed' /\ Computed' /\ Counted' /\ Reported' /\ ReportNotBackwards'
      BY <1>4 DEF ServerInv, vars, Informed, Computed, Counted, Reported, ReportNotBackwards,
         Searching, At, Answer, Compute, Chosen
    <2> QED BY <2>1, <2>2, <2>3 DEF ServerInv
  <1> QED BY <1>1, <1>2, <1>3, <1>4 DEF Next

LEMMA AlwaysServerInv == Spec => []ServerInv
  BY InitServer, StepServer, PTL DEF Spec

(* Type correctness of the server: in particular a thread holds a request   *)
(* exactly while it is between accepting it and responding                  *)
(* (RouteController.cpp, computeRoute).                                     *)
THEOREM ServerTypeCorrect == Spec => []TypeOK
  <1>1. ServerInv => TypeOK
    BY DEF ServerInv
  <1> QED BY <1>1, AlwaysServerInv, PTL

(* However the threads' lookups, searches and stores interleave, every      *)
(* cached route is the one a search for its own key returns, and is never   *)
(* "not found" (RouteController.cpp, get and put of the shared RouteCache). *)
THEOREM ServerCacheIsTrue == Spec => []CacheIsTrue
  <1>1. ServerInv => CacheIsTrue
    BY DEF ServerInv
  <1> QED BY <1>1, AlwaysServerInv, PTL

(* A health report, read under four locks while routes are being computed,  *)
(* never shows a counter below one it read before, nor more entries than    *)
(* there were lookups (HealthController.cpp).                               *)
THEOREM ReportsNeverBackwards == Spec => []ReportNotBackwards
  <1>1. ServerInv => ReportNotBackwards
    BY DEF ServerInv
  <1> QED BY <1>1, AlwaysServerInv, PTL

-----------------------------------------------------------------------------
(* The statistics, and what the clients were told.                          *)

Told == told \in [cached: Nat, computed: Nat] /\ LookupsAccounted

\* The route of a result is one, or says that there is none.
LEMMA JsonIsRoute ==
    ASSUME NEW r \in Routes
    PROVE  RouteJson(r) # NoValue
  <1>1. RouteJson(r) \in Routes \cup Failures
    BY DEF RouteJson, Routes, Failures
  <1> QED BY <1>1, NoValueAssumption

\* A step that ends no handler tells no client anything.
LEMMA Untold ==
    ASSUME Told, NEW w \in Worker, Tally(w), ~Concludes(w), hits' = hits,
           misses' + Cardinality(Searching) = misses + Cardinality(Searching'),
           misses \in Nat, misses' \in Nat,
           Cardinality(Searching) \in Nat, Cardinality(Searching') \in Nat
    PROVE  Told'
  <1>1. told' = told
    BY DEF Tally
  <1> QED BY <1>1 DEF Told, LookupsAccounted, Searching, At

LEMMA StepTold ==
    ASSUME ServerInv, Told, [CountedNext]_countedVars
    PROVE  Told'
  <1>t. /\ TypeOK /\ hits \in Nat /\ misses \in Nat
        /\ told \in [cached: Nat, computed: Nat] /\ hits = told.cached
        /\ misses = told.computed + Cardinality(Searching)
    BY Numbers DEF ServerInv, Told, LookupsAccounted, Searching, At
  <1>u. \A w \in Worker : asked' = asked => ~Concludes(w)
    BY DEF Concludes
  <1>1. ASSUME NEW w \in Worker, NEW rq \in Request, Accept(w, rq), Tally(w) PROVE Told'
    <2>1. ~Concludes(w)
      BY <1>t, <1>1 DEF TypeOK, Accept, Concludes
    <2>2. Goto(w, "validate") /\ pc[w] = "idle" /\ hits' = hits /\ misses' = misses
      BY <1>1 DEF Accept
    <2>3. Searching' = Searching /\ Cardinality(Searching) \in Nat
      BY <1>t, <2>2, Moved DEF Searching
    <2> QED BY <1>t, <1>1, <2>1, <2>2, <2>3, Untold
  <1>2. ASSUME NEW w \in Worker, Reject(w), Tally(w) PROVE Told'
    <2>1. /\ Goto(w, "idle") /\ pc[w] = "validate" /\ hits' = hits /\ misses' = misses
          /\ answer'[w].cached = FALSE /\ answer'[w].route = NoValue
      BY <1>t, <1>2 DEF TypeOK, Reject, Respond, Response
    <2>2. Searching' = Searching
      BY <1>t, <2>1, Moved DEF Searching
    <2>3. told' = told
      BY <1>2, <2>1 DEF Tally
    <2> QED BY <1>t, <2>1, <2>2, <2>3 DEF Told, LookupsAccounted, Searching, At
  <1>3. ASSUME NEW w \in Worker, Lookup(w), Tally(w) PROVE Told'
    <2>1. /\ pc[w] = "validate" /\ asked[w] \in Request /\ asked[w].body = "ids"
          /\ asked[w] # NoRequest /\ Cache!Get(CacheKey(asked[w])) /\ CP!CacheInv
      BY <1>t, <1>3 DEF ServerInv, TypeOK, Lookup
    <2>2. CacheKey(asked[w]) \in Keys
      BY <2>1, Requests
    <2>3. CASE hits' = hits /\ misses' = misses + 1 /\ reply'.value = NoValue
      <3>1. Goto(w, "compute") /\ asked' = asked
        BY <1>3, <2>3 DEF Lookup
      <3>2. /\ Cardinality(Searching') = Cardinality(Searching) + 1
            /\ Cardinality(Searching) \in Nat
        BY <1>t, <2>1, <3>1, Moved DEF Searching
      <3> QED BY <1>t, <1>u, <1>3, <2>3, <3>1, <3>2, Untold
    <2>4. CASE /\ hits' = hits + 1 /\ misses' = misses
               /\ \E i \in DOMAIN list : /\ list[i] \in CP!ListEntry /\ list[i].key = CacheKey(asked[w])
                                        /\ reply'.value = list[i].value
      <3>1. reply'.value # NoValue
        BY <2>4, NoValueAssumption DEF CP!ListEntry
      <3>2. Respond(w, Response(200, RouteJson(reply'.value), TRUE))
        BY <1>3, <3>1 DEF Lookup
      <3>3. /\ Goto(w, "idle") /\ Concludes(w) /\ answer'[w].cached
        BY <1>t, <2>1, <3>2 DEF TypeOK, Respond, Response, Concludes
      <3>4. Searching' = Searching
        BY <1>t, <2>1, <3>3, Moved DEF Searching
      <3>5. told' = [told EXCEPT !.cached = @ + 1]
        BY <1>3, <3>3 DEF Tally
      <3>6. hits' = hits + 1 /\ misses' = misses
        BY <2>4
      <3>7. /\ told' \in [cached: Nat, computed: Nat] /\ hits' = told'.cached
            /\ misses' = told'.computed + Cardinality(Searching')
        BY <1>t, <3>4, <3>5, <3>6
      <3> QED BY <3>7 DEF Told, LookupsAccounted, Searching, At
    <2> QED BY <2>1, <2>2, <2>3, <2>4, Lookups
  <1>4. ASSUME NEW w \in Worker, Search(w), Tally(w) PROVE Told'
    <2>1. /\ Goto(w, "store") /\ pc[w] = "compute" /\ asked' = asked
          /\ hits' = hits /\ misses' = misses
      BY <1>4 DEF Search
    <2>2. Searching' = Searching /\ Cardinality(Searching) \in Nat
      BY <1>t, <2>1, Moved DEF Searching
    <2> QED BY <1>t, <1>u, <1>4, <2>1, <2>2, Untold
  <1>5. ASSUME NEW w \in Worker, Store(w), Tally(w) PROVE Told'
    <2>1. /\ pc[w] = "store" /\ asked[w] \in Request /\ asked[w].body = "ids"
          /\ asked[w] # NoRequest /\ route[w] = Answer(asked[w])
      BY <1>t, <1>5 DEF ServerInv, TypeOK, Store, Informed, Computed
    <2>2. route[w] \in Routes
      BY <2>1, Requests
    <2>3. /\ Goto(w, "idle") /\ Concludes(w) /\ ~answer'[w].cached
          /\ answer'[w].route = RouteJson(route[w])
      BY <1>t, <1>5, <2>1 DEF TypeOK, Store, Respond, Response, Concludes
    <2>4. hits' = hits /\ misses' = misses
      BY <1>5, StoreKeepsTruth
    <2>5. told' = [told EXCEPT !.computed = @ + 1]
      BY <1>5, <2>2, <2>3, JsonIsRoute DEF Tally
    <2>6. /\ Cardinality(Searching') = Cardinality(Searching) - 1
          /\ Cardinality(Searching) \in Nat /\ Cardinality(Searching') \in Nat
      BY <1>t, <2>1, <2>3, Moved DEF Searching
    <2> QED BY <1>t, <2>4, <2>5, <2>6 DEF Told, LookupsAccounted, Searching, At
  <1>6. ASSUME NEW w \in Worker, Tally(w),
               HealthSize(w) \/ HealthRatio(w) \/ HealthHits(w) \/ HealthMisses(w)
        PROVE  Told'
    <2>1. PICK l \in {"ratio", "hits", "misses", "idle"} :
             /\ Goto(w, l) /\ pc[w] \notin {"compute", "store"}
             /\ asked' = asked /\ hits' = hits /\ misses' = misses
      BY <1>6 DEF HealthSize, HealthRatio, HealthHits, HealthMisses, ReadHealth
    <2>2. Searching' = Searching /\ Cardinality(Searching) \in Nat
      BY <1>t, <2>1, Moved DEF Searching
    <2> QED BY <1>t, <1>u, <1>6, <2>1, <2>2, Untold
  <1>7. CASE UNCHANGED countedVars
    BY <1>7 DEF countedVars, vars, Told, LookupsAccounted
  <1> QED BY <1>1, <1>2, <1>3, <1>4, <1>5, <1>6, <1>7 DEF CountedNext, Work

(* The statistics are exact: at every moment the hits are the responses     *)
(* that said the route was cached, and the misses are the responses that    *)
(* carried a route computed for them (or that there is none) and the        *)
(* searches still under way, whatever the threads do at once                *)
(* (LRUCache.hpp, get and statistics; RouteController.cpp, computeRoute).   *)
THEOREM ServerAccountsLookups == CountedSpec => []LookupsAccounted
  <1>1. CountedInit => ServerInv /\ Told
    <2> SUFFICES ASSUME CountedInit PROVE ServerInv /\ Told
      OBVIOUS
    <2>1. hits = 0 /\ misses = 0 /\ pc = [w \in Worker |-> "idle"] /\ Init
      BY DEF CountedInit, Init, Cache!Init
    <2>2. {w \in Worker : pc[w] \in {"compute", "store"}} = {}
      BY <2>1
    <2>3. Told
      BY <2>1, <2>2, FS_EmptySet DEF CountedInit, Told, LookupsAccounted
    <2> QED BY <2>1, <2>3, InitServer
  <1>2. [CountedNext]_countedVars => [Next]_vars
    BY DEF CountedNext, Next, countedVars
  <1>3. ServerInv /\ Told /\ [CountedNext]_countedVars => ServerInv' /\ Told'
    BY <1>2, StepServer, StepTold
  <1>4. Told => LookupsAccounted
    BY DEF Told
  <1> QED BY <1>1, <1>3, <1>4, PTL DEF CountedSpec

-----------------------------------------------------------------------------
(* The server refines the service without a cache.                          *)

shown == [w \in Worker |-> Visible(answer[w])]

LEMMA ShowsResponse ==
    ASSUME TypeOK, NEW w \in Worker, NEW response \in Responses,
           answer' = [answer EXCEPT ![w] = response]
    PROVE  shown' = [shown EXCEPT ![w] = [status |-> response.status, route |-> response.route]]
  <1>1. response # NoRequest
    BY NoRequestAssumption
  <1>2. answer'[w] = response /\ \A v \in Worker : v # w => answer'[v] = answer[v]
    BY DEF TypeOK
  <1>3. Visible(answer'[w]) = [status |-> response.status, route |-> response.route]
    BY <1>1, <1>2 DEF Visible
  <1>4. \A v \in Worker : v # w => Visible(answer'[v]) = Visible(answer[v])
    BY <1>2
  <1>5. shown' = [v \in Worker |-> Visible(answer'[v])]
    BY DEF shown, Visible
  <1> QED BY <1>3, <1>4, <1>5 DEF shown

LEMMA RightAnswer ==
    ASSUME NEW rq \in Request, rq.body = "ids", {rq.from, rq.to} \subseteq Known
    PROVE  Right(rq) = [status |-> IF Answer(rq).found THEN 200 ELSE 404,
                        route  |-> RouteJson(Answer(rq))]
  BY DEF Right, Answer

LEMMA StepService ==
    ASSUME ServerInv, [Next]_vars
    PROVE  [S!Next]_(S!vars)
  <1>0. TypeOK
    BY DEF ServerInv
  <1>1. ASSUME NEW w \in Worker, Reject(w) PROVE S!Reply(w)
    <2>1. asked[w] # NoRequest /\ asked' = [asked EXCEPT ![w] = NoRequest]
      BY <1>0, <1>1 DEF TypeOK, Reject, Respond
    <2>2. NoValue \in Json
      BY DEF Json
    <2>3. CASE /\ asked[w].body # "ids"
               /\ answer' = [answer EXCEPT ![w] = Response(400, NoValue, FALSE)]
      <3>1. shown' = [shown EXCEPT ![w] = [status |-> 400, route |-> NoValue]]
        <4> DEFINE response == Response(400, NoValue, FALSE)
        <4>0. answer' = [answer EXCEPT ![w] = response]
          BY <2>3
        <4>r. response \in Responses
          BY <2>2 DEF Response, Responses
        <4>1. response.status = 400 /\ response.route = NoValue
          BY DEF Response
        <4>2. [status |-> response.status, route |-> response.route]
                = [status |-> 400, route |-> NoValue]
          BY <4>1
        <4>3. shown' = [shown EXCEPT ![w] = [status |-> response.status, route |-> response.route]]
          <5> HIDE DEF response
          <5> QED BY <1>0, <4>0, <4>r, ShowsResponse
        <4> QED BY <4>2, <4>3
      <3>2. Right(asked[w]) = [status |-> 400, route |-> NoValue]
        BY <2>3 DEF Right
      <3> QED BY <2>1, <3>1, <3>2 DEF S!Reply, shown
    <2>4. CASE /\ asked[w].body = "ids" /\ {asked[w].from, asked[w].to} \ Known # {}
               /\ answer' = [answer EXCEPT ![w] = Response(404, NoValue, FALSE)]
      <3>1. shown' = [shown EXCEPT ![w] = [status |-> 404, route |-> NoValue]]
        <4> DEFINE response == Response(404, NoValue, FALSE)
        <4>0. answer' = [answer EXCEPT ![w] = response]
          BY <2>4
        <4>r. response \in Responses
          BY <2>2 DEF Response, Responses
        <4>1. response.status = 404 /\ response.route = NoValue
          BY DEF Response
        <4>2. [status |-> response.status, route |-> response.route]
                = [status |-> 404, route |-> NoValue]
          BY <4>1
        <4>3. shown' = [shown EXCEPT ![w] = [status |-> response.status, route |-> response.route]]
          <5> HIDE DEF response
          <5> QED BY <1>0, <4>0, <4>r, ShowsResponse
        <4> QED BY <4>2, <4>3
      <3>2. Right(asked[w]) = [status |-> 404, route |-> NoValue]
        BY <2>4 DEF Right
      <3> QED BY <2>1, <3>1, <3>2 DEF S!Reply, shown
    <2> QED BY <1>1, <2>3, <2>4 DEF Reject, Respond
  <1>2. ASSUME NEW w \in Worker, Lookup(w) PROVE S!Reply(w) \/ UNCHANGED S!vars
    <2> DEFINE rq == asked[w]
    <2>1. /\ rq \in Request /\ rq.body = "ids" /\ {rq.from, rq.to} \subseteq Known
          /\ rq # NoRequest /\ Cache!Get(CacheKey(rq)) /\ CP!CacheInv
      BY <1>0, <1>2 DEF ServerInv, TypeOK, Lookup
    <2>2. CASE reply'.value = NoValue
      BY <1>2, <2>2 DEF Lookup, S!vars
    <2>3. CASE reply'.value # NoValue
      <3>1. /\ asked' = [asked EXCEPT ![w] = NoRequest]
            /\ answer' = [answer EXCEPT ![w] = Response(200, RouteJson(reply'.value), TRUE)]
        BY <1>2, <2>3 DEF Lookup, Respond
      <3>2. PICK i \in DOMAIN list : list[i].key = CacheKey(rq) /\ reply'.value = list[i].value
        <4>1. CacheKey(rq) \in Keys
          BY <2>1, Requests
        <4> QED BY <2>1, <2>3, <4>1, Lookups
      <3>3. reply'.value = Answer(rq) /\ Answer(rq).found
        <4>1. /\ list[i].value = Compute(Finder(CacheKey(rq).algorithm), CacheKey(rq).start, CacheKey(rq).end)
              /\ list[i].value.found
          BY <3>2 DEF ServerInv, CacheIsTrue
        <4> QED BY <2>1, <3>2, <4>1, Requests
      <3>4. Right(rq) = [status |-> 200, route |-> RouteJson(Answer(rq))]
        BY <2>1, <3>3, RightAnswer
      <3>5. RouteJson(Answer(rq)) \in Json
        BY <2>1, Requests, JsonOf
      <3>6. shown' = [shown EXCEPT ![w] = [status |-> 200, route |-> RouteJson(Answer(rq))]]
        <4> DEFINE response == Response(200, RouteJson(Answer(rq)), TRUE)
        <4>0. answer' = [answer EXCEPT ![w] = response]
          BY <3>1, <3>3
        <4>r. response \in Responses
          BY <3>5 DEF Response, Responses
        <4>1. response.status = 200 /\ response.route = RouteJson(Answer(rq))
          BY DEF Response
        <4>2. [status |-> response.status, route |-> response.route]
                = [status |-> 200, route |-> RouteJson(Answer(rq))]
          BY <4>1
        <4>3. shown' = [shown EXCEPT ![w] = [status |-> response.status, route |-> response.route]]
          <5> HIDE DEF response
          <5> QED BY <1>0, <4>0, <4>r, ShowsResponse
        <4> QED BY <4>2, <4>3
      <3> QED BY <2>1, <3>1, <3>4, <3>6 DEF S!Reply, shown
    <2> QED BY <2>2, <2>3
  <1>3. ASSUME NEW w \in Worker, Store(w) PROVE S!Reply(w)
    <2> DEFINE rq == asked[w]
               status == IF Answer(rq).found THEN 200 ELSE 404
    <2>1. /\ rq \in Request /\ rq.body = "ids" /\ {rq.from, rq.to} \subseteq Known
          /\ rq # NoRequest /\ route[w] = Answer(rq)
      BY <1>0, <1>3 DEF ServerInv, TypeOK, Store, Informed, Computed
    <2>2. /\ asked' = [asked EXCEPT ![w] = NoRequest]
          /\ answer' = [answer EXCEPT ![w] = Response(status, RouteJson(Answer(rq)), FALSE)]
      BY <1>3, <2>1 DEF Store, Respond
    <2>3. RouteJson(Answer(rq)) \in Json
      BY <2>1, Requests, JsonOf
    <2>4. status \in {200, 400, 404}
      OBVIOUS
    <2>5. Right(rq) = [status |-> status, route |-> RouteJson(Answer(rq))]
      BY <2>1, RightAnswer
    <2> HIDE DEF status
    <2>6. shown' = [shown EXCEPT ![w] = [status |-> status, route |-> RouteJson(Answer(rq))]]
      <3> DEFINE response == Response(status, RouteJson(Answer(rq)), FALSE)
      <3>0. answer' = [answer EXCEPT ![w] = response]
        BY <2>2
      <3>1. /\ response \in Responses
            /\ response.status = status /\ response.route = RouteJson(Answer(rq))
        BY <2>3, <2>4 DEF Response, Responses
      <3> HIDE DEF response
      <3> QED BY <1>0, <3>0, <3>1, ShowsResponse
    <2> QED BY <2>1, <2>2, <2>5, <2>6 DEF S!Reply, shown
  <1>4. ASSUME NEW w \in Worker,
               Search(w) \/ HealthRatio(w) \/ HealthHits(w) \/ HealthMisses(w) \/ HealthSize(w)
        PROVE  UNCHANGED S!vars
    BY <1>4 DEF Search, HealthRatio, HealthHits, HealthMisses, HealthSize, ReadHealth, S!vars
  <1>5. ASSUME NEW w \in Worker, NEW rq \in Request, Accept(w, rq) PROVE S!Ask(w, rq)
    <2>1. asked[w] = NoRequest
      BY <1>0, <1>5 DEF TypeOK, Accept
    <2> QED BY <1>5, <2>1 DEF Accept, S!Ask
  <1>6. CASE UNCHANGED vars
    BY <1>6 DEF vars, S!vars
  <1> QED BY <1>1, <1>2, <1>3, <1>4, <1>5, <1>6 DEF Next, Work, S!Next

(* Whatever the interleaving, what clients are sent is what a server        *)
(* without a cache would send them: one response per request, with the      *)
(* status and route its ids and algorithm call for.  This is the safety     *)
(* part of ImplementsService; that every request is answered is left to     *)
(* the model checker.                                                       *)
THEOREM ServesAsIfUncached == Spec => S!Init /\ [][S!Next]_(S!vars)
  <1>1. Init => S!Init
    BY DEF Init, S!Init, Visible
  <1>2. ServerInv /\ [Next]_vars => [S!Next]_(S!vars)
    BY StepService
  <1> QED BY <1>1, <1>2, AlwaysServerInv, PTL DEF Spec
=============================================================================

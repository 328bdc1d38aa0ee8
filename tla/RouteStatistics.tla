--------------------------- MODULE RouteStatistics ---------------------------
(***************************************************************************)
(* The server with a history of what its clients were told: how many        *)
(* responses said that the route came from the cache, and how many carried  *)
(* one that had been computed for them.  The server does not see it.        *)
(***************************************************************************)
EXTENDS RouteServer

VARIABLE told \* [cached, computed], as the responses say

countedVars == <<vars, told>>

CountedInit == Init /\ told = [cached |-> 0, computed |-> 0]

Concludes(w) == asked[w] # NoRequest /\ asked'[w] = NoRequest

Tally(w) ==
    told' = IF Concludes(w) /\ answer'[w].cached THEN [told EXCEPT !.cached = @ + 1]
            ELSE IF Concludes(w) /\ answer'[w].route # NoValue THEN [told EXCEPT !.computed = @ + 1]
                 ELSE told

CountedNext ==
    \E w \in Worker :
       /\ Work(w) \/ HealthSize(w) \/ \E rq \in Request : Accept(w, rq)
       /\ Tally(w)

CountedSpec ==
    CountedInit /\ [][CountedNext]_countedVars /\ \A w \in Worker : WF_vars(Work(w))

(* The statistics account for every lookup, once, and for nothing else: the *)
(* hits are the responses that say "cached" (RouteController.cpp 155), the  *)
(* misses those computed and those being computed, also when two threads    *)
(* miss the same key at once; requests rejected and health reports count as *)
(* neither.                                                                 *)
LookupsAccounted ==
    /\ hits = told.cached
    /\ misses = told.computed + Cardinality({w \in Worker : pc[w] \in {"compute", "store"}})
=============================================================================

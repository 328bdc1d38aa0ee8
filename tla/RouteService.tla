---------------------------- MODULE RouteService ----------------------------
(***************************************************************************)
(* POST /api/route as a client sees it (docs/API_SCHEMA.md "Compute Route"): *)
(* each request gets the one answer its ids and algorithm call for.  No      *)
(* cache: whether an answer was cached must not be visible in the route.     *)
(***************************************************************************)
CONSTANTS
    Worker,            \* server threads, each with one request at a time
    Request, NoRequest,
    Expected(_)        \* the right answer: [status, route]

VARIABLES asked, answer

vars == <<asked, answer>>

Init == /\ asked = [w \in Worker |-> NoRequest]
        /\ answer = [w \in Worker |-> NoRequest]

Ask(w, rq) == /\ asked[w] = NoRequest
              /\ asked' = [asked EXCEPT ![w] = rq]
              /\ UNCHANGED answer

Reply(w) == /\ asked[w] # NoRequest
            /\ answer' = [answer EXCEPT ![w] = Expected(asked[w])]
            /\ asked' = [asked EXCEPT ![w] = NoRequest]

Next == \E w \in Worker : Reply(w) \/ \E rq \in Request : Ask(w, rq)

Spec == /\ Init /\ [][Next]_vars
        /\ \A w \in Worker : WF_vars(Reply(w))
=============================================================================

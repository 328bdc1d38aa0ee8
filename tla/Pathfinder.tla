----------------------------- MODULE Pathfinder -----------------------------
(***************************************************************************)
(* What IPathfinder::compute promises (core/algorithms/IPathfinder.hpp and  *)
(* README "Guaranteed shortest path"): it answers once, and the answer is a *)
(* shortest ride, or "not found" when no ride exists.                       *)
(***************************************************************************)
EXTENDS RouteResult

VARIABLES call, answered, result

vars == <<call, answered, result>>

-----------------------------------------------------------------------------
IsAnswer(c, r) ==
    IF c.start = c.end THEN r = TrivialRoute(c.start)
    ELSE IF ~HasStation(c.graph, c.start) \/ ~HasStation(c.graph, c.end)
         THEN ~r.found
         ELSE LET d == Distance(c.graph, c.start)[c.end]
              IN  IF r.found
                  THEN r.total \in d /\ IsRide(c.graph, r, c.start, c.end)
                  ELSE d = {}

-----------------------------------------------------------------------------
Init == IsCall(call) /\ ~answered /\ result = NoRoute

Answer == /\ ~answered /\ answered'
          /\ IsAnswer(call, result')
          /\ UNCHANGED call

Spec == Init /\ [][Answer]_vars /\ <>answered
=============================================================================

------------------------------ MODULE MapView ------------------------------
(***************************************************************************)
(* The map (MapComponent, RouteLayer) beside the route slice it follows:    *)
(* the list of stations it takes places from, the drawing of the current    *)
(* route with its animation, deep links, and leaving and coming back to the *)
(* page.  Subscribers run inside the dispatch, so a change of currentRoute  *)
(* and its drawing are one step.                                            *)
(***************************************************************************)
EXTENDS RouteStore

VARIABLES
    stations, \* the slice store/station: asked, here or failed
    mounted,  \* whether the page with the map is shown
    link,     \* the deep link: None, asked or failed
    drawn,    \* [route, placed]; placed if there are points on the map
    frame,    \* animationFrame: the loop of its last requestAnimationFrame, or None
    loops     \* the animation loops with a frame requested from the browser

view == <<drawn, frame, loops>>
mapVars == <<vars, stations, mounted, link, view>>

NoDrawing == [route |-> None, placed |-> FALSE]

MapInit ==
    /\ Init
    /\ stations = "asked" /\ mounted = TRUE /\ link \in {None, "asked"}
    /\ drawn = NoDrawing /\ frame = None /\ loops = {}

-----------------------------------------------------------------------------
(* RouteLayer                                                               *)

Running == loops \ {frame}

\* the polylines go, the animation does not
ClearLayersOnlyMutant == drawn' = NoDrawing /\ UNCHANGED <<frame, loops>>

\* clear: stopAnimation cancels the one frame it knows of
Clear == drawn' = NoDrawing /\ frame' = None /\ loops' = Running

\* a loop none of those running is mistaken for
NewLoop == CHOOSE n \in 1..MaxSearches + 1 : n \notin Running

\* displayRoute: a clear, then what lies between stations whose place is known,
\* with an animation if that is anything
DisplayRoute(route) ==
    \E placed \in {FALSE, stations = "here"} :
       /\ drawn' = [route |-> route, placed |-> placed]
       /\ IF placed THEN frame' = NewLoop /\ loops' = Running \cup {NewLoop}
          ELSE frame' = None /\ loops' = Running

\* animate draws a step and asks for the next frame
Animate(n) ==
    /\ n \in loops /\ frame' = n
    /\ UNCHANGED <<vars, stations, mounted, link, drawn, loops>>

-----------------------------------------------------------------------------
(* The subscription to selectCurrentRoute                                   *)

FollowRoutesOnlyMutant ==
    IF mounted /\ currentRoute' \notin {None, currentRoute} THEN DisplayRoute(currentRoute')
    ELSE UNCHANGED view

Follow ==
    IF ~mounted \/ currentRoute' = currentRoute THEN UNCHANGED view
    ELSE IF currentRoute' = None THEN Clear ELSE DisplayRoute(currentRoute')

OnRoute(A) == A /\ Follow /\ UNCHANGED <<stations, mounted, link>>

\* loadStations of App.ngOnInit ends; the map takes the places, and redraws no route
StationsEnd ==
    /\ stations = "asked" /\ stations' \in {"here", "failed"}
    /\ UNCHANGED <<vars, mounted, link, view>>

(* handleDeepLink: getById reads response.station of an answer that is the  *)
(* station itself, so its map throws, and nothing is dispatched: no station *)
(* is set and no route computed, whatever the server answers.               *)
LinkEnds ==
    /\ mounted /\ link = "asked" /\ link' = "failed"
    /\ UNCHANGED <<vars, stations, mounted, view>>

\* ngOnDestroy
Leave ==
    /\ mounted /\ mounted' = FALSE
    /\ link' = None /\ Clear
    /\ UNCHANGED <<vars, stations>>

\* a new component with a new layer, subscribing to the store as it is
Return ==
    /\ ~mounted /\ mounted' = TRUE
    /\ link' \in {None, "asked"}
    /\ IF currentRoute = None THEN UNCHANGED view ELSE DisplayRoute(currentRoute)
    /\ UNCHANGED <<vars, stations>>

MapNext ==
    \/ OnRoute(Next)
    \/ StationsEnd \/ LinkEnds \/ Leave \/ Return
    \/ \E n \in loops : Animate(n)

(* The timers and answers of RouteStore, and the answer to loadStations.    *)
MapSpec ==
    /\ MapInit /\ [][MapNext]_mapVars
    /\ WF_mapVars(OnRoute(QueuedCompute))
    /\ \A rq \in Request : WF_mapVars(OnRoute(Answer(rq) \/ Fail(rq)))
    /\ WF_mapVars(StationsEnd)

-----------------------------------------------------------------------------
(* The map shows the route of the card, no older one and none when there is *)
(* none, whatever was selected, closed, left and come back to meanwhile.    *)
DrawnIsCurrent == mounted => drawn.route = currentRoute

(* One loop moves the marker of the route drawn, and no loop is left behind *)
(* by a route replaced, cleared or left: an abandoned one would ask for     *)
(* frames for ever, and overwrite the only handle it could be stopped by.   *)
OneAnimation ==
    loops = IF drawn.placed THEN {frame} ELSE {}
=============================================================================

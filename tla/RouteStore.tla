----------------------------- MODULE RouteStore -----------------------------
(***************************************************************************)
(* Asking for a route in the web client: the NgRx slice store/route (its    *)
(* reducer and its effect), the search panel, the recent searches kept in   *)
(* localStorage, the map's clicks and the Escape key.                       *)
(*                                                                          *)
(* The browser runs one callback at a time, so a callback with everything   *)
(* it dispatches is one step; an answer from the server and a setTimeout    *)
(* are callbacks of their own, and anything may happen before them.         *)
(***************************************************************************)
EXTENDS Naturals, Sequences, SequencesExt

CONSTANTS
    Station, Algorithm,
    DefaultAlgorithm,
    None,
    MaxRecent,   \* MAX_RECENT
    MaxSearches  \* bound on the searches of a behaviour

ASSUME RouteStoreAssumption ==
    /\ DefaultAlgorithm \in Algorithm /\ None \notin Station
    /\ MaxRecent \in Nat \ {0} /\ MaxSearches \in Nat

VARIABLES
    departure, arrival, algorithm, currentRoute, loading, error, \* RouteState
    inflight, \* requests whose answer the effect still listens to
    queued,   \* computeRoute dispatches waiting in a setTimeout
    recents,  \* localStorage, most recent first
    shown,    \* the list on screen
    asked,    \* history: the last request, as the effect read it
    searches  \* searches started

selection == <<departure, arrival, algorithm>>
vars == <<departure, arrival, algorithm, currentRoute, loading, error,
          inflight, queued, recents, shown, asked, searches>>

Selected == Station \cup {None}

\* a request, and the route that answers it
Request == [from: Station, to: Station, algorithm: Algorithm]

Pair == [departure: Station, arrival: Station]

Init ==
    /\ departure = None /\ arrival = None /\ algorithm = DefaultAlgorithm
    /\ currentRoute = None /\ loading = FALSE /\ error = None
    /\ inflight = {} /\ queued = 0
    /\ recents = <<>> /\ shown = <<>>
    /\ asked = None /\ searches = 0

-----------------------------------------------------------------------------
(* The reducer on what the user selects.  Nothing here touches loading or   *)
(* a request on its way.                                                    *)

Untouched == UNCHANGED <<loading, inflight, queued, recents, shown, asked, searches>>

SetDeparture(s) ==
    /\ departure' = s /\ currentRoute' = None /\ error' = None
    /\ UNCHANGED <<arrival, algorithm>> /\ Untouched

SetArrival(s) ==
    /\ arrival' = s /\ currentRoute' = None /\ error' = None
    /\ UNCHANGED <<departure, algorithm>> /\ Untouched

\* the map fills the departure first (isSelectingDeparture)
ClickStation(s) == IF departure = None THEN SetDeparture(s) ELSE SetArrival(s)

ClearDeparture ==
    /\ departure' = None /\ currentRoute' = None
    /\ UNCHANGED <<arrival, algorithm, error>> /\ Untouched

ClearArrival ==
    /\ arrival' = None /\ currentRoute' = None
    /\ UNCHANGED <<departure, algorithm, error>> /\ Untouched

SwapStations ==
    /\ departure' = arrival /\ arrival' = departure /\ currentRoute' = None
    /\ UNCHANGED <<algorithm, error>> /\ Untouched

SetAlgorithm(a) ==
    /\ algorithm' = a
    /\ UNCHANGED <<departure, arrival, currentRoute, error>> /\ Untouched

\* Escape, and the close button of the route card
ClearRoute ==
    /\ currentRoute' = None /\ error' = None
    /\ UNCHANGED selection /\ Untouched

-----------------------------------------------------------------------------
(* computeRoute: the reducer, then the effect on the selection of that      *)
(* moment.  switchMap drops the request before, whatever this one becomes.  *)

SwitchedMergeMapMutant(requests) == inflight \cup requests

Switched(requests) == requests

\* no failure is dispatched for a missing station
ComputeIncompleteSilentMutant(d, a) ==
    /\ currentRoute' = None
    /\ asked' = [from |-> d, to |-> a, algorithm |-> algorithm]
    /\ loading' = TRUE /\ error' = None
    /\ inflight' = Switched(IF d = None \/ a = None \/ d = a THEN {}
                            ELSE {[from |-> d, to |-> a, algorithm |-> algorithm]})

\* the effect does not look for a missing station
ComputeUncheckedMutant(d, a) ==
    /\ currentRoute' = None
    /\ asked' = [from |-> d, to |-> a, algorithm |-> algorithm]
    /\ loading' = TRUE /\ error' = None
    /\ inflight' = Switched({[from |-> d, to |-> a, algorithm |-> algorithm]})

Compute(d, a) ==
    /\ currentRoute' = None
    /\ asked' = [from |-> d, to |-> a, algorithm |-> algorithm]
    /\ IF d = None \/ a = None \/ d = a
       THEN /\ loading' = FALSE
            /\ error' = IF d = None \/ a = None THEN "incomplete" ELSE "same station"
            /\ inflight' = Switched({})
       ELSE /\ loading' = TRUE /\ error' = None
            /\ inflight' = Switched({[from |-> d, to |-> a, algorithm |-> algorithm]})

\* computeRouteSuccess
Answer(rq) ==
    /\ rq \in inflight
    /\ currentRoute' = rq /\ loading' = FALSE
    /\ inflight' = inflight \ {rq}
    /\ UNCHANGED <<departure, arrival, algorithm, error, queued, recents, shown, asked, searches>>

\* computeRouteFailure: no route, a server error, no network
Fail(rq) ==
    /\ rq \in inflight
    /\ error' = "http" /\ loading' = FALSE
    /\ inflight' = inflight \ {rq}
    /\ UNCHANGED <<departure, arrival, algorithm, currentRoute, queued, recents, shown, asked, searches>>

-----------------------------------------------------------------------------
(* The search panel and the recent searches                                 *)

\* a filter: the k-th entry left is the k-th of those that differ
Others(p) ==
    LET left   == {i \in DOMAIN recents : recents[i] # p}
        Nth(k) == CHOOSE i \in left : Cardinality({j \in left : j <= i}) = k
    IN  [k \in 1..Cardinality(left) |-> recents[Nth(k)]]

AddedUncappedMutant(p) == <<p>> \o Others(p)

Added(p) == SubSeq(<<p>> \o Others(p), 1,
                   IF Len(Others(p)) < MaxRecent THEN Len(Others(p)) + 1 ELSE MaxRecent)

\* the button is disabled without a selection and while loading; a full
\* localStorage refuses the new list
FindRoute ==
    /\ departure # None /\ arrival # None /\ ~loading
    /\ searches < MaxSearches /\ searches' = searches + 1
    /\ recents' \in {Added([departure |-> departure, arrival |-> arrival]), recents}
    /\ shown' = recents'
    /\ Compute(departure, arrival)
    /\ UNCHANGED <<departure, arrival, algorithm, queued>>

\* available while loading, too
SelectRecent ==
    \E i \in DOMAIN shown :
       /\ searches < MaxSearches /\ searches' = searches + 1
       /\ departure' = shown[i].departure /\ arrival' = shown[i].arrival
       /\ currentRoute' = None /\ error' = None
       /\ queued' = queued + 1
       /\ UNCHANGED <<algorithm, loading, inflight, recents, shown, asked>>

\* the setTimeout: by now the selection may be another
QueuedCompute ==
    /\ queued > 0 /\ queued' = queued - 1
    /\ Compute(departure, arrival)
    /\ UNCHANGED <<departure, arrival, algorithm, recents, shown, searches>>

ClearRecents ==
    /\ recents' = <<>> /\ shown' = <<>>
    /\ UNCHANGED <<departure, arrival, algorithm, currentRoute, loading, error,
                   inflight, queued, asked, searches>>

-----------------------------------------------------------------------------
Select == \/ \E s \in Station : SetDeparture(s) \/ SetArrival(s) \/ ClickStation(s)
          \/ ClearDeparture \/ ClearArrival \/ SwapStations
          \/ \E a \in Algorithm : SetAlgorithm(a)

Next == \/ Select \/ ClearRoute
        \/ FindRoute \/ SelectRecent \/ QueuedCompute \/ ClearRecents
        \/ \E rq \in inflight : Answer(rq) \/ Fail(rq)

(* A timeout of 0 fires, and an HTTP request ends, well or badly; nobody    *)
(* has to touch the panel.                                                  *)
Spec == /\ Init /\ [][Next]_vars
        /\ WF_vars(QueuedCompute)
        /\ \A rq \in Request : WF_vars(Answer(rq) \/ Fail(rq))

-----------------------------------------------------------------------------
(* Types of the slice, the lists and the history variables.                 *)
TypeOK ==
    /\ departure \in Selected /\ arrival \in Selected /\ algorithm \in Algorithm
    /\ currentRoute \in Request \cup {None}
    /\ loading \in BOOLEAN
    /\ error \in {None, "incomplete", "same station", "http"}
    /\ inflight \subseteq Request
    /\ queued \in 0..MaxSearches
    /\ recents \in Seq(Pair) /\ shown \in Seq(Pair)
    /\ asked \in [from: Selected, to: Selected, algorithm: Algorithm] \cup {None}
    /\ searches \in 0..MaxSearches

(* The progress bar is on exactly while one answer, to the last request, is *)
(* awaited: no search dropped by switchMap, however the timers and answers  *)
(* fall, switches it off or leaves it on.                                   *)
LoadingIffAwaited ==
    /\ inflight \subseteq {asked}
    /\ loading <=> inflight # {}

(* The route on screen answers the last request, never an earlier one that  *)
(* was slower.                                                              *)
LastRequestWins == currentRoute # None => currentRoute = asked

(* There is never a route next to an error, nor one while the next is being *)
(* computed.                                                                *)
OneOutcome ==
    /\ currentRoute # None => error = None
    /\ loading => currentRoute = None /\ error = None

(* The recent searches are distinct, at most MAX_RECENT, and the list on    *)
(* screen is the stored one, also when storing failed.                      *)
RecentsInStep ==
    /\ shown = recents
    /\ Len(recents) <= MaxRecent
    /\ IsInjective(recents)

(* A search comes to an end, with a route or an error.                      *)
SearchEnds == loading ~> ~loading
=============================================================================

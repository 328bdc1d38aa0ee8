---------------------------- MODULE StationSearch ----------------------------
(***************************************************************************)
(* Autocomplete in the web client: the two station boxes of the search      *)
(* panel (StationAutocompleteComponent), the NgRx slice store/station they  *)
(* share, and the effect that asks the server.  A text is debounced twice,  *)
(* in its box and in the effect, and each time dropped when it equals the   *)
(* one let through before.  Timers and answers are callbacks of their own.  *)
(***************************************************************************)
EXTENDS Naturals, SequencesExt

CONSTANTS
    Box,      \* departure and arrival
    Long,     \* texts of two characters and more
    Short,    \* the others, the empty text among them
    Picked,   \* a station object as the value of a box
    Nothing,
    Effect,   \* names the timer of the effect; a box names its own
    MaxEvents \* bound on what users do in a behaviour

VARIABLES
    text,      \* FormControl value of each box
    typed,     \* value waiting for the box's debounceTime, or Nothing
    emitted,   \* last value its distinctUntilChanged let through
    results,   \* searchResults: Nothing when empty, or the query they answer
    searching, \* spinner flag of the slice
    debounced, \* query waiting for the effect's debounceTime, or Nothing
    handled,   \* last query the effect's distinctUntilChanged let through
    pending,   \* queries whose answer the effect still listens to
    due,       \* the timers running, in the order they were set: each takes 300 ms
    events     \* user events so far

suggestVars == <<text, typed, emitted, results, searching, debounced, handled, pending, due, events>>

Empty == CHOOSE t \in Short : TRUE

SuggestInit ==
    /\ text = [b \in Box |-> Empty]
    /\ typed = [b \in Box |-> Nothing] /\ emitted = [b \in Box |-> Nothing]
    /\ results = Nothing /\ searching = FALSE
    /\ debounced = Nothing /\ handled = Nothing /\ pending = {}
    /\ due = <<>> /\ events = 0

Event == events < MaxEvents /\ events' = events + 1

-----------------------------------------------------------------------------
(* What the components dispatch: the reducer, and the effect taking note    *)

\* the timers left running of some
Without(running, timers) == SelectSeq(running, LAMBDA t : t \notin timers)

\* running: the timers but for the one that made the component dispatch
SearchStations(q, running) ==
    /\ searching' = TRUE /\ debounced' = q
    /\ due' = Append(Without(running, {Effect}), Effect)
    /\ UNCHANGED results

\* the effect does not hear of it
ClearSearch == results' = Nothing /\ searching' = FALSE /\ UNCHANGED debounced

\* setValue with its event: typing, the voice input, and the two below
SetText(boxes, v) ==
    /\ text' = [b \in Box |-> IF b \in boxes THEN v ELSE text[b]]
    /\ typed' = [b \in Box |-> IF b \in boxes THEN v ELSE typed[b]]
    /\ \E set \in SetToSeqs(boxes) : due' = Without(due, boxes) \o set

Type(b, v) ==
    /\ Event /\ SetText({b}, v)
    /\ UNCHANGED <<emitted, results, searching, debounced, handled, pending>>

\* an option of the list both boxes show
Pick(b) ==
    /\ results # Nothing
    /\ Event /\ SetText({b}, Picked) /\ ClearSearch
    /\ UNCHANGED <<emitted, handled, pending>>

ClearBox(b) ==
    /\ text[b] # Empty
    /\ Event /\ SetText({b}, Empty) /\ ClearSearch
    /\ UNCHANGED <<emitted, handled, pending>>

\* after a swap or a recent search, the names of the stations selected: no
\* event, and no timer is stopped
Fill ==
    /\ Event /\ text' \in [Box -> Long \cup {Empty}]
    /\ UNCHANGED <<typed, emitted, results, searching, debounced, handled, pending, due>>

Focus(b) ==
    /\ text[b] \in Long
    /\ Event /\ SearchStations(text[b], due)
    /\ UNCHANGED <<text, typed, emitted, handled, pending>>

-----------------------------------------------------------------------------
(* debounceTime, distinctUntilChanged and the filter of a box               *)

LongEnough(v) == v \in Long

BoxTimer(b) ==
    /\ due # <<>> /\ Head(due) = b
    /\ typed' = [typed EXCEPT ![b] = Nothing]
    /\ emitted' = [emitted EXCEPT ![b] = typed[b]]
    /\ IF typed[b] \in {emitted[b], Picked}
       THEN due' = Tail(due) /\ UNCHANGED <<results, searching, debounced>>
       ELSE IF LongEnough(typed[b]) THEN SearchStations(typed[b], Tail(due))
            ELSE ClearSearch /\ due' = Tail(due)
    /\ UNCHANGED <<text, handled, pending, events>>

-----------------------------------------------------------------------------
(* The effect: debounceTime, distinctUntilChanged, switchMap                *)

SwitchedToMergeMapMutant(q) == pending \cup {q}

SwitchedTo(q) == {q}

EffectTimer ==
    /\ due # <<>> /\ Head(due) = Effect /\ due' = Tail(due)
    /\ debounced' = Nothing
    /\ IF debounced = handled
       THEN UNCHANGED <<handled, pending>>
       ELSE handled' = debounced /\ pending' = SwitchedTo(debounced)
    /\ UNCHANGED <<text, typed, emitted, results, searching, events>>

SearchSuccess(q) ==
    /\ q \in pending /\ pending' = pending \ {q}
    /\ results' \in {q, Nothing} \* some stations, or none with that name
    /\ searching' = FALSE
    /\ UNCHANGED <<text, typed, emitted, debounced, handled, due, events>>

\* the old results stay
SearchFailure(q) ==
    /\ q \in pending /\ pending' = pending \ {q}
    /\ searching' = FALSE
    /\ UNCHANGED <<text, typed, emitted, results, debounced, handled, due, events>>

-----------------------------------------------------------------------------
SuggestNext ==
    \/ \E b \in Box : \/ \E v \in Long \cup Short : Type(b, v)
                      \/ Pick(b) \/ ClearBox(b) \/ Focus(b) \/ BoxTimer(b)
    \/ Fill \/ EffectTimer
    \/ \E q \in pending : SearchSuccess(q) \/ SearchFailure(q)

(* Timers fire and HTTP requests end; users need not do anything.           *)
SuggestSpec ==
    /\ SuggestInit /\ [][SuggestNext]_suggestVars
    /\ \A b \in Box : WF_suggestVars(BoxTimer(b))
    /\ WF_suggestVars(EffectTimer)
    /\ \A q \in Long : WF_suggestVars(SearchSuccess(q) \/ SearchFailure(q))

-----------------------------------------------------------------------------
(* Suggestions only ever change to those of the query the effect took last, *)
(* from either box: a slow answer to an earlier query is not shown over     *)
(* a later one.                                                             *)
LastQueryWins == [][results' \notin {results, Nothing} => results' = handled]_suggestVars

(* search-route.spec.ts 19, "should show autocomplete suggestions when      *)
(* typing": whoever waits for suggestions gets an answer, if only an empty  *)
(* one.                                                                     *)
SuggestionsEnd == searching ~> ~searching
=============================================================================

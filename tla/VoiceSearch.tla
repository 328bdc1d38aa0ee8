---------------------------- MODULE VoiceSearch ----------------------------
(***************************************************************************)
(* The search panel: the station boxes with their microphone buttons.  What *)
(* is heard is set as the text of a box as if it had been typed, and goes   *)
(* through the same timers.                                                 *)
(***************************************************************************)
EXTENDS StationSearch

CONSTANTS
    Template,      \* the boxes from top to bottom, in which order they are destroyed
    MaxRecognisers \* bound on the recognisers made in a behaviour

ASSUME TemplateAssumption == Template \in Seq(Box) /\ ToSet(Template) = Box

VARIABLES recognition, phase, subscribed, isListening, dead

V == INSTANCE VoiceInput

voiceVars == <<recognition, phase, subscribed, isListening, dead>>
panelVars == <<suggestVars, voiceVars>>

PanelInit == SuggestInit /\ V!VoiceInit

Speak(b) ==
    /\ Event /\ V!Toggle(b) /\ Len(phase') <= MaxRecognisers
    /\ UNCHANGED <<text, typed, emitted, results, searching, debounced, handled, pending, due>>

Hear(r, words) ==
    /\ V!OnResult(r) /\ SetText(V!Receivers, words)
    /\ UNCHANGED <<emitted, results, searching, debounced, handled, pending, events>>

\* the boxes whose text is still waiting and not dropped when debounceTime,
\* its source being completed by destroy$, lets it through
Flushed == SelectSeq(Template, LAMBDA b : typed[b] \notin {Nothing, emitted[b], Picked})

\* ngOnDestroy of one box after the other
Destroy ==
    LET queries == SelectSeq(Flushed, LAMBDA b : LongEnough(typed[b]))
    IN  /\ searching' = IF Flushed = <<>> THEN searching ELSE LongEnough(typed[Last(Flushed)])
        /\ debounced' = IF queries = <<>> THEN debounced ELSE typed[Last(queries)]
        /\ due' = IF queries = <<>> THEN Without(due, Box) ELSE <<Effect>>
        /\ results' = IF queries = Flushed THEN results ELSE Nothing

\* the sidebar is closed and opened again: new boxes, the same slice and effect
Reopen ==
    /\ Event /\ Destroy /\ V!Rebuild
    /\ text' \in [Box -> Long \cup {Empty}] \* the names of the stations selected
    /\ typed' = [b \in Box |-> Nothing] /\ emitted' = [b \in Box |-> Nothing]
    /\ UNCHANGED <<handled, pending>>

PanelNext ==
    \/ SuggestNext /\ UNCHANGED voiceVars
    \/ (\E b \in Box : Speak(b)) \/ Reopen
    \/ \E r \in DOMAIN phase :
          \/ \E words \in Long \cup Short : Hear(r, words)
          \/ (V!OnStart(r) \/ V!OnError(r) \/ V!OnEnd(r)) /\ UNCHANGED suggestVars

(* continuous is false: every recogniser comes to its end event.            *)
PanelSpec ==
    /\ PanelInit /\ [][PanelNext]_panelVars
    /\ \A r \in 1..MaxRecognisers :
          WF_panelVars(r \in DOMAIN phase /\ V!OnEnd(r) /\ UNCHANGED suggestVars)

NoIdleButton  == V!NoIdleButton
OneRecogniser == V!OneRecogniser
ButtonRests   == V!ButtonRests
=============================================================================

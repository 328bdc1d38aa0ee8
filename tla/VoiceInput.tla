----------------------------- MODULE VoiceInput -----------------------------
(***************************************************************************)
(* The microphone buttons beside the station boxes (VoiceInputComponent)    *)
(* and the one SpeechService they share.  Each click makes a recogniser of  *)
(* its own, whose events the browser delivers later and which all go to the *)
(* same two subjects; a button subscribes to them with its first click and  *)
(* stays subscribed until it is destroyed.                                  *)
(***************************************************************************)
EXTENDS Naturals, Sequences

CONSTANTS Box, Nothing

VARIABLES
    recognition, \* the service's current recogniser, or Nothing
    phase,       \* of every recogniser made: starting, on, spent, aborted or over
    subscribed,  \* whether a box listens to transcript$ and listening$
    isListening, \* the button's signal
    dead         \* transcript$ has errored: next() on it does nothing any more

VoiceInit ==
    /\ recognition = Nothing /\ phase = <<>>
    /\ subscribed = [b \in Box |-> FALSE] /\ isListening = [b \in Box |-> FALSE]
    /\ dead = FALSE

\* listening$.next
Listening(on) == isListening' = [b \in Box |-> IF subscribed[b] THEN on ELSE isListening[b]]

Become(r, p) == phase' = [phase EXCEPT ![r] = p]

StopNothingMutant == phase

\* stopListening: the phases with the current recogniser aborted
Stop == [r \in DOMAIN phase |->
            IF r = recognition /\ phase[r] \in {"starting", "on"} THEN "aborted" ELSE phase[r]]

Toggle(b) ==
    /\ IF isListening[b]
       THEN /\ phase' = Stop /\ recognition' = Nothing
            /\ isListening' = [isListening EXCEPT ![b] = FALSE]
            /\ UNCHANGED subscribed
       ELSE /\ phase' = Append(Stop, "starting") /\ recognition' = Len(phase) + 1
            /\ subscribed' = [subscribed EXCEPT ![b] = TRUE]
            /\ UNCHANGED isListening
    /\ UNCHANGED dead

\* ngOnDestroy of all the buttons, and new ones in their place
Rebuild ==
    /\ phase' = Stop /\ recognition' = Nothing
    /\ subscribed' = [b \in Box |-> FALSE] /\ isListening' = [b \in Box |-> FALSE]
    /\ UNCHANGED dead

-----------------------------------------------------------------------------
(* The recogniser's events                                                  *)

OnStart(r) ==
    /\ phase[r] = "starting" /\ Become(r, "on") /\ Listening(TRUE)
    /\ UNCHANGED <<recognition, subscribed, dead>>

\* the boxes the transcript is emitted to
Receivers == IF dead THEN {} ELSE {b \in Box : subscribed[b]}

OnResult(r) ==
    /\ phase[r] = "on" /\ Become(r, "spent")
    /\ isListening' = [b \in Box |-> isListening[b] /\ b \notin Receivers]
    /\ UNCHANGED <<recognition, subscribed, dead>>

\* no-speech and aborted leave the transcript alive, any other error ends it
OnError(r) ==
    /\ phase[r] \in {"starting", "on", "aborted"}
    /\ dead' \in {dead, dead \/ phase[r] # "aborted"}
    /\ Become(r, "spent") /\ Listening(FALSE)
    /\ UNCHANGED <<recognition, subscribed>>

OnEndSilentMutant(r) ==
    /\ phase[r] # "over" /\ Become(r, "over")
    /\ UNCHANGED <<isListening, recognition, subscribed, dead>>

OnEnd(r) ==
    /\ phase[r] # "over" /\ Become(r, "over") /\ Listening(FALSE)
    /\ UNCHANGED <<recognition, subscribed, dead>>

-----------------------------------------------------------------------------
(* A button that shows "listening" has a recogniser that has not ended: the *)
(* events of an aborted one, of whichever button, never leave the button on *)
(* without a microphone behind it.                                          *)
NoIdleButton == (\E b \in Box : isListening[b]) => \E r \in DOMAIN phase : phase[r] # "over"

(* Only the service's current recogniser can still hear anything; all the   *)
(* ones before it have been aborted or have ended.                          *)
OneRecogniser == \A r \in DOMAIN phase : phase[r] \in {"starting", "on"} => r = recognition

(* No button listens for ever, whoever clicked last.                        *)
ButtonRests == \A b \in Box : isListening[b] ~> ~isListening[b]
=============================================================================

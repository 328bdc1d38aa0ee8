---------------------------- MODULE MCVoiceSearch ----------------------------
EXTENDS VoiceSearch

CONSTANTS departure, arrival

MCTemplate == <<departure, arrival>>
=============================================================================

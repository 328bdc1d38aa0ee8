----------------------------- MODULE MCMapView -----------------------------
EXTENDS MapView
=============================================================================

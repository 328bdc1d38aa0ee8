--------------------------- MODULE MCStationSearch ---------------------------
EXTENDS StationSearch
=============================================================================

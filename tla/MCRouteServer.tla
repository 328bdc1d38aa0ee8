---------------------------- MODULE MCRouteServer ----------------------------
EXTENDS RouteStatistics

\* station 3 is not in the graph, and nothing leads from 2 to 1
MCFound(from, to) == ~(from = 2 /\ to = 1)
=============================================================================

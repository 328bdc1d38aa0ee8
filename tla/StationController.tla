-------------------------- MODULE StationController --------------------------
(***************************************************************************)
(* The station endpoints (backend/src/api/controllers/StationController)    *)
(* and the search behind the client's autocomplete, Graph::search_stations. *)
(*                                                                          *)
(* The graph is loaded before the server listens and const afterwards, so a *)
(* behaviour is one request.  What is not determined is the order in which  *)
(* search_stations meets the stations: that of an unordered_map.  A name is *)
(* a sequence of Unicode code points.                                       *)
(***************************************************************************)
EXTENDS TransitGraph, FiniteSets, SequencesExt

CONSTANTS
    Graphs, Requests,
    DefaultLimit, MaxLimit, \* 10 and 100
    LengthStep              \* 10: bytes of a name that cost a point

ASSUME NameAssumption == Name \subseteq Seq(Nat)
ASSUME LengthStepAssumption == LengthStep \in Nat \ {0}
ASSUME LimitsAssumption == DefaultLimit \in Nat /\ MaxLimit \in Nat
ASSUME GraphsAssumption == \A g \in Graphs : IsGraph(g) /\ IsFiniteSet(DOMAIN g.station)
ASSUME RequestsAssumption == \A r \in Requests : r.path = "search" => r.q \in Seq(Nat)

VARIABLES graph, request, pc,
    unseen, \* stations the loop has still to meet
    seen,   \* normalized name -> [station, lines, score], the ScoredMatch
    reply

vars == <<graph, request, pc, unseen, seen, reply>>

-----------------------------------------------------------------------------
(* StringUtils: remove_diacritics, then to_lower byte by byte, which leaves *)
(* everything beyond ASCII alone.                                           *)

Unaccented ==
    {<<224..228, <<97>>>>, <<{231}, <<99>>>>, <<232..235, <<101>>>>, <<236..239, <<105>>>>,
     <<{241}, <<110>>>>, <<{240} \cup 242..244, <<111>>>>, <<249..252, <<117>>>>,
     <<{255}, <<121>>>>,
     <<192..196, <<65>>>>, <<{199}, <<67>>>>, <<200..203, <<69>>>>, <<204..207, <<73>>>>,
     <<210..212, <<79>>>>, <<217..220, <<85>>>>,
     <<{338}, <<79, 69>>>>, <<{339}, <<111, 101>>>>}

\* anything else passes through, the ligature ae among them
Plain(c) ==
    IF \E row \in Unaccented : c \in row[1]
    THEN (CHOOSE row \in Unaccented : c \in row[1])[2] ELSE <<c>>

Lower(c) == IF c \in 65..90 THEN c + 32 ELSE c

Normalized(s) ==
    LET plain == FlattenSeq([i \in DOMAIN s |-> Plain(s[i])])
    IN  [i \in DOMAIN plain |-> Lower(plain[i])]

\* std::string::size of the UTF-8 encoding
Size(s) ==
    LET Wider(n) == Cardinality({i \in DOMAIN s : s[i] >= n})
    IN  Len(s) + Wider(128) + Wider(2048) + Wider(65536)

-----------------------------------------------------------------------------
(* The score of a station, lower is better                                  *)

NameOf(id) == Normalized(graph.station[id].name)

Query == Normalized(request.q)

FoundAt(id) == {i \in 1..Len(NameOf(id)) : IsPrefix(Query, SubSeq(NameOf(id), i, Len(NameOf(id))))}

Matches(id) == FoundAt(id) # {}

\* position in bytes of the first occurrence
Offset(id) == Size(SubSeq(NameOf(id), 1, Min(FoundAt(id)) - 1))

Score(id) ==
    (IF NameOf(id) = Query THEN 0 ELSE IF Offset(id) = 0 THEN 1 ELSE Offset(id) + 2)
    + Size(graph.station[id].name) \div LengthStep

-----------------------------------------------------------------------------
Init ==
    /\ graph \in Graphs /\ request \in Requests
    /\ pc = "asked" /\ unseen = {} /\ seen = <<>> /\ reply = <<>>

Answer(status, body) == pc' = "done" /\ reply' = [status |-> status, body |-> body]

GetAll ==
    /\ pc = "asked" /\ request.path = "stations"
    /\ Answer(200, DOMAIN graph.station)
    /\ UNCHANGED <<graph, request, unseen, seen>>

GetById ==
    /\ pc = "asked" /\ request.path = "station"
    /\ IF HasStation(graph, request.id) THEN Answer(200, request.id) ELSE Answer(404, request.id)
    /\ UNCHANGED <<graph, request, unseen, seen>>

Placed(id) == HasStation(graph, id) /\ HasCoordinates(graph.station[id])

Drawn(from, e) == Placed(from) /\ Placed(e.target) /\ e.type = "RIDE"

\* the edges to draw, by source and position in its list
GetConnections ==
    /\ pc = "asked" /\ request.path = "connections"
    /\ Answer(200, UNION {{<<from, i>> : i \in {j \in DOMAIN graph.adjacency[from] :
                                                   Drawn(from, graph.adjacency[from][j])}}
                             : from \in DOMAIN graph.adjacency})
    /\ UNCHANGED <<graph, request, unseen, seen>>

RefuseEmpty ==
    /\ pc = "asked" /\ request.path = "search" /\ request.q = <<>>
    /\ Answer(400, <<>>)
    /\ UNCHANGED <<graph, request, unseen, seen>>

Search ==
    /\ pc = "asked" /\ request.path = "search" /\ request.q # <<>>
    /\ pc' = "scan" /\ unseen' = DOMAIN graph.station
    /\ UNCHANGED <<graph, request, seen, reply>>

\* a strictly better score, and only that, replaces the representative
JoinedStaleScoreMutant(m, id) ==
    [m EXCEPT !.lines = @ \cup {graph.station[id].line}, !.station = IF Score(id) < m.score THEN id ELSE @]

Joined(m, id) ==
    LET better == Score(id) < m.score
    IN  [station |-> IF better THEN id ELSE m.station,
         lines   |-> m.lines \cup {graph.station[id].line},
         score   |-> IF better THEN Score(id) ELSE m.score]

Match(id) == [station |-> id, lines |-> {graph.station[id].line}, score |-> Score(id)]

Visit(id) ==
    /\ pc = "scan" /\ id \in unseen /\ unseen' = unseen \ {id}
    /\ seen' = IF ~Matches(id) THEN seen
               ELSE Put(seen, NameOf(id), IF NameOf(id) \in DOMAIN seen
                                          THEN Joined(seen[NameOf(id)], id) ELSE Match(id))
    /\ UNCHANGED <<graph, request, pc, reply>>

-----------------------------------------------------------------------------
(* std::sort by score, then by the representative's own name                *)

Before(s, t) ==
    \E i \in DOMAIN t : /\ \A j \in 1..i - 1 : j \in DOMAIN s /\ s[j] = t[j]
                        /\ i \in DOMAIN s => s[i] < t[i]

BetterByNameMutant(m, n) == Before(graph.station[m.station].name, graph.station[n.station].name)

Better(m, n) ==
    \/ m.score < n.score
    \/ m.score = n.score /\ Before(graph.station[m.station].name, graph.station[n.station].name)

\* std::sort: each match once, and none before a better one
Sorted(matches) ==
    {s \in Bijection(1..Cardinality(matches), matches) :
        \A i, j \in DOMAIN s : i < j => ~Better(s[j], s[i])}

\* strtoull: anything but a number is 0
Limit == IF request.limit \in 1..MaxLimit THEN request.limit ELSE DefaultLimit

Reply ==
    /\ pc = "scan" /\ unseen = {}
    /\ \E sorted \in Sorted({seen[n] : n \in DOMAIN seen}) :
          Answer(200, SubSeq(sorted, 1, Min({Limit, Len(sorted)})))
    /\ UNCHANGED <<graph, request, unseen, seen>>

Next == \/ GetAll \/ GetById \/ GetConnections
        \/ RefuseEmpty \/ Search \/ (\E id \in unseen : Visit(id)) \/ Reply

Spec == Init /\ [][Next]_vars

-----------------------------------------------------------------------------
Searched == pc # "asked" /\ request.path = "search" /\ request.q # <<>>

Met == {id \in DOMAIN graph.station \ unseen : Matches(id)}

Namesakes(n) == {id \in Met : NameOf(id) = n}

(* Whatever the order of the hash map, each name found so far has the lines *)
(* of all its stations met so far, and one of the best of them stands for   *)
(* it, with that station's own score.                                       *)
GroupsRight ==
    Searched =>
    /\ DOMAIN seen = {NameOf(id) : id \in Met}
    /\ \A n \in DOMAIN seen :
          /\ seen[n].lines = {graph.station[id].line : id \in Namesakes(n)}
          /\ seen[n].station \in Namesakes(n) /\ seen[n].score = Score(seen[n].station)
          /\ \A id \in Namesakes(n) : seen[n].score <= Score(id)

(* The answer holds each name once, with all its lines, best score first;   *)
(* nothing that was left out or comes later scores better, and the limit is *)
(* the only reason to leave anything out.                                   *)
RankedRight ==
    pc = "done" /\ Searched =>
    LET top == reply.body
        Listed(n) == {NameOf(top[i].station) : i \in 1..n}
    IN  /\ Len(top) = Min({Limit, Cardinality({NameOf(id) : id \in Met})})
        /\ Cardinality(Listed(Len(top))) = Len(top)
        /\ \A i \in DOMAIN top :
              /\ top[i].lines = {graph.station[id].line : id \in Namesakes(NameOf(top[i].station))}
              /\ \A id \in Met : NameOf(id) \in Listed(i - 1) \/ Score(top[i].station) <= Score(id)
=============================================================================

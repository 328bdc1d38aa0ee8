---------------------- MODULE StationControllerProofs ----------------------
(***************************************************************************)
(* Proofs about StationController, for any graphs, requests and limits: in  *)
(* whatever order a search meets the stations, its groups and its ranking   *)
(* are right.  That scores can be compared at all rests on names being      *)
(* sequences after normalisation too.                                       *)
(***************************************************************************)
EXTENDS StationController, FiniteSetTheorems, TLAPS

\* Induction over the natural numbers, for a set of them.
LEMMA SetInduction ==
    ASSUME NEW S \in SUBSET Nat, 0 \in S, \A n \in S : n + 1 \in S
    PROVE  S = Nat
  <1> DEFINE T == Nat \ S
  <1>1. SUFFICES ASSUME T # {} PROVE FALSE
    OBVIOUS
  <1>2. T \subseteq Nat
    OBVIOUS
  <1>3. PICK x \in T : \A y \in T : ~(<<y, x>> \in OpToRel(<, Nat))
    <2> HIDE DEF T
    <2> QED BY <1>1, <1>2, NatLessThanWellFounded, WFMin
  <1>4. \A y \in T : ~(y < x)
    BY <1>3 DEF OpToRel
  <1>5. x # 0 /\ x - 1 \in Nat /\ (x - 1) + 1 = x
    OBVIOUS
  <1>6. x - 1 \in S
    BY <1>4, <1>5
  <1> QED BY <1>5, <1>6

LEMMA MinIsMember ==
    ASSUME NEW S \in SUBSET Nat, S # {}
    PROVE  Min(S) \in S
  <1>1. PICK x \in S : \A y \in S : ~(<<y, x>> \in OpToRel(<, Nat))
    BY NatLessThanWellFounded, WFMin
  <1>2. \A y \in S : ~(y < x)
    BY <1>1 DEF OpToRel
  <1>3. \A y \in S : x <= y
    BY <1>2
  <1> QED BY <1>3 DEF Min

-----------------------------------------------------------------------------
(* Normalised names                                                         *)

\* f[i] is the first i members of s, one after the other.
IsFlat(f, s, n) == f = [i \in 1..n |-> IF i = 1 THEN s[i] ELSE f[i - 1] \o s[i]]

LEMMA FlatExists ==
    ASSUME NEW s, NEW n \in Nat
    PROVE  \E f : IsFlat(f, s, n)
  <1> DEFINE S == {m \in Nat : \E f : IsFlat(f, s, m)}
  <1>1. 0 \in S
    <2>1. IsFlat([i \in 1..0 |-> 0], s, 0)
      BY DEF IsFlat
    <2> QED BY <2>1
  <1>2. ASSUME NEW m \in S PROVE m + 1 \in S
    <2>1. PICK f : IsFlat(f, s, m)
      OBVIOUS
    <2> DEFINE g == [i \in 1..m + 1 |-> IF i = 1 THEN s[i] ELSE f[i - 1] \o s[i]]
    <2>2. \A i \in 1..m : g[i] = f[i]
      <3>1. \A i \in 1..m : f[i] = IF i = 1 THEN s[i] ELSE f[i - 1] \o s[i]
        BY <2>1 DEF IsFlat
      <3>2. \A i \in 1..m : i \in 1..m + 1
        OBVIOUS
      <3> QED BY <3>1, <3>2
    <2>3. \A i \in 1..m + 1 : i # 1 => i - 1 \in 1..m
      OBVIOUS
    <2>4. g = [i \in 1..m + 1 |-> IF i = 1 THEN s[i] ELSE g[i - 1] \o s[i]]
      BY <2>2, <2>3
    <2> HIDE DEF g
    <2>5. IsFlat(g, s, m + 1)
      BY <2>4 DEF IsFlat
    <2> QED BY <2>5
  <1>3. S = Nat
    <2> HIDE DEF S
    <2> QED BY <1>1, <1>2, SetInduction DEF S
  <1> QED BY <1>3

LEMMA FlattenType ==
    ASSUME NEW T, NEW seqs \in Seq(Seq(T))
    PROVE  FlattenSeq(seqs) \in Seq(T)
  <1> DEFINE n == Len(seqs)
             flat == CHOOSE f : IsFlat(f, seqs, n)
  <1>1. n \in Nat /\ \A i \in 1..n : seqs[i] \in Seq(T)
    OBVIOUS
  <1>2. IsFlat(flat, seqs, n)
    <2> HIDE DEF n
    <2> QED BY <1>1, FlatExists
  <1>3. CASE n = 0
    BY <1>3 DEF FlattenSeq
  <1>4. CASE n # 0
    <2> DEFINE S == {i \in Nat : i + 1 \in 1..n => flat[i + 1] \in Seq(T)}
    <2> HIDE DEF flat, n
    <2>1. \A i \in 1..n : flat[i] = IF i = 1 THEN seqs[i] ELSE flat[i - 1] \o seqs[i]
      BY <1>2 DEF IsFlat
    <2>2. 0 \in S
      BY <1>1, <2>1
    <2>3. ASSUME NEW i \in S PROVE i + 1 \in S
      <3> SUFFICES ASSUME i + 1 + 1 \in 1..n PROVE flat[i + 1 + 1] \in Seq(T)
        OBVIOUS
      <3>1. PICK j \in 1..n : j = i + 1 + 1
        OBVIOUS
      <3>2. /\ j # 1 /\ j - 1 = i + 1 /\ i + 1 \in 1..n
            /\ flat[i + 1] \in Seq(T) /\ seqs[j] \in Seq(T)
        BY <1>1, <3>1
      <3>3. flat[j] = flat[j - 1] \o seqs[j]
        BY <2>1, <3>2
      <3> QED BY <3>1, <3>2, <3>3
    <2>4. S = Nat
      <3> HIDE DEF S
      <3> QED BY <2>2, <2>3, SetInduction DEF S
    <2>5. flat[n] \in Seq(T)
      <3>1. n - 1 \in S /\ n - 1 + 1 = n /\ n \in 1..n
        <4>1. n \in Nat /\ n # 0
          BY <1>1, <1>4 DEF n
        <4> HIDE DEF S
        <4> QED BY <2>4, <4>1
      <3> QED BY <3>1
    <2>6. FlattenSeq(seqs) = flat[n]
      BY <1>4, Zenon DEF FlattenSeq, flat, n, IsFlat
    <2> QED BY <2>5, <2>6
  <1> QED BY <1>3, <1>4

LEMMA NormalizedType ==
    ASSUME NEW s \in Seq(Nat)
    PROVE  Normalized(s) \in Seq(Nat)
  <1> DEFINE each == [i \in DOMAIN s |-> Plain(s[i])]
             plain == FlattenSeq(each)
  <1>1. ASSUME NEW c \in Nat PROVE Plain(c) \in Seq(Nat)
    <2>1. \A row \in Unaccented :
             (\E a \in Nat : row[2] = <<a>>) \/ (\E a, b \in Nat : row[2] = <<a, b>>)
      BY DEF Unaccented
    <2>2. \A a, b \in Nat : <<a>> \in Seq(Nat) /\ <<a, b>> \in Seq(Nat)
      OBVIOUS
    <2>3. \A row \in Unaccented : row[2] \in Seq(Nat)
      BY <2>1, <2>2
    <2> QED BY <2>2, <2>3 DEF Plain
  <1>2. each \in Seq(Seq(Nat))
    <2>1. Len(s) \in Nat /\ DOMAIN s = 1..Len(s) /\ \A i \in DOMAIN s : s[i] \in Nat
      OBVIOUS
    <2>2. each \in [1..Len(s) -> Seq(Nat)]
      BY <1>1, <2>1
    <2> HIDE DEF each
    <2> QED BY <2>1, <2>2
  <1>3. plain \in Seq(Nat)
    <2> HIDE DEF each
    <2> QED BY <1>2, FlattenType
  <1> HIDE DEF each, plain
  <1>4. [i \in DOMAIN plain |-> Lower(plain[i])] \in Seq(Nat)
    BY <1>3 DEF Lower
  <1> QED BY <1>4 DEF Normalized, plain, each

LEMMA SizeType ==
    ASSUME NEW s \in Seq(Nat)
    PROVE  Size(s) \in Nat
  <1>1. IsFiniteSet(DOMAIN s)
    <2>1. DOMAIN s = 1..Len(s) /\ 1 \in Int /\ Len(s) \in Int
      OBVIOUS
    <2> QED BY <2>1, FS_Interval
  <1> DEFINE Wider(n) == Cardinality({i \in DOMAIN s : s[i] >= n})
  <1>2. ASSUME NEW n PROVE Wider(n) \in Nat
    BY <1>1, FS_Subset, FS_CardinalityType
  <1>3. Size(s) = Len(s) + Wider(128) + Wider(2048) + Wider(65536)
    BY DEF Size
  <1> HIDE DEF Wider
  <1> QED BY <1>2, <1>3

\* The score of a station is a number.
LEMMA ScoreType ==
    ASSUME IsGraph(graph), request.q \in Seq(Nat), NEW id \in DOMAIN graph.station, Matches(id)
    PROVE  Score(id) \in Int
  <1>1. graph.station[id].name \in Seq(Nat)
    BY NameAssumption DEF IsGraph, Station
  <1>2. NameOf(id) \in Seq(Nat)
    BY <1>1, NormalizedType DEF NameOf
  <1>3. Min(FoundAt(id)) \in 1..Len(NameOf(id))
    <2>1. FoundAt(id) \in SUBSET Nat /\ FoundAt(id) # {} /\ FoundAt(id) \subseteq 1..Len(NameOf(id))
      BY <1>2 DEF FoundAt, Matches
    <2> QED BY <2>1, MinIsMember
  <1>4. SubSeq(NameOf(id), 1, Min(FoundAt(id)) - 1) \in Seq(Nat)
    BY <1>2, <1>3
  <1>5. Offset(id) \in Nat
    BY <1>4, SizeType DEF Offset
  <1>6. Size(graph.station[id].name) \div LengthStep \in Int
    BY <1>1, SizeType, LengthStepAssumption
  <1> QED BY <1>5, <1>6 DEF Score
-----------------------------------------------------------------------------
(* The groups                                                               *)

Names == {NameOf(id) : id \in Met}

\* m stands for the stations of S: with the lines of all, as the best.
StandsFor(m, S) ==
    /\ m.lines = {graph.station[id].line : id \in S}
    /\ m.station \in S /\ m.score = Score(m.station)
    /\ \A id \in S : m.score <= Score(id)

Grouped == DOMAIN seen = Names /\ \A n \in DOMAIN seen : StandsFor(seen[n], Namesakes(n))

SearchInv ==
    /\ graph \in Graphs /\ request \in Requests
    /\ unseen \subseteq DOMAIN graph.station
    /\ pc \in {"asked", "scan", "done"}
    /\ pc = "asked" => seen = <<>>
    /\ pc = "scan" => Searched
    /\ pc = "done" /\ Searched => unseen = {}
    /\ GroupsRight /\ RankedRight

LEMMA GroupsAreGrouped == GroupsRight <=> (Searched => Grouped)
  BY DEF GroupsRight, Grouped, StandsFor, Names

\* What a search reads does not change.
LEMMA SameReading ==
    ASSUME UNCHANGED <<graph, request>>
    PROVE  /\ \A id : NameOf(id)' = NameOf(id) /\ Score(id)' = Score(id)
           /\ \A id : Matches(id)' <=> Matches(id)
  BY DEF NameOf, Score, Matches, Offset, FoundAt, Query

LEMMA InitSearch == Init => SearchInv
  <1> SUFFICES ASSUME Init PROVE SearchInv
    OBVIOUS
  <1>1. ~Searched /\ pc = "asked" /\ unseen = {} /\ seen = <<>>
    BY DEF Init, Searched
  <1> QED BY <1>1 DEF Init, SearchInv, GroupsRight, RankedRight

\* Nothing is met and nothing grouped when the loop starts.
LEMMA StepSearch ==
    ASSUME SearchInv, Search
    PROVE  SearchInv'
  <1>1. /\ pc' = "scan" /\ unseen' = DOMAIN graph.station /\ seen' = <<>>
        /\ graph' = graph /\ request' = request
    BY DEF SearchInv, Search
  <1>2. Searched'
    BY <1>1 DEF Search, Searched
  <1>3. Met' = {}
    BY <1>1 DEF Met
  <1>4. Grouped'
    BY <1>1, <1>3 DEF Grouped, Names
  <1>5. GroupsRight'
    BY <1>4, GroupsAreGrouped, PTL
  <1>6. RankedRight'
    BY <1>1 DEF RankedRight
  <1> QED BY <1>1, <1>2, <1>5, <1>6 DEF SearchInv

LEMMA StepVisit ==
    ASSUME SearchInv, NEW id \in unseen, Visit(id)
    PROVE  SearchInv'
  <1> DEFINE n == NameOf(id)
  <1>1. /\ pc = "scan" /\ pc' = "scan" /\ unseen' = unseen \ {id} /\ graph' = graph /\ request' = request
        /\ seen' = IF ~Matches(id) THEN seen
                   ELSE Put(seen, n, IF n \in DOMAIN seen THEN Joined(seen[n], id) ELSE Match(id))
    BY DEF Visit
  <1>2. Searched /\ Grouped /\ Searched'
    BY <1>1, GroupsAreGrouped DEF SearchInv, Searched
  <1>3. id \in DOMAIN graph.station /\ id \notin Met
    BY DEF SearchInv, Met
  <1>4. Met' = IF Matches(id) THEN Met \cup {id} ELSE Met
    BY <1>1, <1>3, SameReading DEF Met
  <1>5. \A k : NameOf(k)' = NameOf(k) /\ Score(k)' = Score(k)
    BY <1>1, SameReading
  <1>6. Grouped'
    <2>1. CASE ~Matches(id)
      <3>1. Met' = Met /\ seen' = seen
        BY <1>1, <1>4, <2>1
      <3>2. \A m : Namesakes(m)' = Namesakes(m)
        BY <1>5, <3>1 DEF Namesakes
      <3>3. Names' = Names
        BY <1>5, <3>1 DEF Names
      <3>4. ASSUME NEW m \in DOMAIN seen' PROVE StandsFor(seen[m], Namesakes(m))'
        <4>1. StandsFor(seen[m], Namesakes(m))
          BY <1>2, <3>1, <3>4 DEF Grouped
        <4> QED BY <1>1, <1>5, <3>1, <3>2, <4>1 DEF StandsFor
      <3> QED BY <1>2, <3>1, <3>3, <3>4 DEF Grouped
    <2>2. CASE Matches(id)
      <3> DEFINE new == IF n \in DOMAIN seen THEN Joined(seen[n], id) ELSE Match(id)
      <3>1. Met' = Met \cup {id} /\ seen' = Put(seen, n, new)
        BY <1>1, <1>4, <2>2
      <3>2. ASSUME NEW m, m = n PROVE Namesakes(m)' = Namesakes(m) \cup {id}
        BY <1>5, <3>1, <3>2 DEF Namesakes
      <3>3. ASSUME NEW m, m # n PROVE Namesakes(m)' = Namesakes(m)
        BY <1>5, <3>1, <3>3 DEF Namesakes
      <3>4. Names' = Names \cup {n}
        BY <1>5, <3>1 DEF Names
      <3>5. \A k \in Met \cup {id} : Score(k) \in Int
        <4>1. IsGraph(graph) /\ request.q \in Seq(Nat)
          BY <1>2, GraphsAssumption, RequestsAssumption DEF SearchInv, Searched
        <4> QED BY <1>3, <2>2, <4>1, ScoreType DEF Met
      <3>6. StandsFor(new, Namesakes(n) \cup {id})
        <4>1. CASE n \in DOMAIN seen
          <5>1. StandsFor(seen[n], Namesakes(n))
            BY <1>2, <4>1 DEF Grouped
          <5>2. new = Joined(seen[n], id)
            BY <4>1
          <5>3. /\ new.lines = seen[n].lines \cup {graph.station[id].line}
                /\ new.station = IF Score(id) < seen[n].score THEN id ELSE seen[n].station
                /\ new.score = IF Score(id) < seen[n].score THEN Score(id) ELSE seen[n].score
            BY <5>2 DEF Joined
          <5> HIDE DEF new, n
          <5>4. \A k \in Namesakes(n) \cup {id} : Score(k) \in Int
            BY <3>5 DEF Namesakes
          <5>5. new.lines = {graph.station[k].line : k \in Namesakes(n) \cup {id}}
            BY <5>1, <5>3 DEF StandsFor
          <5>6. new.station \in Namesakes(n) \cup {id} /\ new.score = Score(new.station)
            BY <5>1, <5>3 DEF StandsFor
          <5>7. \A k \in Namesakes(n) \cup {id} : new.score <= Score(k)
            <6>1. /\ seen[n].score \in Int /\ Score(id) \in Int
                  /\ \A k \in Namesakes(n) : seen[n].score <= Score(k) /\ Score(k) \in Int
              BY <5>1, <5>4 DEF StandsFor
            <6> QED BY <5>3, <6>1
          <5> QED BY <5>5, <5>6, <5>7 DEF StandsFor
        <4>2. CASE n \notin DOMAIN seen
          <5>1. Namesakes(n) = {}
            BY <1>2, <4>2 DEF Namesakes, Grouped, Names
          <5>2. new = Match(id)
            BY <4>2
          <5>3. new.lines = {graph.station[id].line} /\ new.station = id /\ new.score = Score(id)
            BY <5>2 DEF Match
          <5>4. Score(id) \in Int
            BY <3>5
          <5> HIDE DEF new, n
          <5> QED BY <5>1, <5>3, <5>4 DEF StandsFor
        <4> QED BY <4>1, <4>2
      <3> HIDE DEF new, n
      <3>7. DOMAIN seen' = DOMAIN seen \cup {n}
            /\ \A m \in DOMAIN seen' : seen'[m] = IF m = n THEN new ELSE seen[m]
        BY <3>1 DEF Put
      <3>8. ASSUME NEW m \in DOMAIN seen' PROVE StandsFor(seen[m], Namesakes(m))'
        <4>1. CASE m = n
          <5>1. seen'[m] = new /\ Namesakes(m)' = Namesakes(n) \cup {id}
            BY <3>2, <3>7, <4>1
          <5> QED BY <1>1, <1>5, <3>6, <5>1 DEF StandsFor
        <4>2. CASE m # n
          <5>1. m \in DOMAIN seen /\ seen'[m] = seen[m]
            BY <3>7, <3>8, <4>2
          <5>2. StandsFor(seen[m], Namesakes(m))
            BY <1>2, <5>1 DEF Grouped
          <5> QED BY <1>1, <1>5, <3>3, <4>2, <5>1, <5>2 DEF StandsFor
        <4> QED BY <4>1, <4>2
      <3> QED BY <1>2, <3>4, <3>7, <3>8 DEF Grouped
    <2> QED BY <2>1, <2>2
  <1>7. GroupsRight'
    BY <1>6, GroupsAreGrouped, PTL
  <1>8. RankedRight'
    BY <1>1 DEF RankedRight
  <1> QED BY <1>1, <1>2, <1>7, <1>8 DEF SearchInv

\* The other endpoints, and a refusal, are no search.
LEMMA StepOther ==
    ASSUME SearchInv, GetAll \/ GetById \/ GetConnections \/ RefuseEmpty
    PROVE  SearchInv'
  <1>1. /\ pc' = "done" /\ UNCHANGED <<graph, request, unseen, seen>> /\ ~Searched'
    BY DEF GetAll, GetById, GetConnections, RefuseEmpty, Answer, Searched
  <1>2. GroupsRight' /\ RankedRight'
    BY <1>1 DEF GroupsRight, RankedRight
  <1> QED BY <1>1, <1>2 DEF SearchInv

-----------------------------------------------------------------------------
(* The ranking                                                              *)

LEMMA MinOfTwo ==
    ASSUME NEW a \in Nat, NEW b \in Nat
    PROVE  Min({a, b}) \in 0..b /\ Min({a, b}) \in {a, b} /\ Min({a, b}) <= a
  <1>1. PICK m \in {a, b} : m <= a /\ m <= b
    OBVIOUS
  <1>2. \A x \in {a, b} : (\A y \in {a, b} : x <= y) => x = m
    BY <1>1
  <1>3. Min({a, b}) = m
    BY <1>1, <1>2 DEF Min
  <1> QED BY <1>1, <1>3

LEMMA CountTo ==
    ASSUME NEW n \in Nat
    PROVE  IsFiniteSet(1..n) /\ Cardinality(1..n) = n
  <1>1. 1 \in Int /\ n \in Int
    OBVIOUS
  <1>2. Cardinality(1..n) = IF 1 > n THEN 0 ELSE n - 1 + 1
    BY <1>1, FS_Interval
  <1>3. IsFiniteSet(1..n)
    BY <1>1, FS_Interval
  <1> QED BY <1>2, <1>3

\* There are as many results as arguments when no two results are the same.
LEMMA CountImage ==
    ASSUME NEW S, IsFiniteSet(S), NEW T, NEW f \in [S -> T], T = {f[x] : x \in S},
           \A x, y \in S : f[x] = f[y] => x = y
    PROVE  IsFiniteSet(T) /\ Cardinality(T) = Cardinality(S)
  <1>1. f \in Surjection(S, T) /\ f \in Injection(S, T)
    BY DEF Surjection, Injection, IsInjective
  <1> QED BY <1>1, FS_Surjection

\* The groups a finished search has, and how many.
LEMMA GroupsAreMatches ==
    ASSUME SearchInv, Searched, NEW matches, matches = {seen[n] : n \in DOMAIN seen}
    PROVE  /\ Grouped /\ IsFiniteSet(Names)
           /\ IsFiniteSet(matches) /\ Cardinality(matches) = Cardinality(Names)
           /\ \A n \in DOMAIN seen : NameOf(seen[n].station) = n
  <1>1. Grouped
    BY GroupsAreGrouped DEF SearchInv
  <1>2. IsFiniteSet(Met)
    <2>1. IsFiniteSet(DOMAIN graph.station) /\ Met \in SUBSET DOMAIN graph.station
      BY GraphsAssumption DEF SearchInv, Met
    <2> QED BY <2>1, FS_Subset
  <1>3. IsFiniteSet(Names)
    <2> DEFINE f == [id \in Met |-> NameOf(id)]
    <2>1. f \in Surjection(Met, Names)
      BY DEF Surjection, Names
    <2> HIDE DEF f
    <2> QED BY <1>2, <2>1, FS_Surjection
  <1>4. \A n \in DOMAIN seen : NameOf(seen[n].station) = n
    BY <1>1 DEF Grouped, StandsFor, Namesakes
  <1>5. IsFiniteSet(matches) /\ Cardinality(matches) = Cardinality(Names)
    <2> DEFINE f == [n \in DOMAIN seen |-> seen[n]]
    <2>1. DOMAIN seen = Names
      BY <1>1 DEF Grouped
    <2>2. f \in [Names -> matches] /\ matches = {f[x] : x \in Names}
      BY <2>1
    <2>3. \A x, y \in Names : f[x] = f[y] => x = y
      BY <1>4, <2>1
    <2> HIDE DEF f
    <2> QED BY <1>3, <2>2, <2>3, CountImage
  <1> QED BY <1>1, <1>3, <1>4, <1>5

\* top is the ranking of what was met.
IsRanking(top) ==
    LET Listed(n) == {NameOf(top[i].station) : i \in 1..n}
    IN  /\ Len(top) = Min({Limit, Cardinality(Names)})
        /\ Cardinality(Listed(Len(top))) = Len(top)
        /\ \A i \in DOMAIN top :
              /\ top[i].lines = {graph.station[id].line : id \in Namesakes(NameOf(top[i].station))}
              /\ \A id \in Met : NameOf(id) \in Listed(i - 1) \/ Score(top[i].station) <= Score(id)

LEMMA CutIsRanking ==
    ASSUME SearchInv, Searched,
           NEW sorted \in Sorted({seen[n] : n \in DOMAIN seen})
    PROVE  IsRanking(SubSeq(sorted, 1, Min({Limit, Len(sorted)})))
  <1> DEFINE matches == {seen[n] : n \in DOMAIN seen}
             c == Cardinality(matches)
             k == Min({Limit, Len(sorted)})
             top == SubSeq(sorted, 1, k)
  <1>1. /\ Grouped /\ IsFiniteSet(matches) /\ c = Cardinality(Names) /\ c \in Nat
        /\ \A n \in DOMAIN seen : NameOf(seen[n].station) = n
    BY GroupsAreMatches, FS_CardinalityType
  <1>2. /\ sorted \in [1..c -> matches]
        /\ \A i, j \in 1..c : sorted[i] = sorted[j] => i = j
        /\ \A m \in matches : \E i \in 1..c : sorted[i] = m
        /\ \A i, j \in 1..c : i < j => ~Better(sorted[j], sorted[i])
    BY DEF Sorted, Bijection, Injection, Surjection, IsInjective
  <1>3. sorted \in Seq(matches) /\ Len(sorted) = c
    <2> HIDE DEF matches, c
    <2> QED BY <1>1, <1>2
  <1>4. Limit \in Nat
    BY LimitsAssumption DEF Limit
  <1>5. k \in 0..c /\ k = Min({Limit, Cardinality(Names)})
    BY <1>1, <1>3, <1>4, MinOfTwo
  <1> HIDE DEF matches, c, k
  <1>0. c \in Nat /\ k \in Nat /\ k <= c
    BY <1>1, <1>5
  <1>6. Len(top) = k /\ DOMAIN top = 1..k /\ \A i \in 1..k : top[i] = sorted[i]
    BY <1>0, <1>3
  <1> HIDE DEF top
  <1>7. ASSUME NEW i \in 1..c
        PROVE  /\ sorted[i] = seen[NameOf(sorted[i].station)]
               /\ NameOf(sorted[i].station) \in DOMAIN seen
    <2>1. PICK n \in DOMAIN seen : sorted[i] = seen[n]
      BY <1>2 DEF matches
    <2> QED BY <1>1, <2>1
  <1>8. Cardinality({NameOf(top[i].station) : i \in 1..k}) = k
    <2> DEFINE f == [i \in 1..k |-> NameOf(top[i].station)]
               T == {NameOf(top[i].station) : i \in 1..k}
    <2>1. k \in Nat /\ 1..k \subseteq 1..c
      BY <1>0
    <2>0. IsFiniteSet(1..k) /\ Cardinality(1..k) = k
      BY <1>0, CountTo
    <2>2. \A x, y \in 1..k : f[x] = f[y] => x = y
      BY <1>2, <1>6, <1>7, <2>1
    <2>3. f \in [1..k -> T] /\ T = {f[x] : x \in 1..k}
      OBVIOUS
    <2> HIDE DEF f, T
    <2> QED BY <2>0, <2>2, <2>3, CountImage DEF T
  <1>9. ASSUME NEW i \in 1..k
        PROVE  /\ top[i].lines = {graph.station[id].line : id \in Namesakes(NameOf(top[i].station))}
               /\ \A id \in Met : \/ NameOf(id) \in {NameOf(top[j].station) : j \in 1..i - 1}
                                  \/ Score(top[i].station) <= Score(id)
    <2>1. i \in 1..c /\ top[i] = sorted[i]
      BY <1>0, <1>6
    <2> DEFINE n == NameOf(top[i].station)
    <2>2. n \in DOMAIN seen /\ top[i] = seen[n]
      BY <1>7, <2>1
    <2>3. StandsFor(seen[n], Namesakes(n))
      BY <1>1, <2>2 DEF Grouped
    <2>4. ASSUME NEW id \in Met, NameOf(id) \notin {NameOf(top[j].station) : j \in 1..i - 1}
          PROVE  Score(top[i].station) <= Score(id)
      <3> DEFINE m == NameOf(id)
      <3>1. m \in DOMAIN seen /\ id \in Namesakes(m)
        BY <1>1 DEF Grouped, Names, Namesakes
      <3>2. StandsFor(seen[m], Namesakes(m))
        BY <1>1, <3>1 DEF Grouped
      <3>3. PICK h \in 1..c : sorted[h] = seen[m]
        BY <1>2, <3>1 DEF matches
      <3>4. ~(h < i)
        <4>1. SUFFICES ASSUME h < i PROVE FALSE
          OBVIOUS
        <4>2. h \in 1..i - 1 /\ h \in 1..k
          BY <1>0, <4>1
        <4>3. NameOf(top[h].station) = m
          BY <1>1, <1>6, <3>1, <3>3, <4>2
        <4> QED BY <2>4, <4>2, <4>3
      <3>5. \A x \in Met : Score(x) \in Int
        <4>1. IsGraph(graph) /\ request.q \in Seq(Nat)
          BY GraphsAssumption, RequestsAssumption DEF SearchInv, Searched
        <4> QED BY <4>1, ScoreType DEF Met
      <3>6. /\ seen[n].score \in Int /\ seen[n].score = Score(top[i].station)
            /\ seen[m].score \in Int /\ seen[m].score <= Score(id) /\ Score(id) \in Int
        BY <2>2, <2>3, <3>1, <3>2, <3>5 DEF StandsFor, Namesakes
      <3>7. ~(seen[m].score < seen[n].score)
        <4>1. CASE h = i
          BY <2>1, <2>2, <3>3, <3>6, <4>1
        <4>2. CASE i < h
          BY <1>2, <2>1, <2>2, <3>3, <4>2 DEF Better
        <4> QED BY <2>1, <3>4, <4>1, <4>2
      <3> QED BY <3>6, <3>7
    <2> QED BY <2>2, <2>3, <2>4 DEF StandsFor
  <1>10. IsRanking(top)
    <2>1. Len(top) = Min({Limit, Cardinality(Names)}) /\ Len(top) = k /\ DOMAIN top = 1..k
      BY <1>5, <1>6
    <2> QED BY <1>8, <1>9, <2>1 DEF IsRanking
  <1> QED BY <1>10 DEF top, k

LEMMA RankingIsRanked == RankedRight <=> (pc = "done" /\ Searched => IsRanking(reply.body))
  BY DEF RankedRight, IsRanking, Names

LEMMA SameGroups ==
    ASSUME UNCHANGED <<graph, request, unseen, seen>>
    PROVE  /\ Grouped => Grouped'
           /\ IsRanking(reply'.body) => IsRanking(reply.body)'
  <1>1. /\ \A id : NameOf(id)' = NameOf(id) /\ Score(id)' = Score(id)
        /\ Met' = Met /\ \A n : Namesakes(n)' = Namesakes(n)
    BY SameReading DEF Met, Namesakes
  <1>2. Names' = Names
    BY <1>1 DEF Names
  <1>3. Grouped => Grouped'
    BY <1>1, <1>2 DEF Grouped, StandsFor
  <1>4. ASSUME IsRanking(reply'.body) PROVE IsRanking(reply.body)'
    BY <1>1, <1>2, <1>4 DEF IsRanking, Limit
  <1> QED BY <1>3, <1>4

LEMMA StepReply ==
    ASSUME SearchInv, Reply
    PROVE  SearchInv'
  <1>1. /\ pc = "scan" /\ pc' = "done" /\ unseen = {} /\ UNCHANGED <<graph, request, unseen, seen>>
        /\ Searched /\ Searched'
    BY DEF Reply, Answer, SearchInv, Searched
  <1>2. PICK sorted \in Sorted({seen[n] : n \in DOMAIN seen}) :
           Answer(200, SubSeq(sorted, 1, Min({Limit, Len(sorted)})))
    BY DEF Reply
  <1>3. IsRanking(reply'.body)
    BY <1>1, <1>2, CutIsRanking DEF Answer
  <1>4. Grouped' /\ (IsRanking(reply'.body) => IsRanking(reply.body)')
    BY <1>1, SameGroups, GroupsAreGrouped DEF SearchInv
  <1>5. GroupsRight'
    BY <1>4, GroupsAreGrouped, PTL
  <1>6. RankedRight'
    BY <1>3, <1>4, RankingIsRanked, PTL
  <1> QED BY <1>1, <1>5, <1>6 DEF SearchInv

LEMMA StepNothing ==
    ASSUME SearchInv, UNCHANGED vars
    PROVE  SearchInv'
  <1>1. UNCHANGED <<graph, request, pc, unseen, seen, reply>> /\ (Searched' <=> Searched)
    BY DEF vars, Searched
  <1>2. (Grouped => Grouped') /\ (IsRanking(reply'.body) => IsRanking(reply.body)')
    BY <1>1, SameGroups
  <1>3. GroupsRight'
    <2>1. Searched' => Grouped'
      BY <1>1, <1>2, GroupsAreGrouped DEF SearchInv
    <2> QED BY <2>1, GroupsAreGrouped, PTL
  <1>4. RankedRight'
    <2>1. pc' = "done" /\ Searched' => IsRanking(reply'.body)
      BY <1>1, RankingIsRanked DEF SearchInv
    <2>2. (pc = "done" /\ Searched => IsRanking(reply.body))'
      BY <1>2, <2>1
    <2> QED BY <2>2, RankingIsRanked, PTL
  <1> QED BY <1>1, <1>3, <1>4 DEF SearchInv

LEMMA StepInv == SearchInv /\ [Next]_vars => SearchInv'
  <1> SUFFICES ASSUME SearchInv, [Next]_vars PROVE SearchInv'
    OBVIOUS
  <1>1. CASE GetAll \/ GetById \/ GetConnections \/ RefuseEmpty
    BY <1>1, StepOther
  <1>2. CASE Search
    BY <1>2, StepSearch
  <1>3. CASE \E id \in unseen : Visit(id)
    BY <1>3, StepVisit
  <1>4. CASE Reply
    BY <1>4, StepReply
  <1>5. CASE UNCHANGED vars
    BY <1>5, StepNothing
  <1> QED BY <1>1, <1>2, <1>3, <1>4, <1>5 DEF Next

-----------------------------------------------------------------------------
LEMMA AlwaysSearchInv == Spec => []SearchInv
  BY InitSearch, StepInv, PTL DEF Spec

(* In whatever order the stations are met, every name found so far has the  *)
(* lines of all its stations met, and one of the best stands for it with    *)
(* its own score (Graph.cpp, search_stations, the loop over the hash map).  *)
THEOREM GroupsAreRight == Spec => []GroupsRight
  <1>1. SearchInv => GroupsRight
    BY DEF SearchInv
  <1> QED BY <1>1, AlwaysSearchInv, PTL

(* The answer to a search has each name once, with all its lines, and       *)
(* nothing left out or put later scores better than what comes before it    *)
(* (Graph.cpp, search_stations, sort and cut to the limit).                 *)
THEOREM RankingIsRight == Spec => []RankedRight
  <1>1. SearchInv => RankedRight
    BY DEF SearchInv
  <1> QED BY <1>1, AlwaysSearchInv, PTL
=============================================================================

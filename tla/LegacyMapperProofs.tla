------------------------- MODULE LegacyMapperProofs -------------------------
(***************************************************************************)
(* Proofs about LegacyMapper, for any ids, any readable or missing tables   *)
(* and any number of searches: the way it prints is a shortest one, and     *)
(* what it prints tells the whole of it.                                    *)
(***************************************************************************)
EXTENDS LegacyMapper, FiniteSetTheorems, TLAPS

-----------------------------------------------------------------------------
(* The inductive invariant, by parts.                                       *)

\* A map from some of D to T.
IsMap(f, D, T) == DOMAIN f \subseteq D /\ f \in [DOMAIN f -> T]

\* What is visited: an id, and when it is reached.
Stop == Id \X Nat

\* A connection leads from one stop to the other, in the time between them.
Hop(p, q) == q[1] \in DOMAIN Children(p[1]) /\ q[2] = p[2] + Children(p[1])[q[1]]

TypeOK ==
    /\ file \in Files
    /\ \A u \in Id : IsMap(Children(u), Id, Nat)
    /\ chosen \in Seq(Id)
    /\ IsMap(open, Id, Nat) /\ closed \in Seq(Stop) /\ IsMap(parent, Id, Id)
    /\ path \in Seq(Stop)

\* before the two stations are chosen
Unchosen ==
    /\ pc \in {"connections", "stations"} => chosen = <<>>
    /\ pc \in {"connections", "stations", "choose", "retry"} => path = <<>>
    /\ pc \in {"choose", "retry"} =>
          Len(chosen) \in 0..1 /\ open = <<>> /\ closed = <<>> /\ parent = <<>>

\* Every station is visited once, and the search ends when End is.
Distinct == \A i, j \in 1..Len(closed) : closed[i][1] = closed[j][1] => i = j

Apart == ClosedIds \cap DOMAIN open = {} /\ End \notin ClosedIds

\* Stations are visited in the order of their costs.
InOrder ==
    /\ \A i, j \in 1..Len(closed) : i <= j => closed[i][2] <= closed[j][2]
    /\ \A i \in 1..Len(closed), x \in DOMAIN open : closed[i][2] <= open[x]

FromStart ==
    /\ closed = <<>> => DOMAIN open = {Start} /\ open[Start] = 0
    /\ closed # <<>> => closed[1] = <<Start, 0>>

\* The parent of p is one of the first n visited, one hop before it.
HasParent(p, n) ==
    /\ p[1] \in DOMAIN parent
    /\ \E i \in 1..n : parent[p[1]] = closed[i][1] /\ Hop(closed[i], p)

\* A parent was visited before its child, which no later overwriting undoes.
Parents ==
    /\ \A j \in 1..Len(closed) : j > 1 => HasParent(closed[j], j - 1)
    /\ closed # <<>> => \A x \in DOMAIN open : HasParent(<<x, open[x]>>, Len(closed))

\* v is known to cost at most c
Known(v, c) ==
    \/ \E j \in 1..Len(closed) : closed[j][1] = v /\ closed[j][2] <= c
    \/ v \in DOMAIN open /\ open[v] <= c

Relaxed ==
    \A i \in 1..Len(closed) : \A v \in DOMAIN Children(closed[i][1]) :
       Known(v, closed[i][2] + Children(closed[i][1])[v])

SearchInv ==
    pc = "search" =>
    /\ Len(chosen) = 2 /\ Start # End
    /\ Distinct /\ Apart /\ InOrder /\ FromStart /\ Parents /\ Relaxed

\* A way found is a ride from Start to End.
IsTravel ==
    /\ Len(chosen) = 2
    /\ path[1] = <<Start, 0>> /\ path[Len(path)][1] = End
    /\ \A i \in 1..Len(path) - 1 : Hop(path[i], path[i + 1])

Travelled == (path # <<>> => IsTravel) /\ (pc = "display" => path # <<>>)

MapperInv == TypeOK /\ Unchosen /\ SearchInv /\ Travelled

-----------------------------------------------------------------------------
(* Numbers, recursion and maps.                                             *)

\* Induction over the natural numbers, for a set of them.
LEMMA SetInduction ==
    ASSUME NEW S \in SUBSET Nat, 0 \in S, \A n \in S : n + 1 \in S
    PROVE  S = Nat
  <1> DEFINE T == Nat \ S
  <1>1. SUFFICES ASSUME T # {} PROVE FALSE
    OBVIOUS
  <1>2. PICK x \in T : \A y \in T : ~(<<y, x>> \in OpToRel(<, Nat))
    <2>1. T \subseteq Nat
      OBVIOUS
    <2> HIDE DEF T
    <2> QED BY <1>1, <2>1, NatLessThanWellFounded, WFMin
  <1>3. \A y \in T : ~(y < x)
    BY <1>2 DEF OpToRel
  <1>4. x # 0 /\ x - 1 \in Nat /\ (x - 1) + 1 = x
    OBVIOUS
  <1>5. x - 1 \in S
    BY <1>3, <1>4
  <1> QED BY <1>4, <1>5

\* A set of numbers up to n that has a member has a greatest one.
LEMMA MaxIsMember ==
    ASSUME NEW n \in Nat, NEW S \in SUBSET (1..n), S # {}
    PROVE  Max(S) \in S
  <1> DEFINE T == {n - x : x \in S}
  <1>1. T \in SUBSET Nat /\ T # {}
    <2>1. \A x \in S : n - x \in Nat
      OBVIOUS
    <2> QED BY <2>1
  <1>2. PICK y \in T : \A z \in T : ~(<<z, y>> \in OpToRel(<, Nat))
    <2> HIDE DEF T
    <2> QED BY <1>1, NatLessThanWellFounded, WFMin
  <1>3. PICK x \in S : y = n - x
    OBVIOUS
  <1>4. \A z \in S : n - z \in T /\ ~(n - z < n - x)
    BY <1>1, <1>2, <1>3 DEF OpToRel
  <1>5. \A z \in S : x >= z
    BY <1>3, <1>4
  <1> QED BY <1>5 DEF Max

\* What a recursion over 0..n computes: there is such a function, and its
\* values stay where the steps keep them.
IsRecursion(f, n, first, step) ==
    f = [k \in 0..n |-> IF k = 0 THEN first ELSE step[k, f[k - 1]]]

LEMMA Recursion ==
    ASSUME NEW n \in Nat, NEW T, NEW first \in T, NEW step \in [(1..n) \X T -> T]
    PROVE  \E f \in [0..n -> T] : IsRecursion(f, n, first, step)
  <1> DEFINE S == {m \in Nat : m <= n => \E f \in [0..m -> T] : IsRecursion(f, m, first, step)}
  <1>1. 0 \in S
    <2> DEFINE f == [k \in 0..0 |-> first]
    <2>1. f \in [0..0 -> T] /\ IsRecursion(f, 0, first, step)
      BY DEF IsRecursion
    <2> QED BY <2>1
  <1>2. ASSUME NEW m \in S PROVE m + 1 \in S
    <2> SUFFICES ASSUME m + 1 <= n
                 PROVE  \E f \in [0..m + 1 -> T] : IsRecursion(f, m + 1, first, step)
      OBVIOUS
    <2>1. PICK f \in [0..m -> T] : IsRecursion(f, m, first, step)
      OBVIOUS
    <2> DEFINE g == [k \in 0..m + 1 |-> IF k = 0 THEN first ELSE step[k, f[k - 1]]]
    <2>2. \A k \in 0..m + 1 : k # 0 => k - 1 \in 0..m /\ k \in 1..n
      OBVIOUS
    <2>3. \A k \in 0..m : g[k] = f[k]
      <3>1. \A k \in 0..m : f[k] = IF k = 0 THEN first ELSE step[k, f[k - 1]]
        BY <2>1 DEF IsRecursion
      <3>2. \A k \in 0..m : k \in 0..m + 1
        OBVIOUS
      <3> QED BY <3>1, <3>2
    <2>4. IsRecursion(g, m + 1, first, step)
      <3>1. g = [k \in 0..m + 1 |-> IF k = 0 THEN first ELSE step[k, g[k - 1]]]
        BY <2>2, <2>3
      <3> HIDE DEF g
      <3> QED BY <3>1 DEF IsRecursion
    <2>5. g \in [0..m + 1 -> T]
      BY <2>2
    <2> HIDE DEF g
    <2> QED BY <2>4, <2>5
  <1>3. S = Nat
    <2> HIDE DEF S
    <2> QED BY <1>1, <1>2, SetInduction DEF S
  <1> QED BY <1>3

\* Two that begin alike and go on alike are alike.
Alike(f, g, n) == f[0] = g[0] /\ \A k \in 1..n : f[k - 1] = g[k - 1] => f[k] = g[k]

LEMMA SameRecursion ==
    ASSUME NEW n \in Nat, NEW f, NEW g, Alike(f, g, n)
    PROVE  \A k \in 0..n : f[k] = g[k]
  <1> DEFINE S == {k \in Nat : k <= n => f[k] = g[k]}
  <1>1. ASSUME NEW k \in S, k + 1 <= n PROVE f[k + 1] = g[k + 1]
    <2>1. k + 1 \in 1..n /\ k + 1 - 1 = k /\ k <= n
      BY <1>1
    <2> QED BY <2>1 DEF Alike
  <1>2. S = Nat
    <2>1. 0 \in S /\ \A k \in S : k + 1 \in S
      BY <1>1 DEF Alike
    <2> HIDE DEF S
    <2> QED BY <2>1, SetInduction DEF S
  <1> QED BY <1>2

-----------------------------------------------------------------------------
(* Type correctness, and the steps outside the search.                      *)

\* The rows of a table.
Row == [from : Id, to : Id, time : Nat]

LEMMA RowType ==
    ASSUME NEW rows \in Seq(Row)
    PROVE  /\ DOMAIN rows = 1..Len(rows) /\ Len(rows) \in Nat
           /\ \A i \in DOMAIN rows : rows[i].from \in Id /\ rows[i].to \in Id /\ rows[i].time \in Nat
  <1>1. DOMAIN rows = 1..Len(rows) /\ Len(rows) \in Nat /\ \A i \in DOMAIN rows : rows[i] \in Row
    OBVIOUS
  <1> QED BY <1>1 DEF Row

\* The table read leads from ids to ids, in natural times.
LEMMA LinkedType ==
    ASSUME NEW rows \in Seq(Row)
    PROVE  \A u \in DOMAIN Linked(rows) : u \in Id /\ IsMap(Linked(rows)[u], Id, Nat)
  <1> DEFINE From(id) == {i \in DOMAIN rows : rows[i].from = id}
             At(id, to) == {i \in From(id) : rows[i].to = to}
  <1>1. DOMAIN rows = 1..Len(rows) /\ Len(rows) \in Nat
        /\ \A i \in DOMAIN rows : rows[i].from \in Id /\ rows[i].to \in Id /\ rows[i].time \in Nat
    BY RowType
  <1>2. ASSUME NEW u \in DOMAIN Linked(rows)
        PROVE  /\ u \in Id
               /\ Linked(rows)[u] = [to \in {rows[i].to : i \in From(u)} |-> rows[Max(At(u, to))].time]
    BY <1>1 DEF Linked
  <1>3. ASSUME NEW u, NEW i \in From(u) PROVE Max(At(u, rows[i].to)) \in DOMAIN rows
    <2>1. At(u, rows[i].to) \in SUBSET (1..Len(rows)) /\ At(u, rows[i].to) # {}
      BY <1>1
    <2>2. Max(At(u, rows[i].to)) \in At(u, rows[i].to)
      <3> HIDE DEF At
      <3> QED BY <1>1, <2>1, MaxIsMember
    <2> QED BY <2>2
  <1>4. ASSUME NEW u \in DOMAIN Linked(rows) PROVE IsMap(Linked(rows)[u], Id, Nat)
    <2>1. \A i \in From(u) : rows[i].to \in Id /\ rows[Max(At(u, rows[i].to))].time \in Nat
      BY <1>1, <1>3
    <2> DEFINE m == [to \in {rows[i].to : i \in From(u)} |-> rows[Max(At(u, to))].time]
    <2>2. IsMap(m, Id, Nat)
      <3> HIDE DEF From, At
      <3> QED BY <2>1 DEF IsMap
    <2> QED BY <1>2, <2>2
  <1> QED BY <1>2, <1>4

LEMMA GhostType ==
    ASSUME NEW rows \in Seq(Row)
    PROVE  \A ended \in BOOLEAN : Read(rows, ended, GhostRow(rows)) \in Seq(Row)
  <1>1. CASE rows = <<>>
    <2>1. GhostRow(rows) \in Row
      BY <1>1, LegacyIdAssumption DEF GhostRow, Row
    <2> QED BY <2>1 DEF Read
  <1>2. CASE rows # <<>>
    <2>1. Last(rows) \in Row
      BY <1>2 DEF Last
    <2>2. [Last(rows) EXCEPT !.from = 0] \in Row
      BY <2>1, LegacyIdAssumption DEF Row
    <2>3. GhostRow(rows) \in Row
      BY <1>2, <2>2 DEF GhostRow
    <2> QED BY <2>3 DEF Read
  <1> QED BY <1>1, <1>2

LEMMA InitMapper == Init => MapperInv
  BY DEF Init, MapperInv, TypeOK, Unchosen, SearchInv, Travelled, Children, IsMap

LEMMA StepSetConnections == MapperInv /\ SetConnections => MapperInv'
  <1> SUFFICES ASSUME MapperInv, SetConnections PROVE MapperInv'
    OBVIOUS
  <1>1. path = <<>> /\ chosen = <<>> /\ UNCHANGED <<file, chosen, open, closed, parent, path>>
    BY DEF MapperInv, Unchosen, SetConnections, search
  <1>2. pc' \in {"crashed", "stations"}
    BY DEF SetConnections
  <1>3. ASSUME NEW u \in Id PROVE IsMap(Children(u), Id, Nat)'
    <2>1. CASE file.connections = None
      BY <2>1 DEF SetConnections, MapperInv, TypeOK, Children
    <2>2. CASE file.connections # None
      <3>1. file.connections \in Seq(Row)
        BY <2>2, LegacyFilesAssumption DEF MapperInv, TypeOK, Row
      <3>2. connections' = Linked(Read(file.connections, "connections" \in file.ended,
                                       GhostRow(file.connections)))
        BY <2>2 DEF SetConnections
      <3>3. u \in DOMAIN connections' => IsMap(connections'[u], Id, Nat)
        <4> DEFINE ended == "connections" \in file.ended
                   rows == Read(file.connections, ended, GhostRow(file.connections))
        <4>1. ended \in BOOLEAN
          OBVIOUS
        <4>2. rows \in Seq(Row)
          <5> HIDE DEF ended
          <5> QED BY <3>1, <4>1, GhostType
        <4>3. connections' = Linked(rows)
          BY <3>2
        <4> HIDE DEF rows
        <4> QED BY <4>2, <4>3, LinkedType
      <3>4. IsMap(<<>>, Id, Nat)
        BY DEF IsMap
      <3> QED BY <3>3, <3>4 DEF Children
    <2> QED BY <2>1, <2>2
  <1>4. TypeOK'
    BY <1>1, <1>3 DEF MapperInv, TypeOK, IsMap
  <1> QED BY <1>1, <1>2, <1>4 DEF MapperInv, Unchosen, SearchInv, Travelled

\* What the invariant says is said of these.
LEMMA Untouched ==
    ASSUME MapperInv, UNCHANGED <<file, connections, chosen, open, closed, parent, path>>,
           pc' # "search", pc' # "display" \/ path # <<>>,
           pc' \in {"connections", "stations"} => pc \in {"connections", "stations"},
           pc' \in {"choose", "retry"} => pc \in {"choose", "retry"}
    PROVE  MapperInv'
  <1>1. TypeOK'
    BY DEF MapperInv, TypeOK, IsMap, Children
  <1>2. Unchosen' /\ SearchInv'
    BY DEF MapperInv, Unchosen, SearchInv
  <1>3. Travelled'
    BY DEF MapperInv, Travelled, IsTravel, Start, End, Hop, Children
  <1> QED BY <1>1, <1>2, <1>3 DEF MapperInv

LEMMA StepQuiet ==
    MapperInv /\ (\/ SetStations \/ Leave \/ NotANumber \/ Again
                  \/ Unreachable \/ Display \/ UNCHANGED vars) => MapperInv'
  <1> SUFFICES ASSUME MapperInv,
                      \/ SetStations \/ Leave \/ NotANumber \/ Again
                      \/ Unreachable \/ Display \/ UNCHANGED vars
               PROVE  MapperInv'
    OBVIOUS
  <1>1. CASE SetStations
    BY <1>1, Untouched DEF SetStations, search
  <1>2. CASE Leave \/ NotANumber
    BY <1>2, Untouched DEF Leave, NotANumber, search
  <1>3. CASE Again
    BY <1>3, Untouched DEF Again, search
  <1>4. CASE Unreachable
    BY <1>4, Untouched DEF Unreachable, search
  <1>5. CASE Display
    BY <1>5, Untouched DEF Display, search
  <1>6. CASE UNCHANGED vars
    BY <1>6
    DEF vars, search, MapperInv, TypeOK, Unchosen, SearchInv, Travelled, IsTravel, IsMap, Children, Start, End, Hop,
        Distinct, Apart, InOrder, FromStart, Parents, HasParent, Relaxed, Known, ClosedIds
  <1> QED BY <1>1, <1>2, <1>3, <1>4, <1>5, <1>6

LEMMA StepNewSearch == MapperInv /\ NewSearch => MapperInv'
  BY DEF MapperInv, NewSearch, TypeOK, Unchosen, SearchInv, Travelled, IsMap, Children

LEMMA StepChoose == MapperInv /\ (\E id \in Id : Choose(id)) => MapperInv'
  <1> SUFFICES ASSUME MapperInv, NEW id \in Id, Choose(id) PROVE MapperInv'
    OBVIOUS
  <1>1. /\ chosen \in Seq(Id) /\ Len(chosen) \in 0..1
        /\ path = <<>> /\ open = <<>> /\ closed = <<>> /\ parent = <<>>
    BY DEF MapperInv, Choose, Unchosen, TypeOK
  <1>2. UNCHANGED <<file, connections, closed, parent>>
    BY DEF Choose
  <1>3. CASE id \notin DOMAIN stations
    BY <1>2, <1>3, Untouched DEF Choose
  <1>4. CASE id \in DOMAIN stations /\ chosen = <<>>
    <2>1. chosen' = <<id>> /\ pc' = "choose" /\ path' = <<>> /\ open' = <<>>
      BY <1>1, <1>4 DEF Choose
    <2>2. TypeOK'
      BY <1>1, <1>2, <2>1 DEF MapperInv, TypeOK, IsMap, Children
    <2> QED BY <1>1, <1>2, <2>1, <2>2 DEF MapperInv, Unchosen, SearchInv, Travelled
  <1>5. CASE id \in DOMAIN stations /\ chosen # <<>>
    <2>1. chosen' = Append(chosen, id) /\ chosen' \in Seq(Id) /\ Len(chosen') = 2
          /\ Start' = chosen[1] /\ End' = id /\ chosen[1] \in Id
      BY <1>1, <1>5 DEF Choose, Start, End
    <2>2. CASE chosen[1] = id
      <3>1. pc' = "display" /\ path' = << <<id, 0>> >> /\ open' = <<>>
        BY <1>1, <1>5, <2>2 DEF Choose
      <3>2. TypeOK'
        BY <1>1, <1>2, <2>1, <3>1 DEF MapperInv, TypeOK, IsMap, Children, Stop
      <3>3. IsTravel'
        BY <2>1, <2>2, <3>1 DEF IsTravel
      <3> QED BY <3>1, <3>2, <3>3 DEF MapperInv, Unchosen, SearchInv, Travelled
    <2>3. CASE chosen[1] # id
      <3>1. pc' = "search" /\ path' = <<>> /\ open' = Put(<<>>, chosen[1], 0)
        BY <1>1, <1>5, <2>3 DEF Choose
      <3>2. DOMAIN open' = {chosen[1]} /\ open'[chosen[1]] = 0 /\ IsMap(open, Id, Nat)'
        BY <2>1, <3>1 DEF Put, IsMap
      <3>3. TypeOK'
        BY <1>1, <1>2, <2>1, <3>1, <3>2 DEF MapperInv, TypeOK, IsMap, Children
      <3>4. closed' = <<>> /\ Len(closed') = 0 /\ 1..Len(closed') = {} /\ ClosedIds' = {}
        BY <1>1, <1>2 DEF ClosedIds
      <3>5. (Distinct /\ Apart /\ InOrder /\ FromStart /\ Parents /\ Relaxed)'
        BY <2>1, <3>2, <3>4 DEF Distinct, Apart, InOrder, FromStart, Parents, Relaxed
      <3> QED BY <2>1, <2>3, <3>1, <3>3, <3>5 DEF MapperInv, Unchosen, SearchInv, Travelled
    <2> QED BY <2>2, <2>3
  <1> QED BY <1>3, <1>4, <1>5

-----------------------------------------------------------------------------
(* The search.                                                              *)

\* What a search knows, in plain terms.
LEMMA SearchType ==
    ASSUME TypeOK
    PROVE  /\ Len(closed) \in Nat /\ DOMAIN closed = 1..Len(closed)
           /\ \A i \in 1..Len(closed) :
                 /\ closed[i] = <<closed[i][1], closed[i][2]>>
                 /\ closed[i][1] \in Id /\ closed[i][2] \in Nat /\ closed[i][1] \in ClosedIds
           /\ \A v \in ClosedIds : \E i \in 1..Len(closed) : v = closed[i][1]
           /\ \A x \in DOMAIN open : x \in Id /\ open[x] \in Nat
           /\ \A u \in Id : \A v \in DOMAIN Children(u) : v \in Id /\ Children(u)[v] \in Nat
  <1>1. Len(closed) \in Nat /\ DOMAIN closed = 1..Len(closed) /\ \A i \in 1..Len(closed) : closed[i] \in Stop
    BY DEF TypeOK
  <1>2. (\A x \in DOMAIN open : x \in Id /\ open[x] \in Nat)
        /\ \A u \in Id : \A v \in DOMAIN Children(u) : v \in Id /\ Children(u)[v] \in Nat
    BY DEF TypeOK, IsMap
  <1> QED BY <1>1, <1>2 DEF Stop, ClosedIds

LEMMA StepExpand == MapperInv /\ (\E id \in DOMAIN open : Expand(id)) => MapperInv'
  <1> SUFFICES ASSUME MapperInv, NEW id \in DOMAIN open, Expand(id) PROVE MapperInv'
    OBVIOUS
  <1>0. PICK n, cost, to : n = Len(closed) /\ cost = open[id] /\ to = Children(id)
    OBVIOUS
  <1> DEFINE new == {x \in DOMAIN to \ (ClosedIds \cup {id}) : Cheaper(x, cost + to[x])}
  <1>1. /\ TypeOK /\ Distinct /\ Apart /\ InOrder /\ FromStart /\ Parents /\ Relaxed
        /\ Len(chosen) = 2 /\ Start # End
    BY DEF MapperInv, SearchInv, Expand
  <1>2. /\ n \in Nat /\ DOMAIN closed = 1..n
        /\ \A i \in 1..n : /\ closed[i] = <<closed[i][1], closed[i][2]>>
                           /\ closed[i][1] \in Id /\ closed[i][2] \in Nat /\ closed[i][1] \in ClosedIds
        /\ \A v \in ClosedIds : \E i \in 1..n : v = closed[i][1]
        /\ \A x \in DOMAIN open : x \in Id /\ open[x] \in Nat
        /\ \A u \in Id : \A v \in DOMAIN Children(u) : v \in Id /\ Children(u)[v] \in Nat
    BY <1>0, <1>1, SearchType
  <1>3. /\ closed' = Append(closed, <<id, cost>>)
        /\ id # End /\ \A x \in DOMAIN open : cost <= open[x]
        /\ UNCHANGED <<file, pc, connections, chosen, path>> /\ pc = "search"
    BY <1>0 DEF Expand, Cheapest
  <1>4. /\ DOMAIN open' = (DOMAIN open \ {id}) \cup new
        /\ \A x \in new : open'[x] = cost + to[x]
        /\ \A x \in DOMAIN open' \ new : open'[x] = open[x]
    BY <1>0 DEF Expand
  <1>5. /\ DOMAIN parent' = DOMAIN parent \cup new
        /\ \A x \in new : parent'[x] = id
        /\ \A x \in DOMAIN parent' \ new : parent'[x] = parent[x]
    BY <1>0 DEF Expand
  <1>6. /\ id \in Id /\ cost \in Nat
        /\ \A x \in new : /\ x \in Id /\ to[x] \in Nat /\ x \in DOMAIN to
                          /\ x \notin ClosedIds /\ x # id /\ Cheaper(x, cost + to[x])
    BY <1>0, <1>2
  <1>7. \A x \in DOMAIN to : x \in new \/ x \in ClosedIds \/ x = id \/ ~Cheaper(x, cost + to[x])
    OBVIOUS
  <1> HIDE DEF new
  <1>8. /\ Len(closed') = n + 1 /\ closed' \in Seq(Stop)
        /\ \A i \in 1..n : closed'[i] = closed[i]
        /\ closed'[n + 1] = <<id, cost>>
        /\ \A i \in 1..n + 1 : i \in 1..n \/ i = n + 1
        /\ \A i \in 1..n : i \in 1..n + 1
        /\ n + 1 \in 1..n + 1
    <2>1. closed \in Seq(Stop) /\ <<id, cost>> \in Stop
      BY <1>1, <1>6 DEF TypeOK, Stop
    <2> QED BY <1>2, <1>3, <2>1
  <1>9. Children(id) = to /\ \A u : Children(u)' = Children(u)
    BY <1>0, <1>3 DEF Children
  <1>10. Start' = Start /\ End' = End
    BY <1>3 DEF Start, End
  <1>11. ClosedIds' = ClosedIds \cup {id}
    <2>1. DOMAIN closed' = 1..n + 1
      BY <1>2, <1>8
    <2>2. ASSUME NEW v PROVE v \in ClosedIds' <=> \E i \in 1..n + 1 : v = closed'[i][1]
      BY <2>1 DEF ClosedIds
    <2>3. ASSUME NEW v PROVE v \in ClosedIds' <=> v \in ClosedIds \/ v = id
      BY <1>2, <1>8, <2>2
    <2> QED BY <2>3
  <1>12. TypeOK'
    <2>1. IsMap(open', Id, Nat)
      <3>1. \A x \in DOMAIN open' : x \in Id /\ open'[x] \in Nat
        BY <1>2, <1>4, <1>6
      <3>2. open' = [x \in DOMAIN open' |-> open'[x]]
        BY DEF Expand
      <3> QED BY <3>1, <3>2 DEF IsMap
    <2>2. IsMap(parent', Id, Id)
      <3>1. \A x \in DOMAIN parent' : x \in Id /\ parent'[x] \in Id
        BY <1>1, <1>5, <1>6 DEF TypeOK, IsMap
      <3>2. parent' = [x \in DOMAIN parent' |-> parent'[x]]
        BY DEF Expand
      <3> QED BY <3>1, <3>2 DEF IsMap
    <2> QED BY <1>1, <1>3, <1>8, <1>9, <2>1, <2>2 DEF TypeOK
  <1>13. Distinct'
    <2>1. id \notin ClosedIds
      BY <1>1 DEF Apart
    <2>2. \A i, j \in 1..n + 1 : closed'[i][1] = closed'[j][1] => i = j
      BY <1>0, <1>1, <1>2, <1>8, <2>1 DEF Distinct
    <2> QED BY <1>8, <2>2 DEF Distinct
  <1>14. Apart'
    BY <1>1, <1>3, <1>4, <1>6, <1>10, <1>11 DEF Apart
  <1>15. InOrder'
    <2>1. \A i \in 1..n : closed[i][2] <= cost
      BY <1>0, <1>1 DEF InOrder
    <2>2. \A i, j \in 1..n + 1 : i <= j => closed'[i][2] <= closed'[j][2]
      <3> SUFFICES ASSUME NEW i \in 1..n + 1, NEW j \in 1..n + 1, i <= j
                   PROVE  closed'[i][2] <= closed'[j][2]
        OBVIOUS
      <3>1. CASE j \in 1..n
        <4>1. i \in 1..n
          BY <1>2, <3>1
        <4> QED BY <1>0, <1>1, <1>8, <3>1, <4>1 DEF InOrder
      <3>2. CASE j = n + 1
        BY <1>6, <1>8, <2>1, <3>2
      <3> QED BY <1>8, <3>1, <3>2
    <2>3. \A x \in DOMAIN open' : cost <= open'[x]
      BY <1>2, <1>3, <1>4, <1>6
    <2>4. \A i \in 1..n + 1 : closed'[i][2] <= cost /\ closed'[i][2] \in Nat
      BY <1>2, <1>6, <1>8, <2>1
    <2>5. \A x \in DOMAIN open' : open'[x] \in Nat
      BY <1>12 DEF TypeOK, IsMap
    <2> QED BY <1>6, <1>8, <2>2, <2>3, <2>4, <2>5 DEF InOrder
  <1>16. FromStart'
    <2>1. closed' # <<>>
      BY <1>2, <1>8
    <2>2. CASE closed = <<>>
      <3>1. n = 0 /\ id = Start /\ cost = 0
        BY <1>0, <1>1, <2>2 DEF FromStart
      <3> QED BY <1>8, <1>10, <2>1, <3>1 DEF FromStart
    <2>3. CASE closed # <<>>
      <3>1. 1 \in 1..n
        BY <1>0, <1>1, <2>3 DEF TypeOK
      <3> QED BY <1>1, <1>8, <1>10, <2>1, <2>3, <3>1 DEF FromStart
    <2> QED BY <2>2, <2>3
  <1>17. Parents'
    <2> DEFINE Good(p, m) == /\ p[1] \in DOMAIN parent'
                             /\ \E i \in 1..m : parent'[p[1]] = closed'[i][1] /\ Hop(closed'[i], p)
    <2>1. ASSUME NEW p, NEW m \in 0..n, p[1] \notin new, HasParent(p, m) PROVE Good(p, m)
      <3>1. PICK i \in 1..m : parent[p[1]] = closed[i][1] /\ Hop(closed[i], p)
        BY <2>1 DEF HasParent
      <3>2. i \in 1..n /\ closed'[i] = closed[i]
        BY <1>2, <1>8
      <3> QED BY <1>5, <2>1, <3>1, <3>2 DEF HasParent
    <2>2. ASSUME NEW j \in 1..n + 1, j > 1 PROVE Good(closed'[j], j - 1)
      <3>1. CASE j \in 1..n
        <4>1. HasParent(closed[j], j - 1) /\ closed[j][1] \notin new /\ j - 1 \in 0..n
          BY <1>0, <1>1, <1>2, <1>6, <2>2, <3>1 DEF Parents
        <4> HIDE DEF Good
        <4> QED BY <1>8, <2>1, <3>1, <4>1
      <3>2. CASE j = n + 1
        <4>1. closed # <<>>
          BY <1>0, <1>2, <2>2, <3>2
        <4>2. HasParent(<<id, cost>>, n) /\ id \notin new /\ n \in 0..n
          BY <1>0, <1>1, <1>2, <1>6, <4>1 DEF Parents
        <4>3. Good(<<id, cost>>, n)
          <5> HIDE DEF Good
          <5> QED BY <2>1, <4>2
        <4> HIDE DEF Good
        <4> QED BY <1>2, <1>8, <3>2, <4>3
      <3> HIDE DEF Good
      <3> QED BY <1>8, <3>1, <3>2
    <2>3. ASSUME NEW x \in DOMAIN open' PROVE Good(<<x, open'[x]>>, n + 1)
      <3>1. CASE x \in new
        <4>1. x \in DOMAIN parent' /\ parent'[x] = closed'[n + 1][1]
          BY <1>5, <1>8, <3>1
        <4>2. Hop(closed'[n + 1], <<x, open'[x]>>)
          BY <1>4, <1>6, <1>8, <1>9, <3>1 DEF Hop
        <4> QED BY <1>8, <4>1, <4>2
      <3>2. CASE x \notin new
        <4>1. x \in DOMAIN open /\ x # id /\ open'[x] = open[x]
          BY <1>4, <3>2
        <4>2. closed # <<>>
          BY <1>1, <4>1 DEF FromStart
        <4>3. HasParent(<<x, open[x]>>, n) /\ n \in 0..n
          BY <1>0, <1>1, <1>2, <4>1, <4>2 DEF Parents
        <4>4. Good(<<x, open[x]>>, n)
          <5> HIDE DEF Good
          <5> QED BY <2>1, <3>2, <4>3
        <4> QED BY <1>8, <4>1, <4>4
      <3> HIDE DEF Good
      <3> QED BY <3>1, <3>2
    <2>4. \A j \in 1..Len(closed') : j > 1 => Good(closed'[j], j - 1)
      <3> HIDE DEF Good
      <3> QED BY <1>8, <2>2
    <2>5. \A x \in DOMAIN open' : Good(<<x, open'[x]>>, Len(closed'))
      <3> HIDE DEF Good
      <3> QED BY <1>8, <2>3
    <2>6. \A j \in 1..Len(closed') : j > 1 => HasParent(closed[j], j - 1)'
      BY <1>3, <2>4 DEF HasParent, Hop, Children
    <2>7. \A x \in DOMAIN open' : HasParent(<<x, open[x]>>, Len(closed))'
      BY <1>3, <2>5 DEF HasParent, Hop, Children
    <2> QED BY <2>6, <2>7 DEF Parents
  <1>18. Relaxed'
    <2> DEFINE Good(v, c) == \/ \E j \in 1..n + 1 : closed'[j][1] = v /\ closed'[j][2] <= c
                             \/ v \in DOMAIN open' /\ open'[v] <= c
    <2>1. ASSUME NEW v, NEW c \in Nat, Known(v, c) PROVE Good(v, c)
      <3>1. CASE \E j \in 1..n : closed[j][1] = v /\ closed[j][2] <= c
        BY <1>8, <3>1
      <3>2. CASE v = id /\ cost <= c
        BY <1>8, <3>2
      <3>3. CASE v \in DOMAIN open /\ open[v] <= c /\ v # id
        <4>1. v \in DOMAIN open' /\ (v \notin new => open'[v] = open[v])
          BY <1>4, <3>3
        <4>2. v \in new => open'[v] < open[v]
          BY <1>2, <1>4, <1>6, <3>3 DEF Cheaper
        <4>3. v \in new => open'[v] \in Nat
          BY <1>4, <1>6
        <4> QED BY <1>2, <2>1, <3>3, <4>1, <4>2, <4>3
      <3> HIDE DEF Good
      <3> QED BY <1>0, <2>1, <3>1, <3>2, <3>3 DEF Known
    <2>2. ASSUME NEW v \in DOMAIN to PROVE Good(v, cost + to[v])
      <3>1. v \in Id /\ to[v] \in Nat /\ cost + to[v] \in Nat /\ cost <= cost + to[v]
        BY <1>2, <1>6, <1>9
      <3>2. CASE v \in new
        BY <1>4, <3>1, <3>2
      <3>3. CASE v = id
        BY <1>8, <3>1, <3>3
      <3>4. CASE v \in ClosedIds
        <4>1. PICK j \in 1..n : v = closed[j][1]
          BY <1>2, <3>4
        <4>2. closed[j][2] <= cost /\ closed[j][2] \in Nat
          BY <1>0, <1>1, <1>2 DEF InOrder
        <4> QED BY <1>6, <1>8, <3>1, <4>1, <4>2
      <3>5. CASE ~Cheaper(v, cost + to[v])
        <4>1. v \in DOMAIN open /\ open[v] <= cost + to[v]
          BY <1>2, <3>1, <3>5 DEF Cheaper
        <4>2. Known(v, cost + to[v])
          BY <4>1 DEF Known
        <4> HIDE DEF Good
        <4> QED BY <2>1, <3>1, <4>2
      <3> HIDE DEF Good
      <3> QED BY <1>7, <3>2, <3>3, <3>4, <3>5
    <2>3. ASSUME NEW i \in 1..n + 1, NEW v \in DOMAIN Children(closed'[i][1])
          PROVE  Good(v, closed'[i][2] + Children(closed'[i][1])[v])
      <3>1. CASE i \in 1..n
        <4>1. Known(v, closed[i][2] + Children(closed[i][1])[v])
          BY <1>0, <1>1, <1>8, <2>3, <3>1 DEF Relaxed
        <4>2. closed[i][2] + Children(closed[i][1])[v] \in Nat
          BY <1>2, <1>8, <2>3, <3>1
        <4> HIDE DEF Good
        <4> QED BY <1>8, <2>1, <3>1, <4>1, <4>2
      <3>2. CASE i = n + 1
        <4> HIDE DEF Good
        <4> QED BY <1>8, <1>9, <2>2, <3>2
      <3> HIDE DEF Good
      <3> QED BY <1>8, <3>1, <3>2
    <2> QED BY <1>3, <1>8, <2>3 DEF Relaxed, Known, Children
  <1>19. SearchInv'
    BY <1>1, <1>3, <1>10, <1>13, <1>14, <1>15, <1>16, <1>17, <1>18 DEF SearchInv
  <1>20. Unchosen' /\ Travelled'
    <2>1. IsTravel => IsTravel'
      BY <1>3, <1>9, <1>10 DEF IsTravel, Hop
    <2> QED BY <1>3, <2>1 DEF MapperInv, Unchosen, Travelled
  <1> QED BY <1>12, <1>19, <1>20 DEF MapperInv

-----------------------------------------------------------------------------
(* The rounds of Bellman and Ford.                                          *)

\* A set of times with a member has a least one.
LEMMA LeastBelow ==
    ASSUME NEW S \in SUBSET Nat, NEW n \in S
    PROVE  \E x \in Least(S) : x <= n
  <1>1. PICK x \in S : \A y \in S : ~(<<y, x>> \in OpToRel(<, Nat))
    BY NatLessThanWellFounded, WFMin
  <1>2. \A y \in S : ~(y < x)
    BY <1>1 DEF OpToRel
  <1>3. \A y \in S : x <= y
    BY <1>2
  <1> QED BY <1>3 DEF Least

Times == [Id -> SUBSET Nat]

\* The times to v, a round after q.
Arriving(q, v) ==
    q[v] \cup {x \in Nat : \E u \in Id : v \in DOMAIN Children(u) /\ \E t \in q[u] : x = t + Children(u)[v]}

LEMMA ImprovedIs ==
    ASSUME TypeOK, NEW q \in Times
    PROVE  /\ Improved(q) \in Times
           /\ \A v \in Id : Arriving(q, v) \in SUBSET Nat /\ Improved(q)[v] = Least(Arriving(q, v))
  <1>1. \A u \in Id : \A v \in DOMAIN Children(u) : Children(u)[v] \in Nat
    BY SearchType
  <1>2. \A u \in Id : q[u] \in SUBSET Nat
    BY DEF Times
  <1>3. ASSUME NEW v \in Id
        PROVE  q[v] \cup UNION {{t + Children(u)[v] : t \in q[u]} : u \in {w \in Id : v \in DOMAIN Children(w)}}
               = Arriving(q, v)
    BY <1>1, <1>2 DEF Arriving
  <1>4. \A v \in Id : Arriving(q, v) \in SUBSET Nat
    BY <1>2 DEF Arriving
  <1>5. Improved(q) = [v \in Id |-> Least(Arriving(q, v))]
    BY <1>3 DEF Improved
  <1> QED BY <1>4, <1>5 DEF Times, Least

Rounds == Cardinality(Id)

AtSource == [v \in Id |-> IF v = Start THEN {0} ELSE {}]

IsRounds(f) == f = [k \in 0..Rounds |-> IF k = 0 THEN AtSource ELSE Improved(f[k - 1])]

Round == CHOOSE f : IsRounds(f)

LEMMA RoundsType == Rounds \in Nat
  BY LegacyIdAssumption, FS_CardinalityType DEF Rounds

LEMMA RoundsAre ==
    ASSUME TypeOK
    PROVE  /\ Round \in [0..Rounds -> Times] /\ Round[0] = AtSource /\ Quickest = Round[Rounds]
           /\ \A k \in 1..Rounds : Round[k] = Improved(Round[k - 1])
  <1> DEFINE step == [x \in (1..Rounds) \X Times |-> Improved(x[2])]
  <1>1. step \in [(1..Rounds) \X Times -> Times] /\ AtSource \in Times
    <2>1. \A x \in (1..Rounds) \X Times : Improved(x[2]) \in Times
      BY ImprovedIs
    <2>2. AtSource \in Times
      BY DEF AtSource, Times
    <2> QED BY <2>1, <2>2
  <1>2. PICK f \in [0..Rounds -> Times] : IsRecursion(f, Rounds, AtSource, step)
    <2> HIDE DEF step
    <2> QED BY <1>1, RoundsType, Recursion
  <1>3. \A k \in 0..Rounds : k # 0 => k - 1 \in 0..Rounds /\ k \in 1..Rounds
    BY RoundsType
  <1>4. \A k \in 0..Rounds : k # 0 => step[k, f[k - 1]] = Improved(f[k - 1])
    BY <1>2, <1>3
  <1>5. IsRounds(f)
    <2> HIDE DEF step
    <2> QED BY <1>2, <1>4 DEF IsRecursion, IsRounds
  <1>6. IsRounds(Round)
    BY <1>5 DEF Round
  <1>7. ASSUME NEW g, IsRounds(g) PROVE \A k \in 0..Rounds : f[k] = g[k]
    <2>1. \A k \in 0..Rounds : /\ f[k] = IF k = 0 THEN AtSource ELSE Improved(f[k - 1])
                               /\ g[k] = IF k = 0 THEN AtSource ELSE Improved(g[k - 1])
      BY <1>5, <1>7 DEF IsRounds
    <2>2. Alike(f, g, Rounds)
      BY <2>1, RoundsType DEF Alike
    <2> QED BY <2>2, RoundsType, SameRecursion
  <1>8. Round = f
    <2>1. \A k \in 0..Rounds : Round[k] = f[k]
      BY <1>6, <1>7
    <2>2. Round = [k \in 0..Rounds |-> IF k = 0 THEN AtSource ELSE Improved(Round[k - 1])]
      BY <1>6 DEF IsRounds
    <2> QED BY <1>2, <2>1, <2>2
  <1>9. \A k \in 0..Rounds : Round[k] = IF k = 0 THEN AtSource ELSE Improved(Round[k - 1])
    BY <1>6 DEF IsRounds
  <1>10. Quickest = Round[Rounds]
    BY Zenon DEF Quickest, Round, IsRounds, Rounds, AtSource
  <1> QED BY <1>2, <1>8, <1>9, <1>10, RoundsType

\* Whatever holds of Start and is kept by a connection holds of every time
\* that some round gives some id.
LEMMA RoundsWithin ==
    ASSUME TypeOK, NEW R, <<Start, 0>> \in R,
           \A u \in Id, t \in Nat : \A v \in DOMAIN Children(u) :
              <<u, t>> \in R => <<v, t + Children(u)[v]>> \in R
    PROVE  \A k \in 0..Rounds, v \in Id : \A t \in Round[k][v] : t \in Nat /\ <<v, t>> \in R
  <1> DEFINE Good(k) == \A v \in Id : \A t \in Round[k][v] : t \in Nat /\ <<v, t>> \in R
             S == {k \in Nat : k \in 0..Rounds => Good(k)}
  <1>1. 0 \in S
    BY RoundsAre DEF AtSource
  <1>2. ASSUME NEW k \in S, k + 1 \in 0..Rounds, NEW v \in Id, NEW t \in Round[k + 1][v]
        PROVE  t \in Nat /\ <<v, t>> \in R
    <2>1. k \in 0..Rounds /\ k + 1 \in 1..Rounds /\ k + 1 - 1 = k
      BY <1>2, RoundsType
    <2>2. Good(k) /\ Round[k] \in Times /\ Round[k + 1] = Improved(Round[k])
      BY <2>1, RoundsAre
    <2>3. t \in Arriving(Round[k], v) /\ t \in Nat
      BY <1>2, <2>2, ImprovedIs DEF Least
    <2>4. CASE t \in Round[k][v]
      BY <2>2, <2>4
    <2>5. CASE t \notin Round[k][v]
      <3>1. PICK u \in Id : v \in DOMAIN Children(u) /\ \E s \in Round[k][u] : t = s + Children(u)[v]
        BY <2>3, <2>5 DEF Arriving
      <3> QED BY <2>2, <2>3, <3>1
    <2> QED BY <2>4, <2>5
  <1>3. S = Nat
    <2>1. \A k \in S : k + 1 \in S
      BY <1>2
    <2> HIDE DEF S
    <2> QED BY <1>1, <2>1, SetInduction DEF S
  <1>4. ASSUME NEW k \in 0..Rounds PROVE Good(k)
    <2>1. k \in Nat
      BY RoundsType
    <2> HIDE DEF Good
    <2> QED BY <1>3, <2>1
  <1> QED BY <1>4

\* A round keeps a time or betters it, and takes every connection.
LEMMA RoundsImprove ==
    ASSUME TypeOK, NEW k \in 1..Rounds, NEW v \in Id
    PROVE  /\ \A t \in Round[k - 1][v] : \E x \in Round[k][v] : x \in Nat /\ x <= t
           /\ \A u \in Id : v \in DOMAIN Children(u) =>
                 \A t \in Round[k - 1][u] : \E x \in Round[k][v] : x \in Nat /\ x <= t + Children(u)[v]
  <1>1. k - 1 \in 0..Rounds /\ Round[k - 1] \in Times /\ Round[k] = Improved(Round[k - 1])
    BY RoundsType, RoundsAre
  <1> DEFINE all == Arriving(Round[k - 1], v)
  <1>2. all \in SUBSET Nat /\ Round[k][v] = Least(all)
    BY <1>1, ImprovedIs
  <1>3. Round[k - 1][v] \subseteq all
    BY DEF Arriving
  <1>4. ASSUME NEW u \in Id, v \in DOMAIN Children(u), NEW t \in Round[k - 1][u]
        PROVE  t + Children(u)[v] \in all
    <2>1. t \in Nat /\ Children(u)[v] \in Nat
      BY <1>1, <1>4, SearchType DEF Times
    <2> QED BY <1>4, <2>1 DEF Arriving
  <1> HIDE DEF all
  <1>5. \A t \in all : \E x \in Round[k][v] : x \in Nat /\ x <= t
    BY <1>2, LeastBelow DEF Least
  <1> QED BY <1>3, <1>4, <1>5

\* From round m on, v is reckoned to take at most t.
Reckons(v, t, m) == \A k \in m..Rounds : \E x \in Round[k][v] : x \in Nat /\ x <= t

LEMMA ReckonsStart ==
    ASSUME TypeOK, Start \in Id
    PROVE  Reckons(Start, 0, 0)
  <1> DEFINE S == {k \in Nat : k <= Rounds => 0 \in Round[k][Start]}
  <1>1. 0 \in S
    BY RoundsAre DEF AtSource
  <1>2. ASSUME NEW k \in S, k + 1 <= Rounds PROVE 0 \in Round[k + 1][Start]
    <2>1. k + 1 \in 1..Rounds /\ k + 1 - 1 = k /\ k <= Rounds
      BY <1>2, RoundsType
    <2>2. PICK x \in Round[k + 1][Start] : x \in Nat /\ x <= 0
      BY <2>1, RoundsImprove
    <2>3. x = 0
      BY <2>2
    <2> QED BY <2>2, <2>3
  <1>3. S = Nat
    <2>1. \A k \in S : k + 1 \in S
      BY <1>2
    <2> HIDE DEF S
    <2> QED BY <1>1, <2>1, SetInduction DEF S
  <1>4. \A k \in 0..Rounds : 0 \in Round[k][Start]
    BY <1>3, RoundsType
  <1> QED BY <1>4 DEF Reckons

\* The end of a connection is reckoned one round after its beginning.
LEMMA ReckonsHop ==
    ASSUME TypeOK, NEW u \in Id, NEW v \in DOMAIN Children(u), NEW t \in Nat, NEW m \in Nat, Reckons(u, t, m)
    PROVE  Reckons(v, t + Children(u)[v], m + 1)
  <1>1. v \in Id /\ Children(u)[v] \in Nat
    BY SearchType
  <1>2. ASSUME NEW k \in m + 1..Rounds
        PROVE  \E x \in Round[k][v] : x \in Nat /\ x <= t + Children(u)[v]
    <2>1. k - 1 \in m..Rounds /\ k \in 1..Rounds
      BY RoundsType
    <2>2. PICK s \in Round[k - 1][u] : s \in Nat /\ s <= t
      BY <2>1 DEF Reckons
    <2>3. PICK x \in Round[k][v] : x \in Nat /\ x <= s + Children(u)[v]
      BY <1>1, <2>1, RoundsImprove
    <2> QED BY <1>1, <2>2, <2>3
  <1> QED BY <1>2 DEF Reckons

\* A time that is reckoned and that nothing kept by the connections
\* undercuts is the least.
LEMMA ReckonedIsQuickest ==
    ASSUME TypeOK, NEW v \in Id, NEW t \in Nat, Reckons(v, t, Rounds),
           NEW R, <<Start, 0>> \in R,
           \A u \in Id, s \in Nat : \A w \in DOMAIN Children(u) :
              <<u, s>> \in R => <<w, s + Children(u)[w]>> \in R,
           \A s \in Nat : <<v, s>> \in R => t <= s
    PROVE  t \in Quickest[v]
  <1>1. Rounds \in Rounds..Rounds /\ Rounds \in 0..Rounds
    BY RoundsType
  <1>2. PICK x \in Round[Rounds][v] : x \in Nat /\ x <= t
    BY <1>1 DEF Reckons
  <1>3. <<v, x>> \in R
    BY <1>1, RoundsWithin
  <1>4. x = t
    BY <1>2, <1>3
  <1> QED BY <1>2, <1>4, RoundsAre

-----------------------------------------------------------------------------
(* The walk back.                                                           *)

IsBacks(way, last) ==
    way = [k \in 0..Len(closed) |-> IF k = 0 THEN <<last>> ELSE Back(closed[Len(closed) + 1 - k], way[k - 1])]

Backs(last) == CHOOSE way : IsBacks(way, last)

Ways == {way \in Seq(Stop) : way # <<>>}

\* One more stop before a way.
LEMMA Prepended ==
    ASSUME NEW p \in Stop, NEW way \in Ways
    PROVE  /\ <<p>> \o way \in Ways /\ Len(<<p>> \o way) = Len(way) + 1 /\ Len(way) \in Nat \ {0}
           /\ (<<p>> \o way)[1] = p
           /\ \A i \in 1..Len(way) : (<<p>> \o way)[i + 1] = way[i]
  BY DEF Ways

LEMMA BackType ==
    ASSUME NEW p \in Stop, NEW way \in Ways
    PROVE  Back(p, way) \in Ways
  BY Prepended DEF Back

LEMMA BacksAre ==
    ASSUME TypeOK, NEW last \in Stop
    PROVE  IsBacks(Backs(last), last) /\ WalkBack(last) = Backs(last)[Len(closed)]
  <1>1. PICK n \in Nat : n = Len(closed)
    BY SearchType
  <1> DEFINE step == [x \in (1..n) \X Ways |-> Back(closed[n + 1 - x[1]], x[2])]
  <1>2. \A k \in 1..n : closed[n + 1 - k] \in Stop
    <2>1. \A k \in 1..n : n + 1 - k \in 1..n
      OBVIOUS
    <2> QED BY <1>1, <2>1 DEF TypeOK
  <1>3. step \in [(1..n) \X Ways -> Ways] /\ <<last>> \in Ways
    <2>1. \A x \in (1..n) \X Ways : Back(closed[n + 1 - x[1]], x[2]) \in Ways
      BY <1>2, BackType
    <2> QED BY <2>1 DEF Ways
  <1>4. PICK f \in [0..n -> Ways] : IsRecursion(f, n, <<last>>, step)
    <2> HIDE DEF step
    <2> QED BY <1>3, Recursion
  <1>5. \A k \in 0..n : k # 0 => step[k, f[k - 1]] = Back(closed[n + 1 - k], f[k - 1])
    <2>1. \A k \in 0..n : k # 0 => k - 1 \in 0..n /\ k \in 1..n
      OBVIOUS
    <2> QED BY <1>4, <2>1
  <1>6. IsBacks(f, last)
    <2> HIDE DEF step
    <2> QED BY <1>1, <1>4, <1>5 DEF IsRecursion, IsBacks
  <1>7. IsBacks(Backs(last), last)
    BY <1>6 DEF Backs
  <1>8. WalkBack(last) = Backs(last)[Len(closed)]
    BY Zenon DEF WalkBack, Backs, IsBacks
  <1> QED BY <1>7, <1>8

\* The single pass finds every parent: a parent stands earlier in closed than
\* its child, so it is still to come, and only it has its id.
LEMMA WalkBackIsTravel ==
    ASSUME TypeOK, SearchInv, pc = "search", End \in DOMAIN open
    PROVE  LET way == WalkBack(<<End, open[End]>>)
           IN  /\ way \in Ways /\ way[1] = <<Start, 0>> /\ way[Len(way)] = <<End, open[End]>>
               /\ \A i \in 1..Len(way) - 1 : Hop(way[i], way[i + 1])
  <1>1. PICK n, last : n = Len(closed) /\ last = <<End, open[End]>>
    OBVIOUS
  <1>2. /\ n \in Nat /\ last \in Stop /\ last = <<End, open[End]>>
        /\ \A i \in 1..n : closed[i] \in Stop
        /\ Distinct /\ FromStart /\ Parents /\ Start # End
    <2>1. n \in Nat /\ \A i \in 1..n : closed[i] \in Stop
      BY <1>1 DEF TypeOK
    <2> QED BY <1>1, <2>1, SearchType DEF SearchInv, Stop
  <1>3. closed # <<>> /\ n # 0 /\ closed[1] = <<Start, 0>>
    <2>1. closed # <<>>
      BY <1>2 DEF FromStart
    <2> QED BY <1>1, <1>2, <2>1 DEF FromStart, TypeOK
  <1> DEFINE way == Backs(last)
             Good(w, k) == /\ w \in Ways /\ w[Len(w)] = last
                           /\ \A i \in 1..Len(w) - 1 : Hop(w[i], w[i + 1])
                           /\ HasParent(w[1], n - k) \/ (k = n /\ w[1] = <<Start, 0>>)
             S == {k \in Nat : k <= n => Good(way[k], k)}
  <1>4. /\ way[0] = <<last>>
        /\ \A k \in 0..n : k + 1 <= n => way[k + 1] = Back(closed[n - k], way[k])
    <2>1. IsBacks(way, last)
      BY <1>2, BacksAre
    <2> HIDE DEF way
    <2>2. \A k \in 0..n : way[k] = IF k = 0 THEN <<last>> ELSE Back(closed[n + 1 - k], way[k - 1])
      BY <1>1, <2>1 DEF IsBacks
    <2>3. /\ 0 \in 0..n
          /\ \A k \in 0..n : k + 1 <= n => /\ k + 1 \in 0..n /\ k + 1 # 0
                                          /\ k + 1 - 1 = k /\ n + 1 - (k + 1) = n - k
      BY <1>2
    <2>4. ASSUME NEW k \in 0..n, k + 1 <= n PROVE way[k + 1] = Back(closed[n - k], way[k])
      <3>1. way[k + 1] = Back(closed[n + 1 - (k + 1)], way[k + 1 - 1])
        BY <2>2, <2>3, <2>4
      <3> QED BY <2>3, <2>4, <3>1
    <2> QED BY <2>2, <2>3, <2>4
  <1> HIDE DEF way
  <1>5. 0 \in S
    <2>1. <<last>> \in Ways /\ Len(<<last>>) = 1 /\ <<last>>[1] = last
      BY <1>2 DEF Ways
    <2>2. HasParent(last, n - 0)
      <3>1. HasParent(<<End, open[End]>>, n) /\ n - 0 = n
        BY <1>1, <1>2, <1>3 DEF Parents
      <3> QED BY <1>1, <3>1
    <2>3. \A i \in 1..Len(<<last>>) - 1 : Hop(<<last>>[i], <<last>>[i + 1])
      BY <2>1
    <2> QED BY <1>4, <2>1, <2>2, <2>3
  <1>6. ASSUME NEW k \in S, k + 1 <= n PROVE Good(way[k + 1], k + 1)
    <2> DEFINE w == way[k]
               p == closed[n - k]
    <2>1. k \in 0..n /\ k # n /\ n - k \in 1..n /\ n - (k + 1) = n - k - 1
      BY <1>2, <1>6
    <2>2. Good(w, k) /\ HasParent(w[1], n - k) /\ p \in Stop /\ way[k + 1] = Back(p, w)
      BY <1>2, <1>4, <1>6, <2>1
    <2>3. PICK i \in 1..n - k : /\ w[1][1] \in DOMAIN parent /\ parent[w[1][1]] = closed[i][1]
                                /\ Hop(closed[i], w[1])
      BY <2>2 DEF HasParent
    <2> HIDE DEF w
    <2>4. CASE p[1] = ParentOf(w[1][1])
      <3>1. p[1] = closed[i][1] /\ i \in 1..Len(closed) /\ n - k \in 1..Len(closed)
        BY <1>1, <1>2, <2>1, <2>3, <2>4 DEF ParentOf
      <3>2. i = n - k
        BY <1>2, <3>1 DEF Distinct
      <3>3. way[k + 1] = <<p>> \o w
        BY <2>2, <2>4 DEF Back
      <3>4. Hop(p, w[1])
        BY <2>3, <3>2
      <3>5. (p = <<Start, 0>> /\ k + 1 = n) \/ HasParent(p, n - (k + 1))
        <4>1. CASE n - k = 1
          BY <1>2, <1>3, <2>1, <4>1
        <4>2. CASE n - k # 1
          <5>1. HasParent(closed[n - k], n - k - 1)
            BY <1>1, <1>2, <2>1, <4>2 DEF Parents
          <5> QED BY <2>1, <5>1
        <4> QED BY <4>1, <4>2
      <3> HIDE DEF p
      <3> DEFINE u == <<p>> \o w
      <3>6. /\ u \in Ways /\ Len(u) = Len(w) + 1 /\ Len(w) \in Nat \ {0} /\ u[1] = p
            /\ \A j \in 1..Len(w) : u[j + 1] = w[j]
        BY <2>2, Prepended
      <3> HIDE DEF u
      <3>7. u[Len(u)] = last
        BY <2>2, <3>6
      <3>8. ASSUME NEW j \in 1..Len(u) - 1 PROVE Hop(u[j], u[j + 1])
        <4>1. CASE j = 1
          BY <3>4, <3>6, <4>1
        <4>2. CASE j # 1
          <5>1. j - 1 \in 1..Len(w) - 1 /\ j - 1 \in 1..Len(w) /\ j \in 1..Len(w) /\ j - 1 + 1 = j
            BY <3>6, <4>2
          <5> QED BY <2>2, <3>6, <5>1
        <4> QED BY <4>1, <4>2
      <3>9. way[k + 1] = u
        BY <3>3 DEF u
      <3> QED BY <3>5, <3>6, <3>7, <3>8, <3>9
    <2>5. CASE p[1] # ParentOf(w[1][1])
      <3>1. way[k + 1] = w
        BY <2>2, <2>5 DEF Back
      <3>2. i # n - k
        BY <2>3, <2>5 DEF ParentOf
      <3>3. i \in 1..n - (k + 1)
        BY <1>2, <2>1, <3>2
      <3>4. HasParent(w[1], n - (k + 1))
        BY <2>3, <3>3 DEF HasParent
      <3> QED BY <2>2, <3>1, <3>4
    <2> QED BY <2>4, <2>5
  <1>7. S = Nat
    <2>1. \A k \in S : k + 1 \in S
      <3> HIDE DEF Good
      <3> QED BY <1>6
    <2> HIDE DEF S
    <2> QED BY <1>5, <2>1, SetInduction DEF S
  <1>8. Good(way[n], n)
    <2> HIDE DEF Good
    <2> QED BY <1>2, <1>7
  <1>9. ~HasParent(way[n][1], n - n)
    <2>1. 1..n - n = {}
      BY <1>2
    <2> QED BY <2>1 DEF HasParent
  <1>10. way[n] = WalkBack(<<End, open[End]>>)
    BY <1>1, <1>2, BacksAre DEF way
  <1> QED BY <1>1, <1>8, <1>9, <1>10

LEMMA StepArrive == MapperInv /\ Arrive => MapperInv'
  <1> SUFFICES ASSUME MapperInv, Arrive PROVE MapperInv'
    OBVIOUS
  <1>1. /\ pc = "search" /\ pc' = "display" /\ End \in DOMAIN open
        /\ path' = WalkBack(<<End, open[End]>>)
        /\ UNCHANGED <<file, connections, chosen, open, closed, parent>>
    BY DEF Arrive, search
  <1> DEFINE way == WalkBack(<<End, open[End]>>)
  <1>2. /\ way \in Ways /\ way[1] = <<Start, 0>> /\ way[Len(way)] = <<End, open[End]>>
        /\ \A i \in 1..Len(way) - 1 : Hop(way[i], way[i + 1])
    BY <1>1, WalkBackIsTravel DEF MapperInv
  <1> HIDE DEF way
  <1>3. path' = way
    BY <1>1 DEF way
  <1>4. TypeOK'
    BY <1>1, <1>2, <1>3 DEF MapperInv, TypeOK, IsMap, Children, Ways
  <1>5. IsTravel' /\ path' # <<>>
    <2>1. Start' = Start /\ End' = End /\ way # <<>> /\ Len(chosen') = 2
      BY <1>1, <1>2 DEF Start, End, Ways, MapperInv, SearchInv
    <2>2. \A i \in 1..Len(path') - 1 : Hop(path[i], path[i + 1])'
      BY <1>1, <1>2, <1>3 DEF Hop, Children
    <2> QED BY <1>2, <1>3, <2>1, <2>2 DEF IsTravel
  <1> QED BY <1>1, <1>4, <1>5 DEF MapperInv, Unchosen, SearchInv, Travelled

THEOREM MapperInvariant == Spec => []MapperInv
  <1>1. MapperInv /\ [Next]_vars => MapperInv'
    BY StepSetConnections, StepQuiet, StepNewSearch, StepChoose, StepExpand, StepArrive DEF Next
  <1> QED BY InitMapper, <1>1, PTL DEF Spec

-----------------------------------------------------------------------------
(* The way is a shortest one.                                               *)

LEMMA ReckonsLater ==
    ASSUME NEW v, NEW t, NEW m \in Nat, NEW k \in Nat, m <= k, Reckons(v, t, m)
    PROVE  Reckons(v, t, k)
  <1>1. \A i \in k..Rounds : i \in m..Rounds
    BY RoundsType
  <1> QED BY <1>1 DEF Reckons

\* Ids are visited once, so no more of them than there are.
LEMMA VisitsBounded ==
    ASSUME TypeOK, Distinct
    PROVE  Len(closed) <= Rounds
  <1>1. PICK n \in Nat : n = Len(closed)
    BY SearchType
  <1> DEFINE f == [i \in 1..n |-> closed[i][1]]
  <1>2. f \in Injection(1..n, Id)
    BY <1>1, SearchType DEF Injection, IsInjective, Distinct
  <1>3. Cardinality(1..n) <= Cardinality(Id)
    <2> HIDE DEF f
    <2> QED BY <1>2, LegacyIdAssumption, FS_Injection
  <1>4. Cardinality(1..n) = n
    <2>1. Cardinality(1..n) = IF 1 > n THEN 0 ELSE n - 1 + 1
      BY FS_Interval
    <2> QED BY <2>1
  <1> QED BY <1>1, <1>3, <1>4 DEF Rounds

\* Every visit is reckoned, one round after the visit of its parent.
LEMMA VisitsReckoned ==
    ASSUME TypeOK, SearchInv, pc = "search"
    PROVE  \A i \in 1..Len(closed) : Reckons(closed[i][1], closed[i][2], i - 1)
  <1>1. PICK n \in Nat : n = Len(closed)
    BY SearchType
  <1>2. /\ \A i \in 1..n : closed[i][1] \in Id /\ closed[i][2] \in Nat
        /\ Distinct /\ FromStart /\ Parents
    BY <1>1, SearchType DEF SearchInv
  <1> DEFINE S == {k \in Nat : \A i \in 1..n : i <= k => Reckons(closed[i][1], closed[i][2], i - 1)}
  <1>3. 0 \in S
    OBVIOUS
  <1>4. ASSUME NEW k \in S, NEW j \in 1..n, j <= k + 1
        PROVE  Reckons(closed[j][1], closed[j][2], j - 1)
    <2>1. CASE j = 1
      <3>1. closed[1] = <<Start, 0>> /\ closed[1][1] = Start /\ closed[1][2] = 0 /\ Start \in Id
        <4>1. closed # <<>>
          BY <1>1, <2>1
        <4>2. closed[1] = <<Start, 0>>
          BY <1>2, <4>1 DEF FromStart
        <4> QED BY <1>2, <2>1, <4>2
      <3>2. j - 1 = 0
        BY <2>1
      <3> QED BY <2>1, <3>1, <3>2, ReckonsStart
    <2>2. CASE j # 1
      <3>1. j > 1 /\ j - 1 \in Nat
        BY <2>2
      <3>2. PICK i \in 1..j - 1 : Hop(closed[i], closed[j])
        BY <1>1, <1>2, <3>1 DEF Parents, HasParent
      <3>3. i \in 1..n /\ i <= k /\ i - 1 \in Nat /\ i - 1 + 1 = i /\ i \in Nat /\ i <= j - 1
        BY <1>4, <3>1, <3>2
      <3>4. Reckons(closed[i][1], closed[i][2], i - 1)
        BY <3>3
      <3>5. Reckons(closed[j][1], closed[j][2], i)
        <4>1. closed[j][1] \in DOMAIN Children(closed[i][1])
              /\ closed[j][2] = closed[i][2] + Children(closed[i][1])[closed[j][1]]
          BY <3>2 DEF Hop
        <4> HIDE DEF S
        <4>2. Reckons(closed[j][1], closed[i][2] + Children(closed[i][1])[closed[j][1]], i - 1 + 1)
          BY <1>2, <3>3, <3>4, <4>1, ReckonsHop
        <4> QED BY <3>3, <4>1, <4>2
      <3> QED BY <3>1, <3>3, <3>5, ReckonsLater
    <2> QED BY <2>1, <2>2
  <1>5. S = Nat
    <2>1. \A k \in S : k + 1 \in S
      BY <1>4
    <2> HIDE DEF S
    <2> QED BY <1>3, <2>1, SetInduction DEF S
  <1> QED BY <1>1, <1>5

\* When End is the cheapest of open, its cost is the least time to it.
LEMMA ArrivesQuickest ==
    ASSUME TypeOK, SearchInv, pc = "search", End \in DOMAIN open, Cheapest(End)
    PROVE  open[End] \in Quickest[End]
  <1>1. PICK n, d : n = Len(closed) /\ d = open[End]
    OBVIOUS
  <1>2. /\ n \in Nat /\ d \in Nat /\ End \in Id
        /\ \A i \in 1..n : closed[i][1] \in Id /\ closed[i][2] \in Nat /\ closed[i][1] \in ClosedIds
        /\ \A v \in ClosedIds : \E i \in 1..n : v = closed[i][1]
        /\ \A x \in DOMAIN open : x \in Id /\ open[x] \in Nat /\ d <= open[x]
        /\ \A u \in Id : \A v \in DOMAIN Children(u) : v \in Id /\ Children(u)[v] \in Nat
        /\ Distinct /\ Apart /\ InOrder /\ FromStart /\ Parents /\ Relaxed /\ Start # End
    BY <1>1, SearchType DEF SearchInv, Cheapest
  <1>3. closed # <<>> /\ n # 0 /\ closed[1] = <<Start, 0>>
    <2>1. closed # <<>>
      BY <1>2 DEF FromStart
    <2> QED BY <1>1, <1>2, <2>1 DEF FromStart, TypeOK
  <1>4. Start \in Id
    BY <1>2, <1>3
  <1> DEFINE Above(v, t) == /\ \A i \in 1..n : closed[i][1] = v => closed[i][2] <= t
                            /\ v \notin ClosedIds => d <= t
             R == {x \in Id \X Nat : Above(x[1], x[2])}
  <1>5. \A v \in Id, t \in Nat : <<v, t>> \in R <=> Above(v, t)
    <2> HIDE DEF Above
    <2> QED OBVIOUS
  <1> HIDE DEF R
  <1>6. <<Start, 0>> \in R
    <2>1. \A i \in 1..n : closed[i][1] = Start => i = 1
      BY <1>1, <1>2, <1>3 DEF Distinct
    <2>2. Start \in ClosedIds
      BY <1>2, <1>3
    <2> QED BY <1>3, <1>4, <1>5, <2>1, <2>2
  <1>7. ASSUME NEW u \in Id, NEW t \in Nat, NEW v \in DOMAIN Children(u), <<u, t>> \in R
        PROVE  <<v, t + Children(u)[v]>> \in R
    <2> DEFINE c == t + Children(u)[v]
    <2>1. v \in Id /\ c \in Nat /\ t <= c
      BY <1>2
    <2>2. CASE u \in ClosedIds
      <3>1. PICK i \in 1..n : u = closed[i][1]
        BY <1>2, <2>2
      <3>2. closed[i][2] <= t /\ closed[i][2] + Children(u)[v] <= c
        <4>1. closed[i][2] <= t
          BY <1>5, <1>7, <3>1
        <4>2. closed[i][2] \in Nat /\ Children(u)[v] \in Nat
          BY <1>2
        <4> QED BY <4>1, <4>2
      <3>3. Known(v, closed[i][2] + Children(u)[v])
        BY <1>1, <1>2, <3>1 DEF Relaxed
      <3>4. CASE \E j \in 1..n : closed[j][1] = v /\ closed[j][2] <= closed[i][2] + Children(u)[v]
        <4>1. PICK j \in 1..n : closed[j][1] = v /\ closed[j][2] <= closed[i][2] + Children(u)[v]
          BY <3>4
        <4>2. \A k \in 1..n : closed[k][1] = v => k = j
          BY <1>1, <1>2, <4>1 DEF Distinct
        <4>3. closed[j][2] <= c /\ v \in ClosedIds
          BY <1>2, <2>1, <3>2, <4>1
        <4> HIDE DEF c
        <4> QED BY <1>5, <2>1, <4>2, <4>3 DEF c
      <3>5. CASE v \in DOMAIN open /\ open[v] <= closed[i][2] + Children(u)[v]
        <4>1. v \notin ClosedIds /\ \A k \in 1..n : closed[k][1] # v
          BY <1>2, <3>5 DEF Apart
        <4>2. d <= c
          BY <1>2, <2>1, <3>2, <3>5
        <4> HIDE DEF c
        <4> QED BY <1>5, <2>1, <4>1, <4>2 DEF c
      <3> QED BY <1>1, <3>3, <3>4, <3>5 DEF Known
    <2>3. CASE u \notin ClosedIds
      <3>1. d <= c
        BY <1>2, <1>7, <1>5, <2>1, <2>3
      <3>2. \A i \in 1..n : closed[i][2] <= d
        BY <1>1, <1>2 DEF InOrder
      <3> HIDE DEF c
      <3>3. \A i \in 1..n : closed[i][2] <= c
        BY <1>2, <2>1, <3>1, <3>2
      <3> QED BY <1>5, <2>1, <3>1, <3>3 DEF c
    <2> QED BY <2>2, <2>3
  <1>8. \A s \in Nat : <<End, s>> \in R => d <= s
    BY <1>2, <1>5 DEF Apart
  <1>9. Reckons(End, d, Rounds)
    <2>1. PICK i \in 1..n : Hop(closed[i], <<End, d>>)
      BY <1>1, <1>2, <1>3 DEF Parents, HasParent
    <2>2. Reckons(closed[i][1], closed[i][2], i - 1)
      BY <1>1, VisitsReckoned
    <2>3. i - 1 \in Nat /\ i - 1 + 1 = i /\ i \in Nat
      BY <1>2
    <2>4. End \in DOMAIN Children(closed[i][1]) /\ d = closed[i][2] + Children(closed[i][1])[End]
      BY <2>1 DEF Hop
    <2>5. Reckons(End, d, i)
      <3>1. Reckons(End, closed[i][2] + Children(closed[i][1])[End], i - 1 + 1)
        BY <1>2, <2>2, <2>3, <2>4, ReckonsHop
      <3> QED BY <2>3, <2>4, <3>1
    <2>6. i <= Rounds
      <3>1. n <= Rounds
        BY <1>1, <1>2, VisitsBounded
      <3> QED BY <1>2, <3>1, RoundsType
    <2> QED BY <2>3, <2>5, <2>6, RoundsType, ReckonsLater
  <1>10. d \in Quickest[End]
    BY <1>2, <1>6, <1>7, <1>8, <1>9, ReckonedIsQuickest
  <1> QED BY <1>1, <1>10

\* At its own beginning a ride takes no time.
LEMMA QuickestAtStart == TypeOK /\ Start \in Id => 0 \in Quickest[Start]
  <1> SUFFICES ASSUME TypeOK, Start \in Id PROVE 0 \in Quickest[Start]
    OBVIOUS
  <1>1. PICK x \in Round[Rounds][Start] : x \in Nat /\ x <= 0
    BY ReckonsStart, RoundsType DEF Reckons
  <1>2. x = 0
    BY <1>1
  <1> QED BY <1>1, <1>2, RoundsAre

\* What is shown next is a shortest way.
AtBest == pc = "display" => path[Len(path)][2] \in Quickest[End]

LEMMA StepBest == MapperInv /\ AtBest /\ [Next]_vars => AtBest'
  <1> SUFFICES ASSUME MapperInv, AtBest, [Next]_vars, pc' = "display"
               PROVE  (path[Len(path)][2] \in Quickest[End])'
    BY DEF AtBest
  <1>1. CASE Arrive
    <2>1. open[End] \in Quickest[End] /\ path'[Len(path')] = <<End, open[End]>>
      <3>1. pc = "search" /\ End \in DOMAIN open /\ Cheapest(End) /\ path' = WalkBack(<<End, open[End]>>)
        BY <1>1 DEF Arrive
      <3>2. TypeOK /\ SearchInv
        BY DEF MapperInv
      <3> QED BY <3>1, <3>2, ArrivesQuickest, WalkBackIsTravel
    <2>2. Quickest' = Quickest /\ End' = End
      BY <1>1 DEF Arrive, Quickest, Improved, Children, Start, End
    <2> QED BY <2>1, <2>2
  <1>2. CASE \E id \in Id : Choose(id)
    <2>1. PICK id \in Id : Choose(id)
      BY <1>2
    <2>2. /\ chosen' = Append(chosen, id) /\ chosen # <<>> /\ chosen[1] = id /\ path' = << <<id, 0>> >>
          /\ chosen \in Seq(Id) /\ Len(chosen) = 1
      BY <2>1 DEF Choose, MapperInv, Unchosen, TypeOK
    <2>3. Start' = id /\ End' = id
      <3>1. PICK s \in Seq(Id) : s = chosen /\ Len(s) = 1
        BY <2>2
      <3>2. \A x \in Id : Append(s, x)[Len(s) + 1] = x /\ \A i \in 1..Len(s) : Append(s, x)[i] = s[i]
        OBVIOUS
      <3>3. 1 \in 1..Len(s) /\ Len(s) + 1 = 2
        BY <3>1
      <3> QED BY <2>1, <2>2, <3>1, <3>2, <3>3 DEF Start, End
    <2>4. TypeOK'
      BY <1>2, StepChoose DEF MapperInv
    <2>5. TypeOK' /\ (Start \in Id)' => (0 \in Quickest[Start])'
      BY QuickestAtStart, PTL
    <2> QED BY <2>2, <2>3, <2>4, <2>5
  <1>3. CASE UNCHANGED vars
    BY <1>3 DEF AtBest, vars, search, Quickest, Improved, Children, Start, End
  <1>4. CASE pc' # "display"
    BY <1>4
  <1> QED
    BY <1>1, <1>2, <1>3
    DEF Next, SetConnections, SetStations, NewSearch, Leave, NotANumber, Again, Expand, Unreachable, Display

\* A search that crashes for want of a way was of two stations without one.
NoWay == pc = "crashed" /\ Len(chosen) = 2 => Quickest[End] = {}

\* With nothing left open, all that can be reached is closed, and End is not.
LEMMA ExhaustedIsNoWay ==
    ASSUME MapperInv, Unreachable
    PROVE  Quickest[End] = {}
  <1>1. /\ TypeOK /\ DOMAIN open = {} /\ Len(chosen) = 2
        /\ Apart /\ FromStart /\ Relaxed
    BY DEF MapperInv, SearchInv, Unreachable
  <1>2. closed[1] = <<Start, 0>> /\ Start \in ClosedIds
    <2>1. closed # <<>> /\ closed[1] = <<Start, 0>>
      BY <1>1 DEF FromStart
    <2>2. 1 \in DOMAIN closed
      BY <1>1, <2>1 DEF TypeOK
    <2> QED BY <2>1, <2>2 DEF ClosedIds
  <1>3. ASSUME NEW u \in ClosedIds, NEW v \in DOMAIN Children(u) PROVE v \in ClosedIds
    <2>1. PICK i \in 1..Len(closed) : u = closed[i][1]
      BY <1>1, SearchType
    <2>2. Known(v, closed[i][2] + Children(closed[i][1])[v])
      BY <1>1, <1>3, <2>1 DEF Relaxed
    <2> QED BY <1>1, <2>2, SearchType DEF Known
  <1> DEFINE R == {s \in Stop : s[1] \in ClosedIds}
  <1>4. <<Start, 0>> \in R
    BY <1>1, <1>2, SearchType DEF Stop
  <1>5. ASSUME NEW u \in Id, NEW t \in Nat, NEW v \in DOMAIN Children(u), <<u, t>> \in R
        PROVE  <<v, t + Children(u)[v]>> \in R
    <2>1. v \in Id /\ Children(u)[v] \in Nat /\ v \in ClosedIds
      BY <1>1, <1>3, <1>5, SearchType
    <2> QED BY <2>1 DEF Stop
  <1>6. End \in Id /\ End \notin ClosedIds
    BY <1>1 DEF TypeOK, Apart, End
  <1>7. \A t \in Round[Rounds][End] : <<End, t>> \in R
    <2> HIDE DEF R
    <2>1. Rounds \in 0..Rounds
      BY RoundsType
    <2> QED BY <1>1, <1>4, <1>5, <1>6, <2>1, RoundsWithin
  <1>8. Quickest = Round[Rounds]
    BY <1>1, RoundsAre
  <1> QED BY <1>6, <1>7, <1>8

LEMMA StepNoWay == MapperInv /\ NoWay /\ [Next]_vars => NoWay'
  <1> SUFFICES ASSUME MapperInv, NoWay, [Next]_vars, pc' = "crashed", Len(chosen') = 2
               PROVE  (Quickest[End] = {})'
    BY DEF NoWay
  <1>1. CASE Unreachable
    <2>1. Quickest[End] = {}
      BY <1>1, ExhaustedIsNoWay
    <2>2. Quickest' = Quickest /\ End' = End
      BY <1>1 DEF Unreachable, Quickest, Improved, Children, Start, End
    <2> QED BY <2>1, <2>2
  <1>2. CASE SetConnections \/ SetStations
    <2>1. chosen = <<>> /\ chosen' = chosen
      BY <1>2 DEF SetConnections, SetStations, MapperInv, Unchosen
    <2> QED BY <2>1
  <1>3. CASE UNCHANGED vars
    <2>1. Quickest' = Quickest /\ End' = End
      BY <1>3 DEF vars, search, Quickest, Improved, Children, Start, End
    <2>2. pc = "crashed" /\ Len(chosen) = 2
      BY <1>3 DEF vars
    <2> QED BY <2>1, <2>2 DEF NoWay
  <1> QED
    BY <1>1, <1>2, <1>3
    DEF Next, NewSearch, Leave, NotANumber, Again, Choose, Expand, Arrive, Display

(* The way printed is a shortest ride from the first station chosen to the  *)
(* second, hop by hop: at most as long as any other, whatever the tables.   *)
(* And wherever there is a way, one is found.                               *)
THEOREM TravelIsShortest == Spec => []ShortestTravel
  <1>1. Init => AtBest /\ NoWay
    BY DEF Init, AtBest, NoWay
  <1>2. MapperInv /\ AtBest /\ NoWay => ShortestTravel
    <2> SUFFICES ASSUME MapperInv, AtBest, NoWay, pc = "display" PROVE ShortestTravel
      BY DEF ShortestTravel, NoWay
    <2>1. IsTravel /\ path \in Seq(Stop) /\ path # <<>>
      BY DEF MapperInv, Travelled, TypeOK
    <2> DEFINE times == [i \in DOMAIN path |-> path[i][2]]
    <2>2. /\ DOMAIN path = 1..Len(path) /\ Len(path) \in Nat \ {0} /\ DOMAIN times = 1..Len(path)
          /\ Len(times) = Len(path) /\ \A i \in 1..Len(path) : times[i] = path[i][2]
      BY <2>1
    <2>3. Last(times) \in Quickest[End]
      <3>1. Last(times) = path[Len(path)][2]
        BY <2>2 DEF Last
      <3> QED BY <3>1 DEF AtBest
    <2>4. \A i \in 1..Len(path) - 1 :
             /\ path[i + 1][1] \in DOMAIN Children(path[i][1])
             /\ times[i + 1] = times[i] + Children(path[i][1])[path[i + 1][1]]
      BY <2>1, <2>2 DEF IsTravel, Hop
    <2> QED BY <2>1, <2>3, <2>4 DEF IsTravel, ShortestTravel
  <1> QED BY <1>1, <1>2, StepBest, StepNoWay, MapperInvariant, PTL DEF Spec

-----------------------------------------------------------------------------
(* What is printed.                                                         *)

\* A time as it is said: seconds, minutes with seconds, or hours with both.
Spoken == {t \in Seq(Int) : Len(t) \in 1..3}

Legs == [kind : {"take", "ride", "walk"}, at : Id, time : Spoken]

LEMMA SpokenIs ==
    /\ \A a \in Int : <<a>> \in Spoken /\ Seconds(<<a>>) = a
    /\ \A a, b \in Int : <<a, b>> \in Spoken /\ Seconds(<<a, b>>) = 60 * a + b
    /\ \A a, b, c \in Int : <<a, b, c>> \in Spoken /\ Seconds(<<a, b, c>>) = 3600 * a + 60 * b + c
  BY DEF Spoken, Seconds

LEMMA SecondsType ==
    ASSUME NEW t \in Spoken
    PROVE  Seconds(t) \in Int
  <1>1. t \in Seq(Int) /\ Len(t) \in 1..3
    BY DEF Spoken
  <1>2. \A i \in 1..Len(t) : t[i] \in Int
    BY <1>1
  <1>3. CASE Len(t) = 1
    BY <1>2, <1>3 DEF Seconds
  <1>4. CASE Len(t) = 2
    <2>1. t[1] \in Int /\ t[2] \in Int
      BY <1>2, <1>4
    <2> QED BY <1>4, <2>1 DEF Seconds
  <1>5. CASE Len(t) = 3
    <2>1. t[1] \in Int /\ t[2] \in Int /\ t[3] \in Int
      BY <1>2, <1>5
    <2> QED BY <1>5, <2>1 DEF Seconds
  <1> QED BY <1>1, <1>3, <1>4, <1>5

LEMMA HmsType ==
    ASSUME NEW t \in Int
    PROVE  Hms(t) \in Spoken
  <1>1. \A a \in Int, n \in {60, 3600} : a \div n \in Int /\ a % n \in Int
    OBVIOUS
  <1>2. CASE t < 60
    BY <1>2, SpokenIs DEF Hms
  <1>3. CASE t >= 60 /\ t < 3600
    BY <1>1, <1>3, SpokenIs DEF Hms
  <1>4. CASE t >= 3600
    BY <1>1, <1>4, SpokenIs DEF Hms
  <1> QED BY <1>2, <1>3, <1>4

\* What is said of a time gives it back.
LEMMA HmsTells ==
    ASSUME NEW t \in Nat
    PROVE  Seconds(Hms(t)) = t
  <1>1. CASE t < 60
    BY <1>1, SpokenIs DEF Hms
  <1>2. CASE t >= 60 /\ t < 3600
    <2>1. t \div 60 \in Int /\ t % 60 \in Int /\ 60 * (t \div 60) + (t % 60) = t
      OBVIOUS
    <2>2. Hms(t) = <<t \div 60, t % 60>>
      BY <1>2 DEF Hms
    <2> QED BY <2>1, <2>2, SpokenIs
  <1>3. CASE t >= 3600
    <2> DEFINE r == t % 3600
    <2>1. t \div 3600 \in Int /\ r \in Nat /\ 3600 * (t \div 3600) + r = t
      OBVIOUS
    <2>2. Hms(t) = <<t \div 3600, r \div 60, r % 60>>
      BY <1>3 DEF Hms
    <2> HIDE DEF r
    <2>3. r \div 60 \in Int /\ r % 60 \in Int /\ 60 * (r \div 60) + (r % 60) = r
      BY <2>1
    <2>4. Seconds(Hms(t)) = 3600 * (t \div 3600) + 60 * (r \div 60) + (r % 60)
      BY <2>1, <2>2, <2>3, SpokenIs
    <2> QED BY <2>1, <2>3, <2>4
  <1> QED BY <1>1, <1>2, <1>3

IsSum(f, said) == f = [i \in 0..Len(said) |-> IF i = 0 THEN 0 ELSE f[i - 1] + Seconds(said[i].time)]

Reckoned(said) == CHOOSE f : IsSum(f, said)

LEMMA SumIs ==
    ASSUME NEW said \in Seq(Legs)
    PROVE  /\ Reckoned(said)[0] = 0 /\ Spent(said) = Reckoned(said)[Len(said)]
           /\ \A i \in 1..Len(said) : Reckoned(said)[i] = Reckoned(said)[i - 1] + Seconds(said[i].time)
  <1>1. PICK n \in Nat, T \in {Int} : n = Len(said)
    OBVIOUS
  <1> DEFINE step == [x \in (1..n) \X T |-> x[2] + Seconds(said[x[1]].time)]
  <1>2. \A i \in 1..n : Seconds(said[i].time) \in Int
    <2>1. \A i \in 1..n : said[i] \in Legs
      BY <1>1
    <2> QED BY <2>1, SecondsType DEF Legs
  <1>3. step \in [(1..n) \X T -> T] /\ 0 \in T
    BY <1>1, <1>2
  <1>4. PICK f \in [0..n -> T] : IsRecursion(f, n, 0, step)
    <2> HIDE DEF step
    <2> QED BY <1>3, Recursion
  <1>5. \A i \in 0..n : i # 0 => step[i, f[i - 1]] = f[i - 1] + Seconds(said[i].time)
    <2>1. \A i \in 0..n : i # 0 => i - 1 \in 0..n /\ i \in 1..n
      OBVIOUS
    <2>2. \A i \in 0..n : i # 0 => <<i, f[i - 1]>> \in (1..n) \X T
      BY <1>4, <2>1
    <2> QED BY <2>2
  <1>6. IsSum(f, said)
    <2> HIDE DEF step
    <2> QED BY <1>1, <1>4, <1>5 DEF IsRecursion, IsSum
  <1>7. IsSum(Reckoned(said), said)
    BY <1>6 DEF Reckoned
  <1>8. Spent(said) = Reckoned(said)[Len(said)]
    BY Zenon DEF Spent, Reckoned, IsSum
  <1>9. \A i \in 0..n : Reckoned(said)[i] = IF i = 0 THEN 0 ELSE Reckoned(said)[i - 1] + Seconds(said[i].time)
    BY <1>1, <1>7 DEF IsSum
  <1> QED BY <1>1, <1>8, <1>9

LEMMA SpentNothing == Spent(<<>>) = 0
  <1>1. <<>> \in Seq(Legs) /\ Len(<<>>) = 0
    OBVIOUS
  <1> QED BY <1>1, SumIs

\* A sequence with one more at its end.
LEMMA OneMore ==
    ASSUME NEW T, NEW s \in Seq(T), NEW x \in T
    PROVE  /\ s \o <<x>> \in Seq(T) /\ Len(s) \in Nat /\ Len(s \o <<x>>) = Len(s) + 1
           /\ (s \o <<x>>)[Len(s) + 1] = x
           /\ \A i \in 1..Len(s) : (s \o <<x>>)[i] = s[i]
  OBVIOUS

LEMMA SpentMore ==
    ASSUME NEW said \in Seq(Legs), NEW x \in Legs
    PROVE  Spent(said \o <<x>>) = Spent(said) + Seconds(x.time)
  <1>1. PICK n, more : n = Len(said) /\ more = said \o <<x>>
    OBVIOUS
  <1>2. /\ more \in Seq(Legs) /\ n \in Nat /\ Len(more) = n + 1 /\ more[n + 1] = x
        /\ \A i \in 1..n : more[i] = said[i]
    BY <1>1, OneMore
  <1>3. /\ Reckoned(said)[0] = 0 /\ Spent(said) = Reckoned(said)[n]
        /\ \A i \in 1..n : Reckoned(said)[i] = Reckoned(said)[i - 1] + Seconds(said[i].time)
    BY <1>1, SumIs
  <1>4. /\ Reckoned(more)[0] = 0 /\ Spent(more) = Reckoned(more)[n + 1]
        /\ \A i \in 1..n + 1 : Reckoned(more)[i] = Reckoned(more)[i - 1] + Seconds(more[i].time)
    BY <1>2, SumIs
  <1>5. Alike(Reckoned(said), Reckoned(more), n)
    <2>1. \A i \in 1..n : i \in 1..n + 1
      BY <1>2
    <2> QED BY <1>2, <1>3, <1>4, <2>1 DEF Alike
  <1>6. Reckoned(said)[n] = Reckoned(more)[n]
    <2>1. n \in 0..n
      BY <1>2
    <2> QED BY <1>2, <1>5, <2>1, SameRecursion
  <1>7. PICK m \in 1..n + 1 : m = n + 1 /\ m - 1 = n
    BY <1>2
  <1>8. Reckoned(more)[m] = Reckoned(more)[m - 1] + Seconds(more[m].time)
    BY <1>4
  <1> QED BY <1>1, <1>2, <1>3, <1>4, <1>6, <1>7, <1>8

-----------------------------------------------------------------------------
(* The directions.                                                          *)

NameOf(id) == StationOf(id).name

LineOf(p) == StationOf(p[1]).line

\* "take the line here"
Taken(id) == [kind |-> "take", at |-> id, time |-> <<0>>]

\* A ride that ends what is said so far may follow it.
MayRide(said, id) == NameOf(id) # NameOf(End) => said # <<>> /\ said[Len(said)] = Taken(id)

\* What is said adds up to t, and no ride goes without its line.
Fair(said, t) ==
    /\ said \in Seq(Legs) /\ Spent(said) = t
    /\ \A i \in 1..Len(said) :
          said[i].kind = "ride" /\ NameOf(said[i].at) # NameOf(End) => i > 1 /\ said[i - 1] = Taken(said[i].at)

LEMMA FairMore ==
    ASSUME NEW said, NEW t \in Nat, Fair(said, t), NEW x \in Legs, x.kind = "ride" => MayRide(said, x.at)
    PROVE  Fair(said \o <<x>>, t + Seconds(x.time))
  <1>1. PICK n, more : n = Len(said) /\ more = said \o <<x>>
    OBVIOUS
  <1>2. /\ more \in Seq(Legs) /\ n \in Nat /\ Len(more) = n + 1 /\ more[n + 1] = x
        /\ \A i \in 1..n : more[i] = said[i]
    BY <1>1, OneMore DEF Fair
  <1>3. Spent(more) = t + Seconds(x.time)
    BY <1>1, SpentMore DEF Fair
  <1>4. ASSUME NEW i \in 1..n + 1, more[i].kind = "ride", NameOf(more[i].at) # NameOf(End)
        PROVE  i > 1 /\ more[i - 1] = Taken(more[i].at)
    <2>1. CASE i \in 1..n
      <3>1. i > 1 /\ said[i - 1] = Taken(said[i].at)
        BY <1>1, <1>2, <1>4, <2>1 DEF Fair
      <3>2. i - 1 \in 1..n
        BY <1>2, <2>1, <3>1
      <3> QED BY <1>2, <2>1, <3>1, <3>2
    <2>2. CASE i = n + 1
      <3>1. said # <<>> /\ said[n] = Taken(x.at)
        BY <1>1, <1>2, <1>4, <2>2 DEF MayRide
      <3>2. n \in 1..n /\ i - 1 = n /\ i > 1
        BY <1>1, <1>2, <2>2, <3>1 DEF Fair
      <3> QED BY <1>2, <2>2, <3>1, <3>2
    <2> QED BY <1>2, <2>1, <2>2
  <1> QED BY <1>1, <1>2, <1>3, <1>4 DEF Fair

LEMMA FairNoMore ==
    ASSUME NEW said, NEW t, Fair(said, t)
    PROVE  Fair(said \o <<>>, t)
  <1>1. said \o <<>> = said
    BY DEF Fair
  <1> QED BY <1>1

\* A leg is said with its time, and not said when it takes none.
LEMMA FairLeg ==
    ASSUME NEW said, NEW p \in Stop, NEW q \in Stop, p[2] <= q[2], NEW t \in Nat, Fair(said, t),
           NEW kind \in {"ride", "walk"}, kind = "ride" /\ p[2] # q[2] => MayRide(said, p[1])
    PROVE  Fair(said \o Leg(kind, p, q), t + (q[2] - p[2]))
  <1>1. p[1] \in Id /\ p[2] \in Nat /\ q[2] \in Nat
    BY DEF Stop
  <1>2. CASE p[2] = q[2]
    BY <1>1, <1>2, FairNoMore DEF Leg
  <1>3. CASE p[2] # q[2]
    <2> DEFINE x == [kind |-> kind, at |-> p[1], time |-> Hms(q[2] - p[2])]
    <2>1. q[2] - p[2] \in Nat /\ q[2] - p[2] \in Int
      BY <1>1
    <2>2. x \in Legs /\ Seconds(x.time) = q[2] - p[2] /\ x.kind = kind /\ x.at = p[1]
      BY <1>1, <2>1, HmsType, HmsTells DEF Legs
    <2>3. Leg(kind, p, q) = <<x>>
      BY <1>3 DEF Leg
    <2> HIDE DEF x
    <2> QED BY <1>3, <2>2, <2>3, FairMore
  <1> QED BY <1>2, <1>3

\* The line taken is said where the next stop is on the same one.
LEMMA FairTake ==
    ASSUME NEW said, NEW p \in Stop, NEW q, NEW t \in Nat, Fair(said, t)
    PROVE  /\ Fair(said \o Take(p, q), t)
           /\ LineOf(p) = LineOf(q) => MayRide(said \o Take(p, q), p[1])
  <1>1. CASE LineOf(p) # LineOf(q)
    BY <1>1, FairNoMore DEF Take, LineOf
  <1>2. CASE LineOf(p) = LineOf(q)
    <2>1. Take(p, q) = <<Taken(p[1])>>
      BY <1>2 DEF Take, LineOf, Taken
    <2>2. Taken(p[1]) \in Legs /\ Seconds(Taken(p[1]).time) = 0 /\ Taken(p[1]).kind # "ride"
      <3>1. <<0>> \in Spoken /\ Seconds(<<0>>) = 0
        BY SpokenIs
      <3>2. p[1] \in Id
        BY DEF Stop
      <3>3. Taken(p[1]).time = <<0>> /\ Taken(p[1]).kind = "take"
        BY DEF Taken
      <3>4. Taken(p[1]) \in Legs
        BY <3>1, <3>2 DEF Taken, Legs
      <3> QED BY <3>1, <3>3, <3>4
    <2> DEFINE x == Taken(p[1])
    <2> HIDE DEF x
    <2>3. Fair(said \o <<x>>, t + 0)
      BY <2>2, FairMore DEF x
    <2>4. /\ said \o <<x>> # <<>> /\ (said \o <<x>>)[Len(said \o <<x>>)] = x
      <3>1. said \in Seq(Legs) /\ x \in Legs
        BY <2>2 DEF Fair, x
      <3> QED BY <3>1, OneMore
    <2> QED BY <2>1, <2>3, <2>4 DEF MayRide, x
  <1> QED BY <1>1, <1>2

\* What the loop carries from stop to stop.
Telling == [line : {StationOf(id).line : id \in Id}, same : Stop, curr : Stop, said : Seq(Legs)]

LEMMA LegType ==
    ASSUME NEW p \in Stop, NEW q \in Stop, NEW kind \in {"ride", "walk"}
    PROVE  Leg(kind, p, q) \in Seq(Legs)
  <1>1. p[1] \in Id /\ q[2] - p[2] \in Int
    BY DEF Stop
  <1>2. Hms(q[2] - p[2]) \in Spoken
    BY <1>1, HmsType
  <1>3. [kind |-> kind, at |-> p[1], time |-> Hms(q[2] - p[2])] \in Legs
    BY <1>1, <1>2 DEF Legs
  <1> QED BY <1>3 DEF Leg

LEMMA TakeType ==
    ASSUME NEW p \in Stop, NEW q
    PROVE  Take(p, q) \in Seq(Legs)
  <1>1. p[1] \in Id /\ <<0>> \in Spoken
    BY SpokenIs DEF Stop
  <1>2. [kind |-> "take", at |-> p[1], time |-> <<0>>] \in Legs
    BY <1>1 DEF Legs
  <1> QED BY <1>2 DEF Take

LEMMA AtStationType ==
    ASSUME NEW d \in Telling, NEW i, path[i] \in Stop
    PROVE  AtStation(d, i) \in Telling
  <1>1. path[i][1] \in Id /\ StationOf(path[i][1]).line \in {StationOf(id).line : id \in Id}
    BY DEF Stop
  <1>2. d.same \in Stop /\ d.curr \in Stop /\ d.said \in Seq(Legs)
    BY DEF Telling
  <1>3. CASE StationOf(path[i][1]).line = d.line
    BY <1>3 DEF AtStation, Telling
  <1>4. CASE StationOf(path[i][1]).line # d.line
    <2> DEFINE rest == IF StationOf(path[i][1]).name = StationOf(End).name THEN <<>> ELSE Take(path[i], path[i + 1])
               said == d.said \o Leg("ride", d.same, d.curr) \o Leg("walk", d.curr, path[i]) \o rest
    <2>1. rest \in Seq(Legs)
      BY TakeType
    <2>2. Leg("ride", d.same, d.curr) \in Seq(Legs) /\ Leg("walk", d.curr, path[i]) \in Seq(Legs)
      BY <1>2, LegType
    <2> HIDE DEF rest
    <2>3. said \in Seq(Legs)
      BY <1>2, <2>1, <2>2
    <2>4. AtStation(d, i) = [line |-> StationOf(path[i][1]).line, same |-> path[i], curr |-> path[i], said |-> said]
      BY <1>4 DEF AtStation, rest
    <2> HIDE DEF said
    <2> QED BY <1>1, <2>3, <2>4 DEF Telling
  <1> QED BY <1>3, <1>4

IsTold(told) == told = [i \in 0..Len(path) |-> IF i = 0 THEN AtStart ELSE AtStation(told[i - 1], i)]

Told == CHOOSE told : IsTold(told)

LEMMA ToldIs ==
    ASSUME TypeOK, IsTravel, path # <<>>
    PROVE  /\ Told[0] = AtStart /\ \A i \in 1..Len(path) : Told[i] = AtStation(Told[i - 1], i)
           /\ Directions = Told[Len(path)].said
                           \o Leg("ride", Told[Len(path)].same, Told[Len(path)].curr)
  <1>1. PICK n \in Nat : n = Len(path)
    BY DEF TypeOK
  <1>2. \A i \in 1..n : path[i] \in Stop
    BY <1>1 DEF TypeOK
  <1>3. AtStart \in Telling
    <2>1. path[1] \in Stop /\ Start \in Id
      BY <1>1, <1>2 DEF IsTravel, TypeOK, Stop
    <2>2. Take(path[1], path[2]) \in Seq(Legs)
      BY <2>1, TakeType
    <2> QED BY <2>1, <2>2 DEF AtStart, Telling
  <1> DEFINE step == [x \in (1..n) \X Telling |-> AtStation(x[2], x[1])]
  <1>4. step \in [(1..n) \X Telling -> Telling]
    <2>1. \A x \in (1..n) \X Telling : AtStation(x[2], x[1]) \in Telling
      BY <1>2, AtStationType
    <2> QED BY <2>1
  <1>5. PICK f \in [0..n -> Telling] : IsRecursion(f, n, AtStart, step)
    <2> HIDE DEF step
    <2> QED BY <1>3, <1>4, Recursion
  <1>6. \A i \in 0..n : i # 0 => step[i, f[i - 1]] = AtStation(f[i - 1], i)
    <2>1. \A i \in 0..n : i # 0 => i - 1 \in 0..n /\ i \in 1..n
      OBVIOUS
    <2>2. \A i \in 0..n : i # 0 => <<i, f[i - 1]>> \in (1..n) \X Telling
      BY <1>5, <2>1
    <2> QED BY <2>2
  <1>7. IsTold(f)
    <2> HIDE DEF step
    <2> QED BY <1>1, <1>5, <1>6 DEF IsRecursion, IsTold
  <1>8. IsTold(Told)
    BY <1>7 DEF Told
  <1>9. \A i \in 0..n : Told[i] = IF i = 0 THEN AtStart ELSE AtStation(Told[i - 1], i)
    BY <1>1, <1>8 DEF IsTold
  <1>10. Directions = Told[Len(path)].said \o Leg("ride", Told[Len(path)].same, Told[Len(path)].curr)
    BY Zenon DEF Directions, Told, IsTold
  <1> QED BY <1>1, <1>9, <1>10

\* What is said before stop m of the way: everything up to stop j, where the
\* line was taken that goes on to stop m.
Tells(d, m) ==
    /\ d.curr = path[m]
    /\ \E j \in 1..m :
          /\ d.same = path[j] /\ d.line = LineOf(path[j])
          /\ Fair(d.said, path[j][2]) /\ path[j][2] <= path[m][2]
          /\ j < m => LineOf(path[j + 1]) = LineOf(path[j])
          /\ j < Len(path) /\ LineOf(path[j + 1]) = LineOf(path[j]) => MayRide(d.said, path[j][1])

\* The stops of a way, in plain terms.
LEMMA TravelStops ==
    ASSUME TypeOK, IsTravel, path # <<>>
    PROVE  /\ Len(path) \in Nat \ {0} /\ path[1] = <<Start, 0>> /\ path[Len(path)][1] = End
           /\ \A i \in 1..Len(path) : path[i] \in Stop /\ path[i][1] \in Id /\ path[i][2] \in Nat
           /\ \A i \in 1..Len(path) - 1 : path[i][2] <= path[i + 1][2]
  <1>1. PICK n \in Nat : n = Len(path)
    BY DEF TypeOK
  <1>2. n # 0 /\ \A i \in 1..n : path[i] \in Stop
    BY <1>1 DEF TypeOK
  <1>3. \A i \in 1..n : path[i][1] \in Id /\ path[i][2] \in Nat
    BY <1>2 DEF Stop
  <1>4. ASSUME NEW i \in 1..n - 1 PROVE path[i][2] <= path[i + 1][2]
    <2>1. i \in 1..n /\ i + 1 \in 1..n
      BY <1>1
    <2>2. Hop(path[i], path[i + 1])
      BY <1>1 DEF IsTravel
    <2>3. Children(path[i][1])[path[i + 1][1]] \in Nat
      BY <1>3, <2>1, <2>2, SearchType DEF Hop
    <2> QED BY <1>3, <2>1, <2>2, <2>3 DEF Hop
  <1> QED BY <1>1, <1>2, <1>3, <1>4 DEF IsTravel

\* A ride may be said as soon as it leads anywhere.
LEMMA TellsRide ==
    ASSUME TypeOK, IsTravel, path # <<>>, NEW d, NEW m \in 1..Len(path), Tells(d, m)
    PROVE  Fair(d.said \o Leg("ride", d.same, d.curr), path[m][2])
  <1>1. PICK j \in 1..m :
           /\ d.same = path[j] /\ Fair(d.said, path[j][2]) /\ path[j][2] <= path[m][2]
           /\ j < m => LineOf(path[j + 1]) = LineOf(path[j])
           /\ j < Len(path) /\ LineOf(path[j + 1]) = LineOf(path[j]) => MayRide(d.said, path[j][1])
    BY DEF Tells
  <1>2. /\ d.curr = path[m] /\ j \in 1..Len(path) /\ path[j] \in Stop /\ path[m] \in Stop
        /\ path[j][2] \in Nat /\ path[m][2] \in Nat
    BY TravelStops DEF Tells
  <1>3. path[j][2] # path[m][2] => MayRide(d.said, path[j][1])
    <2>1. path[j][2] # path[m][2] => j < m /\ j < Len(path)
      BY TravelStops
    <2> QED BY <1>1, <2>1
  <1>4. Fair(d.said \o Leg("ride", path[j], path[m]), path[j][2] + (path[m][2] - path[j][2]))
    BY <1>1, <1>2, <1>3, FairLeg
  <1>5. path[j][2] + (path[m][2] - path[j][2]) = path[m][2]
    BY <1>2
  <1> QED BY <1>1, <1>2, <1>4, <1>5

\* On the same line nothing is said.
LEMMA TellsSameLine ==
    ASSUME TypeOK, IsTravel, path # <<>>, NEW d \in Telling, NEW m \in 1..Len(path), NEW i \in 1..Len(path),
           Tells(d, m), i = m \/ i = m + 1, LineOf(path[i]) = d.line
    PROVE  Tells(AtStation(d, i), i)
  <1>1. PICK j \in 1..m :
           /\ d.same = path[j] /\ d.line = LineOf(path[j])
           /\ Fair(d.said, path[j][2]) /\ path[j][2] <= path[m][2]
           /\ j < m => LineOf(path[j + 1]) = LineOf(path[j])
           /\ j < Len(path) /\ LineOf(path[j + 1]) = LineOf(path[j]) => MayRide(d.said, path[j][1])
    BY DEF Tells
  <1> DEFINE e == AtStation(d, i)
  <1>2. e.curr = path[i] /\ e.same = d.same /\ e.line = d.line /\ e.said = d.said
    BY DEF AtStation, LineOf, Telling
  <1> HIDE DEF e
  <1>3. j \in 1..i /\ path[j][2] <= path[i][2]
    <2>1. i = m + 1 => m \in 1..Len(path) - 1
      BY TravelStops
    <2>2. path[m][2] <= path[i][2] /\ path[m][2] \in Nat /\ path[i][2] \in Nat /\ path[j][2] \in Nat
      BY <2>1, TravelStops
    <2> QED BY <1>1, <2>2
  <1>4. j < i => LineOf(path[j + 1]) = LineOf(path[j])
    BY <1>1
  <1>5. Tells(e, i)
    BY <1>1, <1>2, <1>3, <1>4 DEF Tells
  <1> QED BY <1>5 DEF e

\* On another line the ride, the walk and the line taken are said.
LEMMA TellsOtherLine ==
    ASSUME TypeOK, IsTravel, path # <<>>, NEW d \in Telling, NEW m \in 1..Len(path) - 1,
           Tells(d, m), LineOf(path[m + 1]) # d.line
    PROVE  Tells(AtStation(d, m + 1), m + 1)
  <1> DEFINE i == m + 1
             p == path[i]
             e == AtStation(d, i)
             ridden == d.said \o Leg("ride", d.same, d.curr)
             walked == ridden \o Leg("walk", d.curr, p)
             arrived == StationOf(p[1]).name = StationOf(End).name
  <1>1. /\ i \in 1..Len(path) /\ m \in 1..Len(path) /\ i - 1 = m
        /\ p \in Stop /\ path[m] \in Stop /\ p[2] \in Nat /\ path[m][2] \in Nat /\ path[m][2] <= p[2]
    BY TravelStops
  <1>2. d.curr = path[m] /\ Fair(ridden, path[m][2])
    BY <1>1, TellsRide DEF Tells
  <1> HIDE DEF ridden
  <1>3. Fair(walked, p[2])
    <2>1. Fair(walked, path[m][2] + (p[2] - path[m][2]))
      <3> HIDE DEF p, i
      <3> QED BY <1>1, <1>2, FairLeg
    <2> QED BY <1>1, <2>1
  <1> HIDE DEF walked
  <1>4. /\ e.line = LineOf(p) /\ e.same = p /\ e.curr = p
        /\ e.said = walked \o IF arrived THEN <<>> ELSE Take(p, path[i + 1])
    BY DEF AtStation, LineOf, walked, ridden
  <1>5. Fair(e.said, p[2]) /\ (LineOf(path[i + 1]) = LineOf(p) => MayRide(e.said, p[1]))
    <2>1. CASE arrived
      <3>1. Fair(e.said, p[2])
        BY <1>3, <1>4, <2>1, FairNoMore
      <3> QED BY <2>1, <3>1 DEF MayRide, NameOf
    <2>2. CASE ~arrived
      <3>1. e.said = walked \o Take(p, path[i + 1])
        BY <1>4, <2>2
      <3> HIDE DEF e, p, i
      <3> QED BY <1>1, <1>3, <3>1, FairTake
    <2> QED BY <2>1, <2>2
  <1> HIDE DEF e
  <1>6. Tells(e, i)
    <2>1. i \in 1..i /\ ~(i < i)
      BY <1>1
    <2> HIDE DEF i
    <2> QED BY <1>1, <1>4, <1>5, <2>1 DEF Tells
  <1> QED BY <1>6 DEF e

LEMMA TellsAtStart ==
    ASSUME TypeOK, IsTravel, path # <<>>
    PROVE  AtStart \in Telling /\ Tells(AtStart, 1)
  <1>1. /\ path[1] = <<Start, 0>> /\ path[1] \in Stop /\ Start \in Id /\ path[1][1] = Start /\ path[1][2] = 0
        /\ 1 \in 1..1
    BY TravelStops
  <1> DEFINE took == Take(path[1], path[2])
  <1>2. took \in Seq(Legs) /\ <<>> \o took = took
    <2>1. took \in Seq(Legs)
      BY <1>1, TakeType
    <2> HIDE DEF took
    <2> QED BY <2>1
  <1>3. Fair(<<>>, 0)
    <2>1. <<>> \in Seq(Legs) /\ 1..Len(<<>>) = {}
      OBVIOUS
    <2> QED BY <2>1, SpentNothing DEF Fair
  <1>4. Fair(<<>> \o took, 0) /\ (LineOf(path[1]) = LineOf(path[2]) => MayRide(<<>> \o took, path[1][1]))
    BY <1>1, <1>3, FairTake
  <1> HIDE DEF took
  <1>5. AtStart = [line |-> LineOf(path[1]), same |-> path[1], curr |-> path[1], said |-> took]
    BY <1>1 DEF AtStart, LineOf, took
  <1>6. AtStart \in Telling
    BY <1>1, <1>2, <1>5 DEF Telling, LineOf
  <1>7. Tells(AtStart, 1)
    <2>1. AtStart.curr = path[1] /\ AtStart.same = path[1] /\ AtStart.line = LineOf(path[1]) /\ AtStart.said = took
      BY <1>5
    <2>2. Fair(AtStart.said, path[1][2]) /\ path[1][2] <= path[1][2]
      BY <1>1, <1>2, <1>4, <2>1
    <2>3. LineOf(path[1 + 1]) = LineOf(path[1]) => MayRide(AtStart.said, path[1][1])
      BY <1>2, <1>4, <2>1
    <2>4. \E j \in 1..1 :
             /\ AtStart.same = path[j] /\ AtStart.line = LineOf(path[j])
             /\ Fair(AtStart.said, path[j][2]) /\ path[j][2] <= path[1][2]
             /\ j < 1 => LineOf(path[j + 1]) = LineOf(path[j])
             /\ j < Len(path) /\ LineOf(path[j + 1]) = LineOf(path[j]) => MayRide(AtStart.said, path[j][1])
      <3>1. ~(1 < 1)
        OBVIOUS
      <3> WITNESS 1 \in 1..1
      <3> QED BY <2>1, <2>2, <2>3, <3>1
    <2> QED BY <2>1, <2>4 DEF Tells
  <1> QED BY <1>6, <1>7

\* The directions tell the whole way.
LEMMA DirectionsFair ==
    ASSUME TypeOK, IsTravel, path # <<>>
    PROVE  Fair(Directions, path[Len(path)][2])
  <1>1. PICK n \in Nat \ {0} : n = Len(path)
    BY TravelStops
  <1> DEFINE At(i) == IF i = 0 THEN 1 ELSE i
             S == {i \in Nat : i <= n => Told[i] \in Telling /\ Tells(Told[i], At(i))}
  <1>2. 0 \in S
    BY ToldIs, TellsAtStart
  <1>3. ASSUME NEW i \in S, i + 1 <= n PROVE Told[i + 1] \in Telling /\ Tells(Told[i + 1], i + 1)
    <2>1. PICK k \in 1..n : k = i + 1 /\ k - 1 = i
      BY <1>3
    <2>2. PICK m \in 1..n : m = At(i) /\ (k = m \/ k = m + 1)
      BY <1>1, <1>3, <2>1
    <2> DEFINE d == Told[i]
    <2>3. d \in Telling /\ Tells(d, m) /\ Told[k] = AtStation(d, k)
      BY <1>1, <1>3, <2>1, <2>2, ToldIs
    <2> HIDE DEF d
    <2>4. AtStation(d, k) \in Telling
      BY <1>1, <2>3, AtStationType, TravelStops
    <2>5. CASE LineOf(path[k]) = d.line
      BY <1>1, <2>1, <2>2, <2>3, <2>4, <2>5, TellsSameLine
    <2>6. CASE LineOf(path[k]) # d.line
      <3>1. k = m + 1 /\ m \in 1..n - 1
        <4>1. CASE k = m
          <5>1. i = 0 /\ m = 1 /\ d = AtStart
            BY <1>1, <1>3, <2>1, <2>2, <4>1, ToldIs DEF d
          <5>2. d.line = LineOf(path[1])
            BY <5>1, TravelStops DEF AtStart, LineOf
          <5> QED BY <2>6, <4>1, <5>1, <5>2
        <4>2. CASE k = m + 1
          BY <2>1, <4>2
        <4> QED BY <2>2, <4>1, <4>2
      <3> QED BY <1>1, <2>1, <2>3, <2>4, <2>6, <3>1, TellsOtherLine
    <2> QED BY <2>5, <2>6
  <1>4. S = Nat
    <2>1. \A i \in S : i + 1 \in S
      BY <1>3
    <2> HIDE DEF S
    <2> QED BY <1>2, <2>1, SetInduction DEF S
  <1>5. Tells(Told[n], n) /\ n \in 1..Len(path)
    BY <1>1, <1>4
  <1> QED BY <1>1, <1>5, TellsRide, ToldIs

LEMMA StepDirections == MapperInv /\ DirectionsComplete /\ [Next]_vars => DirectionsComplete'
  <1> SUFFICES ASSUME MapperInv, DirectionsComplete, [Next]_vars, pc' = "menu", Len(path') > 1
               PROVE  DirectionsComplete'
    BY DEF DirectionsComplete
  <1>1. CASE Display
    <2>1. /\ pc = "display" /\ path' = path /\ chosen' = chosen
          /\ \E stray \in Id : legs' = IF Len(path) = 1 THEN Take(path[1], <<stray, 0>>) ELSE Directions
      BY <1>1 DEF Display
    <2>2. legs' = Directions
      <3>1. path \in Seq(Stop)
        BY DEF MapperInv, TypeOK
      <3>2. PICK n \in Nat : n = Len(path) /\ n > 1
        BY <2>1, <3>1
      <3>3. n # 1
        BY <3>2
      <3> QED BY <2>1, <3>2, <3>3
    <2>3. TypeOK /\ IsTravel /\ path # <<>>
      BY <2>1 DEF MapperInv, Travelled
    <2>4. PICK said : said = Directions
      OBVIOUS
    <2>5. Fair(said, path[Len(path)][2]) /\ legs' = said
      BY <2>2, <2>3, <2>4, DirectionsFair
    <2>6. End' = End
      BY <2>1 DEF End
    <2>7. DOMAIN said = 1..Len(said) /\ Spent(said) = Last(path)[2]
      BY <2>5 DEF Fair, Last
    <2>8. \A i \in 1..Len(said) :
             said[i].kind = "ride" /\ StationOf(said[i].at).name # StationOf(End).name
             => i > 1 /\ said[i - 1] = [kind |-> "take", at |-> said[i].at, time |-> <<0>>]
      BY <2>5 DEF Fair, NameOf, Taken
    <2>9. \A i \in 1..Len(said) :
             said[i].kind = "ride" /\ StationOf(said[i].at)'.name # StationOf(End)'.name
             => i > 1 /\ said[i - 1] = [kind |-> "take", at |-> said[i].at, time |-> <<0>>]
      BY <1>1, <2>8 DEF Display, StationOf, End
    <2> QED BY <2>1, <2>5, <2>6, <2>7, <2>9 DEF DirectionsComplete
  <1>2. CASE SetStations
    BY <1>2 DEF SetStations, MapperInv, Unchosen
  <1>3. CASE UNCHANGED vars
    BY <1>3 DEF vars, search, DirectionsComplete, StationOf, End
  <1> QED
    BY <1>1, <1>2, <1>3
    DEF Next, SetConnections, NewSearch, Leave, NotANumber, Again, Choose, Expand, Arrive, Unreachable

(* The directions printed for a way tell the whole of it: their times add   *)
(* up to the total, and no ride goes without the line that is taken for it, *)
(* whatever the stations' names and lines.                                  *)
THEOREM DirectionsTellAll == Spec => []DirectionsComplete
  <1>1. Init => DirectionsComplete
    BY DEF Init, DirectionsComplete
  <1> QED BY <1>1, StepDirections, MapperInvariant, PTL DEF Spec

=============================================================================

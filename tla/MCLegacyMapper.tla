---------------------------- MODULE MCLegacyMapper ----------------------------
(***************************************************************************)
(* Four stations on two lines, two of them namesakes, and an id 5 that only *)
(* the table of connections knows.  Times reach over a minute and an hour.  *)
(* Tables end with a newline or without, and may hold nothing but a header. *)
(***************************************************************************)
EXTENDS LegacyMapper

MCId == 0..5

Row(id, name, line) == [id |-> id, name |-> name, line |-> line]

\* the last row repeats an id
StationTable == <<Row(1, "a", "l1"), Row(2, "b", "l1"), Row(3, "b", "l2"), Row(4, "c", "l2"), Row(1, "x", "l2")>>

Hop(from, to, time) == [from |-> from, to |-> to, time |-> time]

Absent == 9

\* each hop absent or with one of the times, in the order of a table
Tables(hops, times) ==
    {SelectSeq([i \in DOMAIN hops |-> Hop(hops[i][1], hops[i][2], t[i])], LAMBDA h : h.time # Absent)
        : t \in [DOMAIN hops -> times \cup {Absent}]}

Both == {"connections", "stations"}

MCFiles ==
    {[connections |-> c, stations |-> StationTable, ended |-> Both] :
        c \in Tables(<< <<1, 2>>, <<1, 3>>, <<2, 3>>, <<2, 4>>, <<3, 4>> >>, {0, 61})
              \cup Tables(<< <<1, 5>>, <<5, 4>>, <<1, 4>>, <<1, 4>> >>, {59, 3602})}
    \cup {[connections |-> <<Hop(1, 0, 1), Hop(1, 4, 9), Hop(2, 4, 1)>>, stations |-> StationTable,
           ended |-> e] : e \in SUBSET Both}
    \cup {[connections |-> <<>>, stations |-> <<>>, ended |-> e] : e \in SUBSET Both}
    \cup {[connections |-> None, stations |-> StationTable, ended |-> {}],
          [connections |-> <<>>, stations |-> None, ended |-> {}]}
=============================================================================

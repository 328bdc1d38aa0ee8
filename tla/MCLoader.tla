------------------------------ MODULE MCLoader ------------------------------
(***************************************************************************)
(* One server in its own project with every small set of tables, and one    *)
(* pair of good tables in some of three directories with every way to be    *)
(* pointed at them.                                                         *)
(***************************************************************************)
EXTENDS Loader

\* \'Epee, and the same without accents and with a dot
Accented == <<201, 112, 233, 101>>
Plain    == <<101, 112, 101, 101, 46>>

MCName == LET names == {Accented, Plain} IN names \cup {WithNewline(n) : n \in names} \cup {Newline}

Station1 == [id |-> 1, name |-> Accented, line |-> "M1"]
Station2 == [id |-> 2, name |-> Accented, line |-> "M2"]
Station2b == [id |-> 2, name |-> Plain, line |-> "M1"]

Station0 == [id |-> 0, name |-> Plain, line |-> "M1"]

\* every table of up to three lines of these, and tables that end with an empty one
StationTables ==
    {t \in UNION {[1..n -> {Station1, Station2, Station2b, Blank}] : n \in 1..3} :
        t[Len(t)] # Blank}
    \cup {<<Station0, Station1, Blank>>, <<Station2, Blank, Blank>>, Unreadable, <<>>}

Connection(f, t, w) == [from |-> f, to |-> t, weight |-> w]
ConnectionTables ==
    UNION {[1..n -> {Connection(1, 2, 5), Connection(1, 2, 0), Connection(2, 1, 5),
                     Connection(1, 3, 0), Malformed}] : n \in 0..2}
    \cup {<<Connection(1, 2, 5), Connection(1, 3, 5), Connection(2, 1, 0), Connection(1, 2, 0)>>,
          Unreadable}

Stop(n, p) == [name |-> n, pos |-> p]
StopTables ==
    {<<>>, Unreadable, <<Stop(Plain, "p1"), Malformed, Stop(Accented, "p2")>>,
     <<Blank, Stop(WithNewline(Accented), "p1"), Stop(Plain, "p1")>>}

Srv == <<"srv">>

Files(dir, s, c, g) ==
    [path \in {dir \o <<"data", "s.csv">>, dir \o <<"data", "c.csv">>, dir \o <<"data", "IDFM-gtfs", "stops.txt">>} |->
        CASE Last(path) = "s.csv" -> s [] Last(path) = "c.csv" -> c [] OTHER -> g]

InProject(s, c, g) ==
    [env |-> <<>>, projects |-> {Srv}, compiled |-> NoPath, exe |-> Srv \o <<"build">>, cwd |-> <<>>,
     files |-> Files(Srv, s, c, g)]

\* two directories above the executable, the one data is under and one to point at
Places == {Srv, Srv \o <<"build", "bin">>, <<"etc">>}

Pointers == [DATA_PATH |-> <<"etc", "data">>, GTFS_PATH |-> <<"etc", "data">>, STATIONS_FILE |-> "c.csv", PORT |-> 70000]

MCHosts ==
    {InProject(s, c, g) : s \in StationTables, c \in ConnectionTables, g \in StopTables}
    \cup {[env |-> [v \in set |-> Pointers[v]], projects |-> p, compiled |-> c,
           exe |-> Srv \o <<"build", "bin">>, cwd |-> <<"home">>,
           files |-> Files(at, <<Station1>>, <<>>, Unreadable)] :
             set \in SUBSET DOMAIN Pointers, p \in SUBSET (Places \cup {<<"home">>}),
             c \in {NoPath, Srv}, at \in Places \cup {<<"home">>}}

\* a station table that ends with an empty line
MCTrailing ==
    {InProject(s, c, g) : s \in {<<Station1, Station2, Blank>>, <<Blank>>},
                          c \in ConnectionTables, g \in StopTables}
=============================================================================

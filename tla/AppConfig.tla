----------------------------- MODULE AppConfig -----------------------------
(***************************************************************************)
(* AppConfig::from_env: where the server takes its files from, and what it  *)
(* is started with.  A path is the sequence of the names on the way from    *)
(* the root of the file system.  A host says what from_env can see:         *)
(*   env       the variables that are set, a directory, a file name or the  *)
(*             number their text begins with                                *)
(*   projects  the directories that hold data/s.csv                         *)
(*   compiled  PROJECT_ROOT_DIR, or NoPath in a build without it            *)
(*   exe, cwd  the directory of the executable, and the current one         *)
(***************************************************************************)
EXTENDS Integers, FiniteSets, SequencesExt

CONSTANTS
    MaxLevels, \* 10: the directories find_project_root looks into
    NoPath

ASSUME MaxLevelsAssumption == MaxLevels \in Nat \ {0}

FindProjectRoot(host, start) ==
    LET Up(k)  == SubSeq(start, 1, Len(start) - k)
        levels == {k \in 0..Min({Len(start), MaxLevels - 1}) : Up(k) \in host.projects}
    IN  IF levels = {} THEN NoPath ELSE Up(Min(levels))

ResolveProjectRoot(host) ==
    LET from_exe == FindProjectRoot(host, host.exe)
    IN  IF host.compiled \in host.projects THEN host.compiled
        ELSE IF from_exe # NoPath THEN from_exe
             ELSE FindProjectRoot(host, host.cwd)

Getenv(host, variable, default) ==
    IF variable \in DOMAIN host.env THEN host.env[variable] ELSE default

\* the relative defaults "data" and "data/IDFM-gtfs" without a project
DefaultRoot(host) ==
    IF ResolveProjectRoot(host) # NoPath THEN ResolveProjectRoot(host) ELSE host.cwd

\* a project found replaces both paths unless both were set
DirFromEnvBothOrNoneMutant(host, variable, default) ==
    IF {"DATA_PATH", "GTFS_PATH"} \subseteq DOMAIN host.env THEN host.env[variable] ELSE default

DirFromEnv(host, variable, default) == Getenv(host, variable, default)

FromEnv(host) ==
    [data_path        |-> DirFromEnv(host, "DATA_PATH", DefaultRoot(host) \o <<"data">>),
     gtfs_path        |-> DirFromEnv(host, "GTFS_PATH", DefaultRoot(host) \o <<"data", "IDFM-gtfs">>),
     stations_file    |-> Getenv(host, "STATIONS_FILE", "s.csv"),
     connections_file |-> Getenv(host, "CONNECTIONS_FILE", "c.csv"),
     gtfs_stops_file  |-> Getenv(host, "GTFS_STOPS_FILE", "stops.txt"),
     port             |-> Getenv(host, "PORT", 8080) % 2^16,
     cache_size       |-> Getenv(host, "CACHE_SIZE", 10000),
     thread_count     |-> Getenv(host, "THREAD_COUNT", 4)]

StationsPath(config)    == Append(config.data_path, config.stations_file)
ConnectionsPath(config) == Append(config.data_path, config.connections_file)
GtfsStopsPath(config)   == Append(config.gtfs_path, config.gtfs_stops_file)
=============================================================================

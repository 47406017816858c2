------------------------------- MODULE RunCache -------------------------------
(***************************************************************************)
(* load_run_data of scripts/registration/common.py and the three files it  *)
(* keeps of a satellite sosreport in --cache-dir: the extracted log, the   *)
(* request records parsed from it and the sessions built from those.  The  *)
(* scripts run one after another, with or without --inventory, may be      *)
(* stopped anywhere, and are updated in between.  Of a log only its length *)
(* matters: a write that was cut leaves a shorter one.                     *)
(***************************************************************************)
EXTENDS Integers, FiniteSets

CONSTANTS
    Whole,          \* the length of the log in the sosreport
    LastVersion     \* bound: the cache versions go up to this one

ASSUME RunCacheAssumption == Whole \in Nat \ {0} /\ LastVersion \in Nat

VARIABLES
    version,    \* _RECORDS_CACHE_VERSION and _SESSIONS_CACHE_VERSION of the code
    raw,        \* <tarball>_production.log: its length, or NoLog
    pickle,     \* <tarball>_records.pkl and <tarball>_sessions.pkl
    step,       \* where load_run_data is; "idle" between two calls
    job,        \* its arguments and local variables
    result,     \* what the last call that came to its end returned
    history     \* what the user and the machine did to the directory

cacheVars == <<version, raw, pickle, step, job, result, history>>

NoLog == -1
File == {"records", "sessions"}

\* A pickle: the log it comes from; sessions also keep whether they were
\* classified with a topology, and the log sat_cache_stats was read from.
NoPickle == [state |-> "absent", version |-> 0, from |-> NoLog, routed |-> FALSE, stats |-> NoLog]

\* Faulty: what can be loaded of a torn pickle is taken.
TornReadAsEmpty == [NoPickle EXCEPT !.state = "whole", !.from = 0]

\* A pickle that was opened and not written to its end.
Torn == [NoPickle EXCEPT !.state = "torn"]

\* sat_records, sat_sessions and sat_cache_stats are None at first.
LoadCall(inventory, load) ==
    [inventory |-> inventory, load |-> load,
     records |-> NoLog, sessions |-> NoLog, routed |-> FALSE, stats |-> NoLog]

CacheInit ==
    /\ version = [f \in File |-> 0]
    /\ raw = NoLog
    /\ pickle = [f \in File |-> NoPickle]
    /\ step = "idle"
    /\ job = LoadCall(FALSE, TRUE)
    /\ result = {}
    /\ history = [cut |-> FALSE, removed |-> FALSE, inventories |-> {}, loaded |-> FALSE]

Begin(inventory, load) ==
    /\ step = "idle"
    /\ step' = "sessions"
    /\ job' = LoadCall(inventory, load)
    /\ history' = [history EXCEPT !.inventories = @ \cup {inventory}]
    /\ UNCHANGED <<version, raw, pickle, result>>

\* A pickle that cannot be loaded or is of another version is a miss.
Hit(f) == pickle[f].state = "whole" /\ pickle[f].version = version[f]

ReadSessions ==
    /\ step = "sessions"
    /\ job' = IF Hit("sessions")
              THEN [job EXCEPT !.sessions = pickle["sessions"].from,
                               !.routed = pickle["sessions"].routed,
                               !.stats = pickle["sessions"].stats]
              ELSE job
    /\ step' = IF Hit("sessions") /\ ~job.load THEN "return" ELSE "records"
    /\ UNCHANGED <<version, raw, pickle, result, history>>

\* Faulty: the log is only used while there are no records.
LinesCachedAtFirst == raw > 0 /\ pickle["records"].state # "whole"

\* The log is there and has lines: without lines it is read as a miss.
LinesCached == raw > 0

\* Faulty: the statistics are not read again.
StatsForgotten(stats) == stats

StatsOnRecordsHit(stats) == IF stats = NoLog /\ LinesCached THEN raw ELSE stats

ReadRecords ==
    /\ step = "records"
    /\ IF Hit("records") /\ pickle["records"].from > 0
       THEN /\ job' = [job EXCEPT !.records = pickle["records"].from,
                                  !.stats = StatsOnRecordsHit(job.stats)]
            /\ step' = "build"
       ELSE /\ step' = "lines"
            /\ UNCHANGED job
    /\ UNCHANGED <<version, raw, pickle, result, history>>

\* _pass1 and parse_sat_cache_stats over the lines, then the records are kept.
Parsed(length) ==
    /\ job' = [job EXCEPT !.records = length,
                          !.stats = IF @ = NoLog THEN length ELSE @]
    /\ pickle' = [pickle EXCEPT !["records"] = Torn]
    /\ step' = "write_records"

ReadLines ==
    /\ step = "lines" /\ LinesCached
    /\ Parsed(raw)
    /\ UNCHANGED <<version, raw, result, history>>

\* The download is over before the file is opened, which empties it.
Download ==
    /\ step = "lines" /\ ~LinesCached
    /\ raw' = 0
    /\ step' = "write_raw"
    /\ UNCHANGED <<version, pickle, job, result, history>>

WriteRaw ==
    /\ step = "write_raw"
    /\ IF raw < Whole
       THEN raw' = raw + 1 /\ UNCHANGED <<pickle, step, job>>
       ELSE Parsed(Whole) /\ UNCHANGED raw
    /\ UNCHANGED <<version, result, history>>

WriteRecords ==
    /\ step = "write_records"
    /\ pickle' = [pickle EXCEPT !["records"] =
          [NoPickle EXCEPT !.state = "whole", !.version = version["records"],
                           !.from = job.records]]
    /\ step' = "build"
    /\ UNCHANGED <<version, raw, job, result, history>>

\* _pass2, unless the sessions were read.
BuildSessions ==
    /\ step = "build"
    /\ IF job.sessions = NoLog
       THEN /\ job' = [job EXCEPT !.sessions = job.records, !.routed = job.inventory]
            /\ pickle' = [pickle EXCEPT !["sessions"] = Torn]
            /\ step' = "write_sessions"
       ELSE step' = "return" /\ UNCHANGED <<job, pickle>>
    /\ UNCHANGED <<version, raw, result, history>>

WriteSessions ==
    /\ step = "write_sessions"
    /\ pickle' = [pickle EXCEPT !["sessions"] =
          [state |-> "whole", version |-> version["sessions"], from |-> job.sessions,
           routed |-> job.routed, stats |-> job.stats]]
    /\ step' = "return"
    /\ UNCHANGED <<version, raw, job, result, history>>

Return ==
    /\ step = "return"
    /\ step' = "idle"
    /\ result' = {job}
    /\ history' = [history EXCEPT !.loaded = TRUE]
    /\ UNCHANGED <<version, raw, pickle, job>>

(***************************************************************************)
(* The script is killed, the disk is full or the download raises: the      *)
(* files stay as they are.                                                 *)
(***************************************************************************)
Stop ==
    /\ step # "idle"
    /\ step' = "idle"
    /\ history' = [history EXCEPT !.cut = @ \/ (step = "write_raw" /\ raw < Whole)]
    /\ UNCHANGED <<version, raw, pickle, job, result>>

\* New scripts with another version of one of the pickles.
Update(f) ==
    /\ step = "idle" /\ version[f] < LastVersion
    /\ version' = [version EXCEPT ![f] = @ + 1]
    /\ UNCHANGED <<raw, pickle, step, job, result, history>>

\* The user removes the log, by far the largest of the files.
RemoveRaw ==
    /\ step = "idle" /\ raw # NoLog
    /\ raw' = NoLog
    /\ history' = [history EXCEPT !.removed = TRUE]
    /\ UNCHANGED <<version, pickle, step, job, result>>

CacheNext ==
    \/ \E inventory, load \in BOOLEAN : Begin(inventory, load)
    \/ ReadSessions \/ ReadRecords \/ ReadLines \/ Download
    \/ WriteRaw \/ WriteRecords \/ BuildSessions \/ WriteSessions \/ Return
    \/ Stop \/ RemoveRaw
    \/ \E f \in File : Update(f)

CacheSpec == CacheInit /\ [][CacheNext]_cacheVars
=============================================================================

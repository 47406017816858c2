---------------------------- MODULE RunCacheProps ----------------------------
(***************************************************************************)
(* What a script may rely on when its data come out of the cache.          *)
(***************************************************************************)
EXTENDS RunCache

(***************************************************************************)
(* Loading from the cache gives what loading without one gives: whatever   *)
(* was stopped, updated or removed, the records and sessions are those of  *)
(* the whole log, as long as no write of the log itself was cut; and they  *)
(* are routed as this call asked, as long as all calls asked the same.     *)
(***************************************************************************)
CachedIsFresh ==
    \A r \in result :
        /\ ~history.cut => r.sessions = Whole /\ r.records \in {Whole, NoLog}
        /\ Cardinality(history.inventories) = 1 => r.routed = r.inventory
        /\ r.load => r.records # NoLog

(***************************************************************************)
(* Records, sessions and statistics of one result tell of the same log:    *)
(* traces are built from the first two together.  Statistics are missing   *)
(* only when the log was removed; a mix of two logs takes a log that was   *)
(* cut and one that was removed.                                           *)
(***************************************************************************)
OneLog ==
    \A r \in result :
        /\ r.stats = NoLog => history.removed
        /\ ~(history.cut /\ history.removed) =>
              /\ r.records \in {r.sessions, NoLog}
              /\ r.stats \in {r.sessions, NoLog}

(***************************************************************************)
(* --cache-dir: "subsequent runs skip download".  Once a call has come to  *)
(* its end no later one downloads the log or writes to it, also after an   *)
(* update that makes a pickle useless.                                     *)
(***************************************************************************)
DownloadedOnce == history.loaded /\ ~history.removed => raw > 0 /\ step # "write_raw"

\* A script cannot tell whether its data come out of --cache-dir.
CacheIsTransparent == CachedIsFresh /\ OneLog
=============================================================================

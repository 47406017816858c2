---------------------------- MODULE FullExperiment ----------------------------
(***************************************************************************)
(* The phases of experiment/full_fam.sh that keep state on the Satellite   *)
(* or in results: the content is provided, the browser measures the user   *)
(* interface, the content is removed.  The phases in between (concurrent   *)
(* registrations, remote execution, backup) have models of their own or    *)
(* leave the content alone.                                                *)
(***************************************************************************)
EXTENDS ContentPipeline

CONSTANTS Browser, Role, Browsers, Roles, NoBrowser

VARIABLES
    step, todo, roles, browser, context, current, stored, result, contract,
    completed, written

ui == <<step, todo, roles, browser, context, current, stored, result, contract,
        completed, written>>

UI == INSTANCE BrowserRun WITH pc <- step

ASSUME ExperimentAssumption == UI!RunAssumption

FullInit == Init /\ UI!Init

\* The ui phase begins when the content is there.
RunBrowser == pc = "done" /\ UI!Next /\ UNCHANGED vars

\* cleanup_fam begins when the playbook of the ui phase has ended.
StartCleanup ==
    /\ step = "done"
    /\ Moves("done", "cleanup")
    /\ UNCHANGED <<round, setup, content, pushes, rest, failures, flawed, ui>>

FullNext ==
    \/ (Provide \/ Cleanup) /\ UNCHANGED ui
    \/ RunBrowser
    \/ StartCleanup

FullSpec == FullInit /\ [][FullNext]_<<vars, ui>>
-----------------------------------------------------------------------------
(***************************************************************************)
(* The push of a product runs beside the next one, composites and          *)
(* promotion included, and _wait_push comes only after them.  So a push    *)
(* may carry content of the next product, but never of a later one, and    *)
(* what was promoted when it was started it carries.                       *)
(***************************************************************************)
PushCarries ==
    \A k \in Round, r \in Rel :
        carried[k][r] # NoVersion =>
            /\ carried[k][r] \subseteq Components(IF k < N THEN k + 1 ELSE N, r)
            /\ forked[k][r] # NoVersion => forked[k][r] \subseteq carried[k][r]

(***************************************************************************)
(* get_base_content_fam makes up for what failed on the way: when the      *)
(* plays of the last round leave no composite out, every release has all   *)
(* that was synced and published, whatever earlier rounds left out; when   *)
(* the last push is well, the capsules have all that was promoted; and no  *)
(* push runs on into the phases that follow.                               *)
(***************************************************************************)
ContentArrives ==
    pc = "bench" =>
        /\ \A k \in Round : push[k] # "running"
        /\ ~flawed => \A r \in Rel : Components(N, r) # {} =>
                         promoted[r] = {v \in Components(N, r) : published[v] = "filled"}
        /\ push[N] = "ok" => capsule = promoted

(***************************************************************************)
(* A cleanup_fam in which nothing fails by itself leaves no key, composite *)
(* or view behind: the order of its lists is one the server accepts.  The  *)
(* products follow, unless the view of incremental_cv_updates_fam, which   *)
(* is in no list, holds on to theirs.                                      *)
(***************************************************************************)
CleanupIsComplete ==
    pc = "clean" /\ failures = 0 =>
        /\ keys = {} /\ views = {} /\ \A r \in Rel : components[r] = {}
        /\ ~incremental => repos = {}

\* BrowserRun's properties, in the phase it is run in: the verdict of the status
\* data file is earned by the roles, and no browser is stored by half.
ResultIsEarned == UI!ResultIsEarned /\ UI!StoredWhole
=============================================================================

-------------------------- MODULE MCRegistrationData --------------------------
(***************************************************************************)
(* The data of one registration experiment, a topic at a time:             *)
(* - "log": two registrations in three seconds with windows of one and two *)
(*   seconds, so that they overlap in part, in full or not at all;         *)
(* - "cache": a log of two parts, so that a cut write leaves an empty file *)
(*   or half of it, and two versions of each pickle;                       *)
(* - "campaign": three containers in one, two or three batches, one of     *)
(*   which may stay empty, on the satellite and on a capsule with and one  *)
(*   without a balancer, and reports with buckets of two seconds;          *)
(* - "comparison": a baseline of two builds and a batch of one, at two     *)
(*   levels, with and without the metric.                                  *)
(***************************************************************************)
EXTENDS TraceReportProps, RunCacheProps, RegistrationReportsProps, RunComparison

CONSTANTS r1, r2
RegistrationSymmetry == Permutations(Registration)
MCPlan == <<"script", "create", "compliance", "status", "facts", "register">>

Host(role, location) == [role |-> role, location |-> location]
MCClient == {"a", "b", "c"}
MCInventory == {Host("satellite", "hq"), Host("capsule", "a"), Host("capsule", "d"), Host("lb", "d")}
MCRouteOf == [a |-> Host("capsule", "a"), b |-> Host("satellite", "hq"), c |-> Host("capsule", "d")]
MCBatchPlans == {[a |-> 0, b |-> 1, c |-> 1], [a |-> 1, b |-> 2, c |-> 0], [a |-> 2, b |-> 1, c |-> 1]}

Json(passed, seconds, inserts) == [passed |-> passed, seconds |-> seconds, inserts |-> inserts]
MCBatches == <<{"b3"}>>
MCResults ==
       20 :> {Json(18, 2, 0), Json(19, 1, 5), Json(20, 1, Missing), Json(20, 2, 5)}
    @@ 40 :> {Json(0, 0, 5), Json(37, 3, Missing), Json(38, 4, 0), Json(40, 3, 5)}

VARIABLE topic
MCvars == <<topic, logVars, cacheVars, campaignVars, comparisonVars>>

MCInit ==
    /\ topic \in {"log", "cache", "campaign", "comparison"}
    /\ IF topic = "log" THEN LogInit
       ELSE audited = TRUE /\ now = 0 /\ sent = [reg \in Registration |-> 0]
            /\ creating = [reg \in Registration |-> "no"] /\ records = <<>>
    /\ CacheInit
    /\ IF topic = "campaign" THEN CampaignInit
       ELSE CampaignInit /\ batchOf = CHOOSE plan \in BatchPlans : TRUE
    /\ ComparisonInit

LogMoves == topic = "log" /\ LogNext /\ UNCHANGED <<cacheVars, campaignVars, comparisonVars>>
CacheMoves == topic = "cache" /\ CacheNext /\ UNCHANGED <<logVars, campaignVars, comparisonVars>>
CampaignMoves == topic = "campaign" /\ CampaignNext /\ UNCHANGED <<logVars, cacheVars, comparisonVars>>
ComparisonMoves == topic = "comparison" /\ ComparisonNext /\ UNCHANGED <<logVars, cacheVars, campaignVars>>

MCNext == UNCHANGED topic /\ (LogMoves \/ CacheMoves \/ CampaignMoves \/ ComparisonMoves)
MCSpec == MCInit /\ [][MCNext]_MCvars
=============================================================================

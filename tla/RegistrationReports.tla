-------------------------- MODULE RegistrationReports --------------------------
(***************************************************************************)
(* What the reports of scripts/registration make of one campaign: the      *)
(* windows of measurement.log (common.py), the tables of                   *)
(* generate_registration_analysis.py, the plateau of analyze_saturation.py,*)
(* the drain curves of analyze_batch_dynamics.py, and the samples          *)
(* generate_trace_report.py takes.  A table is a function or a sequence of *)
(* its rows, without their wording; a rate is counted in thousandths.      *)
(***************************************************************************)
EXTENDS RegistrationCampaign, PythonBasics

CONSTANTS
    Inventory,      \* the satellite, the capsules and their load balancers
    BucketSize,     \* --bucket-size
    Samples         \* --samples

ASSUME ReportsAssumption ==
    /\ RouteOf \in [Client -> Inventory]
    /\ \A host \in Inventory : host.role \in {"satellite", "capsule", "lb"}
    /\ BucketSize \in Nat \ {0} /\ Samples \in Nat \ {0}

\* parse_measurement_log: in the order of levels, for each the first row.
FirstRows ==
    {rows[i] : i \in {j \in DOMAIN rows : \A k \in 1..(j - 1) : rows[k].level # rows[j].level}}
ByLevel == {p \in FirstRows \X FirstRows : p[1].level < p[2].level}
Windows == Sorted(FirstRows, ByLevel)

Failed(w) == Max({0, w.level - w.passed})
WindowSeconds(w) == w.until - w.since
SuccessPct(w) == (1000 * w.passed) \div (w.passed + Failed(w))
RegPerSecond(w) == IF WindowSeconds(w) > 0 THEN (1000 * w.passed) \div WindowSeconds(w) ELSE 0

\* Faulty: everything up to the end of the window.
UpToWindow(w, at) == at <= w.until

InWindow(w, at) == w.since <= at /\ at <= w.until

\* _assign_concurrency: the level of the first window around the session.
AssignConcurrency(s, windows) ==
    LET around == {i \in DOMAIN windows : InWindow(windows[i], s.at)}
    IN IF around = {} THEN 0 ELSE windows[Min(around)].level

-----------------------------------------------------------------------------
(***************************************************************************)
(* Topologies: a capsule is load-balanced when its location has a balancer.*)
(***************************************************************************)
Direct == "direct"
Standalone == "standalone-capsule"
LoadBalanced == "lb-capsule"

LbLocations == {h.location : h \in {g \in Inventory : g.role = "lb"}}

TopoCategory(s) ==
    LET host == RouteOf[s.client] IN
    CASE host.role = "satellite" -> <<Direct, "">>
      [] host.role = "lb" -> <<LoadBalanced, host>>
      [] host.role = "capsule" ->
            <<IF host.location \in LbLocations THEN LoadBalanced ELSE Standalone, host>>

\* Faulty: only what the balancer itself sends on.
CategoryOfBalancer(s) ==
    CASE RouteOf[s.client].role = "satellite" -> Direct
      [] RouteOf[s.client].role = "lb" -> LoadBalanced
      [] OTHER -> Standalone

\* _category of _group_sessions decides this anew.
Category(s) ==
    CASE RouteOf[s.client].role = "satellite" -> Direct
      [] RouteOf[s.client].role = "lb" -> LoadBalanced
      [] RouteOf[s.client].role = "capsule" ->
            IF RouteOf[s.client].location \in LbLocations THEN LoadBalanced ELSE Standalone

-----------------------------------------------------------------------------
(***************************************************************************)
(* registration_metrics.py                                                 *)
(***************************************************************************)
ErrorType(status) ==
    CASE status = 0 -> "timeout/no-response"
      [] status \in {401, 403} -> "auth-failure"
      [] status = 429 -> "rate-limited"
      [] status >= 500 -> "server-error"
      [] status \in 400..499 \ {401, 403, 429} -> "client-error"
      [] OTHER -> "ok"

ByMs(ss) == SetToSortSeq(ss, LAMBDA s, t : s.ms < t.ms)

\* _pct of the values that are not 0; p of a hundred.
Percentile(values, p) ==
    IF values = <<>> THEN 0
    ELSE values[Min({Max({0, (p * Len(values)) \div 100 - 1}), Len(values) - 1}) + 1]

\* Faulty: what has no answer counts only when it took time.
CreateTimeoutsWithTime(ss) == {s \in ss : s.status = 0 /\ s.ms > 0}

CreateTimeouts(ss) == {s \in ss : s.status = 0 /\ s.ms = 0}

BuildMetrics(ss) ==
    LET bad == {s \in ss : s.status \notin {0, 200, 201}} \cup CreateTimeouts(ss)
    IN [count |-> Cardinality(ss),
        errors |-> Cardinality(bad),
        breakdown |-> [type \in {ErrorType(s.status) : s \in bad} |->
                          Cardinality({s \in bad : ErrorType(s.status) = type})],
        create |-> ByMs({s \in ss : s.ms > 0})]

\* _pass2_proxy: a session of a capsule is a POST /register, and with it
\* goes the last script fetched before.
ProxySessions(capsule) ==
    {[client |-> r.client, at |-> r.at, ms |-> r.took, status |-> 200,
      scripts |-> {g.at : g \in {x \in ProxyOf(capsule) : x.method = "GET" /\ x.at <= r.at}}] :
        r \in {x \in ProxyOf(capsule) : x.method = "POST"}}

-----------------------------------------------------------------------------
(***************************************************************************)
(* generate_registration_analysis.py                                       *)
(***************************************************************************)
Within(ss, w) == {s \in ss : InWindow(w, s.at)}
GroupSessions(ss) ==
    [cat \in {Category(s) : s \in ss} |-> BuildMetrics({s \in ss : Category(s) = cat})]

SatAggregate == GroupSessions(Range(sessions))
SatByLevel == [i \in DOMAIN Windows |-> GroupSessions(Within(Range(sessions), Windows[i]))]

Capsules == {h \in Inventory : h.role = "capsule"}
CapsuleByLevel == [i \in DOMAIN Windows |->
    [capsule \in Capsules |-> BuildMetrics(Within(ProxySessions(capsule), Windows[i]))]]

\* 6.1, what measurement.log says of the levels.
Average(w) == (1000 * w.total) \div w.passed
OverallTable == [i \in DOMAIN Windows |->
    LET w == Windows[i]
    IN [level |-> w.level, passed |-> w.passed, failed |-> Failed(w),
        pct |-> SuccessPct(w), average |-> Average(w)]]

\* A cell of 6.2 and 6.3: sessions and median, or a dash.
Cell(m) == IF m.count = 0 THEN <<>>
           ELSE <<m.count, Percentile([i \in DOMAIN m.create |-> m.create[i].ms], 50)>>

\* A column for every topology that any level has.
AllTopos == UNION {DOMAIN SatByLevel[i] : i \in DOMAIN Windows}

LevelTable == [i \in DOMAIN Windows |->
    [level |-> Windows[i].level,
     cells |-> [topo \in AllTopos |->
        IF topo \in DOMAIN SatByLevel[i] THEN Cell(SatByLevel[i][topo]) ELSE <<>>]]]

CapsuleTable == [i \in DOMAIN Windows |->
    [level |-> Windows[i].level,
     cells |-> [capsule \in Capsules |-> Cell(CapsuleByLevel[i][capsule])]]]

\* 7.1: only the topologies and the levels with errors.
ErrorTable(cat) ==
    {<<Windows[i].level, SatByLevel[i][cat].errors, SatByLevel[i][cat].breakdown>> :
        i \in {j \in DOMAIN Windows : cat \in DOMAIN SatByLevel[j] /\ SatByLevel[j][cat].errors > 0}}

\* 8: the duration that grows, and the first level with failures.
Observations ==
    LET failing == {i \in DOMAIN Windows : Failed(Windows[i]) > 0}
        passing == {i \in DOMAIN Windows : Windows[i].passed > 0}
    IN [grows |-> passing # {} /\ 2 * Average(Windows[Max(passing)]) > 3 * Average(Windows[1]),
        firstFailure |-> IF failing = {} THEN 0 ELSE Windows[Min(failing)].level]

-----------------------------------------------------------------------------
(***************************************************************************)
(* analyze_saturation.py                                                   *)
(***************************************************************************)
SaturationPoint ==
    LET failing == {i \in DOMAIN Windows : Failed(Windows[i]) > 0} IN
    CASE failing # {} -> Windows[Min(failing)].level
      [] failing = {} /\ Windows # <<>> -> Windows[Len(Windows)].level
      [] OTHER -> 0

\* The places of its rows.
Plateau == {i \in DOMAIN Windows : Windows[i].level >= SaturationPoint /\ Windows[i].passed > 0}

\* What the length of the window alone predicts, and the difference.
Prediction ==
    LET mean == SumFunction([i \in Plateau |-> RegPerSecond(Windows[i])]) \div Cardinality(Plateau)
    IN [i \in Plateau |->
          [level |-> Windows[i].level,
           delta |-> 1000 * Windows[i].passed - mean * WindowSeconds(Windows[i])]]

\* The row of the saturation is flagged; without a plateau nothing is predicted.
SaturationTable == [i \in DOMAIN Windows |->
    [level |-> Windows[i].level, passed |-> Windows[i].passed, failed |-> Failed(Windows[i]),
     pct |-> SuccessPct(Windows[i]), rate |-> RegPerSecond(Windows[i]),
     flagged |-> Windows[i].level = SaturationPoint]]

-----------------------------------------------------------------------------
(***************************************************************************)
(* trace_registration.py and generate_trace_report.py: a trace stands for  *)
(* its session.                                                            *)
(***************************************************************************)
Succeeded(s) == s.status \in {0, 200, 201}

\* --traces-file: the failed traces of the level.
TraceErrors(level) ==
    LET failed == {s \in Range(sessions) :
                     AssignConcurrency(s, Windows) = level /\ ~Succeeded(s)}
    IN [type \in {ErrorType(s.status) : s \in failed} |->
          Cardinality({s \in failed : ErrorType(s.status) = type})]

\* What takes as long stays in the order of the log.
ByDuration ==
    {p \in (DOMAIN sessions) \X (DOMAIN sessions) :
        \/ sessions[p[1]].ms < sessions[p[2]].ms
        \/ sessions[p[1]].ms = sessions[p[2]].ms /\ p[1] < p[2]}

\* Every step-th session in the order of durations, Samples of them.
SampleOf(topo, w) ==
    LET group == {i \in DOMAIN sessions :
                    InWindow(w, sessions[i].at) /\ TopoCategory(sessions[i])[1] = topo}
        sorted == Sorted(group, ByDuration)
        step == Max({1, Len(sorted) \div Samples})
        picked == {k \in DOMAIN sorted : (k - 1) % step = 0 /\ (k - 1) \div step < Samples}
    IN {sessions[sorted[k]] : k \in picked}

-----------------------------------------------------------------------------
(***************************************************************************)
(* analyze_batch_dynamics.py                                               *)
(***************************************************************************)
BucketStarts(w) == {t \in w.since..(w.until - 1) : (t - w.since) % BucketSize = 0}
\* Faulty: the end of the bucket belongs to it.
InBucketClosed(w, t, at) == t <= at /\ at <= Min({t + BucketSize, w.until})

InBucket(w, t, at) == t <= at /\ at < Min({t + BucketSize, w.until})

LevelSessions(w) == {s \in Range(sessions) : AssignConcurrency(s, <<w>>) = w.level}
SessionBucket(w, t) == {s \in LevelSessions(w) : InBucket(w, t, s.at)}

\* A list of samples is the set of their places in PumaLog.
InWindowSamples(w) == {i \in DOMAIN PumaLog : InWindow(w, PumaLog[i].at)}
PumaBucket(w, t) == {i \in DOMAIN PumaLog : InBucket(w, t, PumaLog[i].at)}
Backlogs(samples) == {PumaLog[i].backlog : i \in samples}

\* What is done in the time between the first and the last of the samples.
RateOf(samples) ==
    IF Cardinality(samples) < 2 THEN 0
    ELSE LET from == PumaLog[Min(samples)]
             to == PumaLog[Max(samples)]
         IN (1000 * (to.requests - from.requests)) \div (to.at - from.at)

MedianMs(ss) ==
    LET ms == ByMs({s \in ss : s.ms > 0})
    IN IF ms = <<>> THEN 0 ELSE ms[Len(ms) \div 2 + 1].ms

DrainCurve(w) == [t \in BucketStarts(w) |->
    [sessions |-> Cardinality(SessionBucket(w, t)),
     median |-> MedianMs(SessionBucket(w, t)),
     backlog |-> Max({0} \cup Backlogs(PumaBucket(w, t))),
     throughput |-> RateOf(PumaBucket(w, t))]]

\* The half of the sessions that started first, and the other one.
Early(w) ==
    LET sorted == SetToSortSeq(LevelSessions(w), LAMBDA s, t : s.at < t.at)
    IN {sorted[i] : i \in 1..(Len(sorted) \div 2)}

LevelSummary(w) ==
    LET waiting == {i \in InWindowSamples(w) : PumaLog[i].backlog > 0}
    IN [sessions |-> Cardinality(LevelSessions(w)),
        early |-> MedianMs(Early(w)),
        late |-> MedianMs(LevelSessions(w) \ Early(w)),
        peak |-> Max({0} \cup Backlogs(InWindowSamples(w))),
        clear |-> IF waiting = {} THEN 0 ELSE PumaLog[Max(waiting)].at - w.since,
        drain |-> RateOf(waiting)]
=============================================================================

----------------------- MODULE RegistrationReportsProps -----------------------
(***************************************************************************)
(* What the reports owe to the campaign they are about.  They are written  *)
(* from the sosreports, when the campaign is over.                         *)
(***************************************************************************)
EXTENDS RegistrationReports

\* The batches are apart in time: one of them began in a window.
BatchOf(w) == CHOOSE b \in 1..batch : \E c \in InBatch(b) : client[c].start = w.since

\* Every report cuts the campaign by the windows of measurement.log, which
\* only the registrations that passed bound (reg-average.py).  What is put down
\* to a level is nevertheless the first try of a container of that batch: no
\* retry of the batch before, which went on until just before the window, and
\* nothing of a batch that failed altogether and has no window.
LevelIsTheBatch == phase = "over" =>
    \A i \in DOMAIN Windows :
        LET w == Windows[i]
            putDown == {s \in Range(sessions) : AssignConcurrency(s, Windows) = w.level}
                         \cup Within(Range(sessions), w) \cup LevelSessions(w)
        IN \A s \in putDown : s.first /\ batchOf[s.client] = BatchOf(w)

\* A registration that measurement.log counts as passed is in every report: at
\* its level in the traces, under the same topology in the table of the
\* analysis and in the samples, in the table of its capsule, and in exactly one
\* bucket of the drain curve, although windows are closed and buckets half open.
PassesAreFound == phase = "over" =>
    \A i \in DOMAIN Windows :
        LET w == Windows[i]
            passed == {c \in InBatch(BatchOf(w)) : client[c].state = "passed"}
        IN \A c \in passed :
            LET s == Mine(c) IN
            /\ AssignConcurrency(s, Windows) = w.level
            /\ Category(s) \in DOMAIN SatByLevel[i] /\ TopoCategory(s)[1] = Category(s)
            /\ Cardinality({t \in BucketStarts(w) : s \in SessionBucket(w, t)}) = 1
            /\ RouteOf[c].role = "capsule" =>
                 CapsuleTable[i].cells[RouteOf[c]][1]
                   = Cardinality({d \in passed : RouteOf[d] = RouteOf[c]})

\* The analysis counts a registration without an answer as an error, the traces
\* count it as a success: apart from these the error tables of a level add up
\* to the error types of the traces file.
ErrorsAgree(i) ==
    LET w == Windows[i]
        types == TraceErrors(w.level)
        unanswered == {s \in Within(Range(sessions), w) : ~Answered(s)}
        listed(cat) == SumFunction([row \in {r \in ErrorTable(cat) : r[1] = w.level} |-> row[2]])
    IN SumFunction([cat \in DOMAIN SatByLevel[i] |-> listed(cat)])
         = SumFunction(types) + Cardinality(unanswered)

\* The batch dynamics count the sessions the analysis has in its table; the
\* drain curve lacks only what started in the very last moment of the window.
CountsAgree(i) ==
    LET w == Windows[i]
        cells == LevelTable[i].cells
        curve == DrainCurve(w)
        last == {s \in LevelSessions(w) : s.at = w.until}
        lastBacklogs == Backlogs({t \in DOMAIN PumaLog : PumaLog[t].at = w.until})
    IN /\ LevelSummary(w).sessions
            = SumFunction([topo \in {t \in AllTopos : cells[t] # <<>>} |-> cells[topo][1]])
       /\ LevelSummary(w).sessions
            = SumFunction([t \in DOMAIN curve |-> curve[t].sessions]) + Cardinality(last)
       /\ LevelSummary(w).peak
            = Max({0} \cup {curve[t].backlog : t \in DOMAIN curve} \cup lastBacklogs)
       /\ \A topo \in {TopoCategory(s)[1] : s \in LevelSessions(w)} : SampleOf(topo, w) # {}

\* Two scripts look for the level where failures begin; a plateau of one level
\* predicts itself, but for the rounding.
KneesAgree ==
    LET first == Observations.firstFailure IN
    /\ first # 0 => \A row \in Range(SaturationTable) : row.flagged <=> row.level = first
    /\ first = 0 => \A row \in Range(SaturationTable) : row.failed = 0
    /\ \A i \in DOMAIN OverallTable : OverallTable[i].pct < 1000 <=> SaturationTable[i].failed > 0
    /\ Cardinality(Plateau) = 1 =>
         \A i \in Plateau : Prediction[i].delta \in 0..WindowSeconds(Windows[i])

\* The reports are written by four scripts from the same files, each with code
\* of its own for windows, topologies and errors.  They agree.
ReportsAgree == phase = "over" /\ Windows # <<>> =>
    KneesAgree /\ \A i \in DOMAIN Windows : ErrorsAgree(i) /\ CountsAgree(i)
=============================================================================

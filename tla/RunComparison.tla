----------------------------- MODULE RunComparison -----------------------------
(***************************************************************************)
(* compare_runs.py over monitoring_data.py: Jenkins builds run the levels  *)
(* one after the other and leave a JSON file for each; a build may stop at *)
(* any level, or still be running, when its directory is read.  Baseline   *)
(* and batches are averaged over their builds level by level and compared. *)
(* Of the metrics of collectd one is kept, which a file may lack.          *)
(***************************************************************************)
EXTENDS Integers, Sequences, FiniteSets, SequencesExt, FiniteSetsExt

CONSTANTS
    Build,          \* the builds, of which the report takes those below
    Baseline,       \* --baseline
    Batches,        \* --batch, each a set of builds
    Level,          \* the levels, all positive
    Results         \* [Level -> what a file may say: passed, seconds, inserts]

Missing == -1       \* a file without the metric

ASSUME ComparisonAssumption ==
    /\ IsFiniteSet(Build) /\ Baseline \subseteq Build /\ Batches \in Seq(SUBSET Build)
    /\ IsFiniteSet(Level) /\ Level \subseteq Nat \ {0}
    /\ \A lv \in Level : \A r \in Results[lv] :
         r.passed \in 0..lv /\ r.seconds \in Nat /\ r.inserts \in Nat \cup {Missing}

VARIABLE json       \* the files of a build: [levels it has run -> results]
comparisonVars == <<json>>

ComparisonInit == json = [b \in Build |-> <<>>]

LevelsOf(b) == DOMAIN json[b]
Following(b) == {lv \in Level : \A done \in LevelsOf(b) : done < lv}

RunLevel(b) ==
    /\ Following(b) # {}
    /\ LET lv == Min(Following(b)) IN
       \E outcome \in Results[lv] :
         json' = [json EXCEPT ![b] =
            [l \in LevelsOf(b) \cup {lv} |-> IF l = lv THEN outcome ELSE json[b][l]]]

ComparisonNext == \E b \in Build : RunLevel(b)
ComparisonSpec == ComparisonInit /\ [][ComparisonNext]_comparisonVars

-----------------------------------------------------------------------------
(***************************************************************************)
(* monitoring_data.py: a build is known by its first file.  A run without  *)
(* a level is left out of the average of this level.                       *)
(***************************************************************************)
Resolved(builds) == \A b \in builds : LevelsOf(b) # {}

AllLevels(builds) == UNION {LevelsOf(b) : b \in builds}
Having(builds, lv) == {b \in builds : lv \in LevelsOf(b)}

Mean(values) == SumFunction(values) \div Cardinality(DOMAIN values)

\* What the builds say of a level.
PassedOf(builds, lv) == [b \in builds |-> json[b][lv].passed]

\* Faulty: rounded, not cut off.
RoundedMean(builds, lv) ==
    LET n == Cardinality(builds)
    IN (2 * SumFunction(PassedOf(builds, lv)) + n) \div (2 * n)

MeanPassed(builds, lv) == Mean(PassedOf(builds, lv))

\* average_monitoring; the cell of a level.
Averaged(builds, lv) ==
    LET having == Having(builds, lv)
        measured == {b \in having : json[b][lv].inserts # Missing}
    IN [passed |-> MeanPassed(having, lv),
        total |-> lv,
        seconds |-> Mean([b \in having |-> json[b][lv].seconds]),
        inserts |-> IF measured = {} THEN Missing
                    ELSE Mean([b \in measured |-> json[b][lv].inserts])]

PassRate(cell) == (100 * cell.passed) \div cell.total

-----------------------------------------------------------------------------
(***************************************************************************)
(* compare_runs.py.  The baseline is the column 0, a dash is <<>>.         *)
(***************************************************************************)
Columns == <<Baseline>> \o Batches
Levels == UNION {AllLevels(builds) : builds \in Range(Columns)}

CellOf(builds, lv) == IF Having(builds, lv) = {} THEN <<>> ELSE <<Averaged(builds, lv)>>

PctDelta(old, new) == IF old = 0 THEN <<>> ELSE <<(100 * (new - old)) \div old>>

Throughput == [lv \in Levels |->
    [c \in DOMAIN Columns |->
        LET cell == CellOf(Columns[c], lv)
            base == CellOf(Baseline, lv)
        IN [shown |-> cell,
            change |-> IF cell = <<>> \/ base = <<>> THEN <<>>
                       ELSE PctDelta(base[1].seconds, cell[1].seconds)]]]

\* The tables of resources and of the database; a delta needs two values.
MetricTable == [lv \in Levels |->
    [c \in DOMAIN Columns |->
        LET value(builds) == LET cell == CellOf(builds, lv) IN
                             IF cell = <<>> \/ cell[1].inserts = Missing THEN <<>>
                             ELSE <<cell[1].inserts>>
        IN [shown |-> value(Columns[c]),
            change |-> IF value(Columns[c]) = <<>> \/ value(Baseline) = <<>> THEN <<>>
                       ELSE PctDelta(value(Baseline)[1], value(Columns[c])[1])]]]

\* Faulty: also the levels only the other columns have run count as attempted.
AttemptedAll(builds) == SumFunction([lv \in Levels |-> lv])

Attempted(builds) == SumFunction([lv \in AllLevels(builds) |-> Averaged(builds, lv).total])

\* The levels of a column are its own; times are weighted by what passed.
Summary == [c \in DOMAIN Columns |->
    LET builds == Columns[c]
        levels == AllLevels(builds)
        passed == SumFunction([lv \in levels |-> Averaged(builds, lv).passed])
        weighted == SumFunction([lv \in levels |->
                        Averaged(builds, lv).seconds * Averaged(builds, lv).passed])
        measured == {lv \in levels : Averaged(builds, lv).inserts # Missing}
    IN [passed |-> passed, attempted |-> Attempted(builds),
        seconds |-> IF passed = 0 THEN 0 ELSE weighted \div passed,
        inserts |-> IF measured = {} THEN 0
                    ELSE Mean([lv \in measured |-> Averaged(builds, lv).inserts])]]

\* Faulty: a level that only some builds have run is no cliff.
CliffOfAll(builds) ==
    LET steep == {lv \in AllLevels(builds) : Having(builds, lv) = builds
                                             /\ PassRate(Averaged(builds, lv)) < 95}
    IN IF steep = {} THEN 0 ELSE Min(steep)

\* The first level under 95 percent, or 0.
Cliff(builds) ==
    LET steep == {lv \in AllLevels(builds) : PassRate(Averaged(builds, lv)) < 95}
    IN IF steep = {} THEN 0 ELSE Min(steep)

-----------------------------------------------------------------------------
(***************************************************************************)
(* What a comparison may say of builds that ran different levels.          *)
(***************************************************************************)
Reportable == \A builds \in Range(Columns) : Resolved(builds)

\* "averaged": the whole number of average_monitoring shows a level as fully
\* passed exactly when it was in every build that ran it, however many did, and
\* a cliff is reported for a column whenever one of its levels lost a twentieth
\* of its registrations in every build that ran it.
AverageHidesNothing == Reportable =>
    \A builds \in Range(Columns) :
        /\ \A lv \in AllLevels(builds) :
             Averaged(builds, lv).passed = lv <=>
                \A b \in Having(builds, lv) : json[b][lv].passed = lv
        /\ \A lv \in AllLevels(builds) :
             (\A b \in Having(builds, lv) : 100 * json[b][lv].passed < 95 * lv)
                => Cliff(builds) # 0 /\ Cliff(builds) <= lv

\* The executive summary is the sum of the table under it, column by column,
\* with the same dashes left out: the totals, and an average time between the
\* least and the greatest of the table.
SummaryIsTheTable == Reportable =>
    \A c \in DOMAIN Columns :
        LET shown == {lv \in Levels : Throughput[lv][c].shown # <<>>}
            cell(lv) == Throughput[lv][c].shown[1]
            times == {cell(lv).seconds : lv \in {l \in shown : cell(l).passed > 0}}
            metrics == {MetricTable[lv][c].shown[1] : lv \in
                           {l \in Levels : MetricTable[l][c].shown # <<>>}}
        IN /\ Summary[c].passed = SumFunction([lv \in shown |-> cell(lv).passed])
           /\ Summary[c].attempted = SumFunction([lv \in shown |-> cell(lv).total])
           /\ times # {} => Summary[c].seconds \in Min(times)..Max(times)
           /\ metrics # {} => Summary[c].inserts \in Min(metrics)..Max(metrics)

\* Averaging builds and summing levels, compare_runs.py neither hides a failure
\* nor contradicts its own tables.
ComparisonIsFair == AverageHidesNothing /\ SummaryIsTheTable
=============================================================================

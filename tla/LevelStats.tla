----------------------------- MODULE LevelStats -----------------------------
(***************************************************************************)
(* The level statistics of stats_service.go and log_stats.go: rows of each *)
(* level are counted in one statement, ranked, and given a percentage that *)
(* is rounded to one decimal.  Percentages are kept in tenths.  Go computes*)
(* them in float64; for totals below 1000 its rounding is the one here.    *)
(***************************************************************************)
EXTENDS Integers, FiniteSets, SequencesExt

CONSTANTS
    Levels,     \* the levels in the order of their names, a sequence
    MaxRows     \* bound: rows in the table

ASSUME LevelsAssumption == Levels \in Seq(STRING)

VARIABLE counts   \* how many rows of each level match the filter

Ranks == DOMAIN Levels

StatsInit == counts = [l \in Ranks |-> 0]

Total == FoldFunction(+, 0, counts)

Ingest(l) == Total < MaxRows /\ counts' = [counts EXCEPT ![l] = @ + 1]

StatsNext == \E l \in Ranks : Ingest(l)

StatsSpec == StatsInit /\ [][StatsNext]_counts

-----------------------------------------------------------------------------
\* Seeded fault: the second decimal is cut off.
percentageCutOff(count, total) ==
    IF total = 0 THEN 0 ELSE (1000 * count) \div total

\* calculatePercentage, halves rounded up.
calculatePercentage(count, total) ==
    IF total = 0 THEN 0 ELSE (2000 * count + total) \div (2 * total)

\* ORDER BY count DESC, level ASC
ranked(a, b) == counts[a] > counts[b] \/ (counts[a] = counts[b] /\ a < b)

Found == {l \in Ranks : counts[l] > 0}

\* The level at a place of the ranking.
LevelAt(i) == CHOOSE l \in Found : Cardinality({k \in Found : ranked(k, l)}) = i - 1

\* GetLevelStats: the levels that occur, ranked, with their share.
Stats ==
    [ i \in 1..Cardinality(Found) |->
        LET l == LevelAt(i)
        IN  [ level |-> Levels[l], count |-> counts[l],
              percentage |-> calculatePercentage(counts[l], Total) ] ]

Sum == FoldFunction(+, 0, [i \in DOMAIN Stats |-> Stats[i].percentage])

Off == IF Sum > 1000 THEN Sum - 1000 ELSE 1000 - Sum

(* The shares of a non-empty result add up to 100% up to half a tenth for  *)
(* each level, which is what rounding each of them on its own can lose.    *)
RoundingOnly == Stats # << >> => 2 * Off <= Len(Stats)

=============================================================================

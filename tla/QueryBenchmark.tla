--------------------------- MODULE QueryBenchmark ---------------------------
(***************************************************************************)
(* test/performance/query_benchmark.go: it seeds the API with fixture      *)
(* events, checks that the query it measures finds them, lets its workers  *)
(* query until the deadline and judges their latencies.  It may be run     *)
(* again over the database of an earlier run, whose last batch may still   *)
(* be on its way.                                                          *)
(*                                                                         *)
(* The API stores a batch whole and an event once, as IngestionApi shows.  *)
(***************************************************************************)
EXTENDS Integers, FiniteSets, Functions

CONSTANTS
    Records, BatchSize, Workers,
    Latencies,    \* how long a query may take, in ms
    MaxRuns,      \* bound: runs of the program
    MaxQueries,   \* bound: queries of a worker
    MaxFaults     \* bound: calls without the answer they should have

ASSUME SizesAssumption ==
    /\ Records \in Nat \ {0} /\ BatchSize \in Nat \ {0} /\ Latencies \subseteq Nat
    /\ IsFiniteSet(Workers) /\ IsFiniteSet(Latencies) /\ Workers # {}
ASSUME BoundsAssumption == MaxRuns \in Nat /\ MaxQueries \in Nat /\ MaxFaults \in Nat

VARIABLES
    pc,           \* "idle", "seed", "validate", "work" or "exited"
    run,          \* the number of the run
    baseline,     \* usesBaselineParameters(cfg)
    verdict,      \* "none", "passed", "failed" or "error"
    offset, inserted, duplicated,   \* of seedRecords
    stored,       \* [fixtures -> the run that stored them, 0 if none did]
    pending,      \* batches whose sender has given up
    measured,     \* [workers -> their workerResult]
    results,      \* the workers whose result is in the channel
    late,         \* the deadline has passed
    faults

seeding == <<offset, inserted, duplicated>>
work == <<measured, results, late>>
vars == <<pc, run, baseline, verdict, seeding, stored, pending, work, faults>>

Fixtures == 0..Records - 1

NoResult == [times |-> [ms \in Latencies |-> 0], errors |-> 0]

Init ==
    /\ pc = "idle" /\ run = 0 /\ baseline = FALSE /\ verdict = "none"
    /\ offset = 0 /\ inserted = 0 /\ duplicated = 0
    /\ stored = [i \in Fixtures |-> 0] /\ pending = {}
    /\ measured = [w \in Workers |-> NoResult] /\ results = {} /\ late = FALSE
    /\ faults = 0

Fault == faults < MaxFaults /\ faults' = faults + 1

Start ==
    /\ pc \in {"idle", "exited"} /\ run < MaxRuns
    /\ pc' = "seed" /\ run' = run + 1 /\ baseline' \in BOOLEAN /\ verdict' = "none"
    /\ offset' = 0 /\ inserted' = 0 /\ duplicated' = 0
    /\ measured' = [w \in Workers |-> NoResult] /\ results' = {} /\ late' = FALSE
    /\ UNCHANGED <<stored, pending, faults>>

ExitWith(v) == pc' = "exited" /\ verdict' = v

-----------------------------------------------------------------------------
(* seedRecords.                                                            *)

Batch == {i \in Fixtures : offset <= i /\ i < offset + BatchSize}
Fresh(batch) == {i \in batch : stored[i] = 0}
StoreBatch(batch, by) ==
    stored' = [i \in Fixtures |-> IF i \in Fresh(batch) THEN by ELSE stored[i]]

PostBatch ==
    /\ pc = "seed" /\ offset < Records
    /\ StoreBatch(Batch, run)
    /\ inserted' = inserted + Cardinality(Fresh(Batch))
    /\ duplicated' = duplicated + Cardinality(Batch \ Fresh(Batch))
    /\ offset' = offset + BatchSize
    /\ UNCHANGED <<pc, run, baseline, verdict, pending, work, faults>>

\* There is no second attempt; a batch that got no answer may yet be stored.
PostFails ==
    /\ pc = "seed" /\ offset < Records /\ Fault
    /\ pending' \in {pending, pending \cup {[batch |-> Batch, by |-> run]}}
    /\ ExitWith("error")
    /\ UNCHANGED <<run, baseline, seeding, stored, work>>

LateArrival ==
    /\ \E p \in pending : StoreBatch(p.batch, p.by) /\ pending' = pending \ {p}
    /\ UNCHANGED <<pc, run, baseline, verdict, seeding, work, faults>>

\* Seeded fault: duplicates are counted as seeded.
EndSeedWithDuplicates ==
    /\ pc = "seed" /\ offset >= Records
    /\ IF inserted + duplicated = Records
       THEN pc' = "validate" /\ UNCHANGED verdict
       ELSE ExitWith("error")
    /\ UNCHANGED <<run, baseline, seeding, stored, pending, work, faults>>

EndSeed ==
    /\ pc = "seed" /\ offset >= Records
    /\ IF inserted = Records /\ duplicated = 0
       THEN pc' = "validate" /\ UNCHANGED verdict
       ELSE ExitWith("error")
    /\ UNCHANGED <<run, baseline, seeding, stored, pending, work, faults>>

-----------------------------------------------------------------------------
(* validateQuery: container perf-container-01, level INFO.                 *)

\* fixtureEvent, as the filter sees it.
Selected(i) == i % 10 = 1 /\ (i \div 10) % 4 = 0

ExpectedTotal == Cardinality({i \in Fixtures : Selected(i)})

ValidateQuery ==
    /\ pc = "validate"
    /\ LET total == Cardinality({i \in Fixtures : stored[i] # 0 /\ Selected(i)})
       IN  IF total # 0 /\ total = ExpectedTotal
           THEN pc' = "work" /\ UNCHANGED verdict
           ELSE ExitWith("error")
    /\ UNCHANGED <<run, baseline, seeding, stored, pending, work, faults>>

ValidateFails ==
    /\ pc = "validate" /\ Fault
    /\ ExitWith("error")
    /\ UNCHANGED <<run, baseline, seeding, stored, pending, work>>

-----------------------------------------------------------------------------
(* benchmarkQueries and runWorker.                                         *)

Total(times) == FoldFunction(+, 0, times)

\* A query that fails has its time measured too.
Query(w) ==
    /\ pc = "work" /\ ~late /\ w \notin results
    /\ Total(measured[w].times) < MaxQueries
    /\ \E ms \in Latencies, ok \in BOOLEAN :
        /\ measured' = [measured EXCEPT ![w].times[ms] = @ + 1,
                                        ![w].errors = IF ok THEN @ ELSE @ + 1]
        /\ IF ok THEN UNCHANGED faults ELSE Fault
    /\ UNCHANGED <<pc, run, baseline, verdict, seeding, stored, pending, results, late>>

Deadline ==
    /\ pc = "work" /\ ~late /\ late' = TRUE
    /\ UNCHANGED <<pc, run, baseline, verdict, seeding, stored, pending, measured, results, faults>>

\* Seeded fault: the channel has room for all results but one.
CapacityLess == Cardinality(Workers) - 1

\* Of the channel, which nobody reads before every worker is done.
Capacity == Cardinality(Workers)

Send(w) ==
    /\ pc = "work" /\ late /\ w \notin results
    /\ Cardinality(results) < Capacity
    /\ results' = results \cup {w}
    /\ UNCHANGED <<pc, run, baseline, verdict, seeding, stored, pending, measured, late, faults>>

\* Seeded fault: the rank is rounded down.
RankBelow(n, percent) == (percent * n) \div 100

\* ceil of the share, as an index from 1.
Rank(n, percent) == (percent * n + 99) \div 100

\* The latency at the rank in ascending order.
percentile(times, percent) ==
    LET upTo(ms) == Total([t \in {l \in Latencies : l <= ms} |-> times[t]])
        rank     == Rank(Total(times), percent)
    IN  CHOOSE ms \in Latencies :
            upTo(ms) >= rank /\ \A l \in Latencies : upTo(l) >= rank => ms <= l

All == [ms \in Latencies |-> Total([w \in Workers |-> measured[w].times[ms]])]
Requests == Total(All)
Errors == Total([w \in Workers |-> measured[w].errors])

P95MaxMS == 500

ThresholdsPassed == Requests > 0 /\ Errors = 0 /\ percentile(All, 95) <= P95MaxMS

\* workers.Wait, the sums, and the verdict of run.
Report ==
    /\ pc = "work" /\ results = Workers
    /\ ExitWith(IF baseline /\ ThresholdsPassed THEN "passed" ELSE "failed")
    /\ UNCHANGED <<run, baseline, seeding, stored, pending, work, faults>>

-----------------------------------------------------------------------------
Step ==
    \/ PostBatch \/ EndSeed \/ ValidateQuery \/ Deadline \/ Report
    \/ \E w \in Workers : Send(w)

Next ==
    \/ Start \/ PostFails \/ LateArrival \/ ValidateFails
    \/ \E w \in Workers : Query(w)
    \/ Step

Spec == Init /\ [][Next]_vars

\* The program runs, every call has its timeout, and the time passes.
LiveSpec == Spec /\ WF_vars(Step)

-----------------------------------------------------------------------------
\* Type correctness; the answers' counts add up to no more than was sent
\* (postBatch, seedRecords).
TypeOK ==
    /\ pc \in {"idle", "seed", "validate", "work", "exited"}
    /\ run \in 0..MaxRuns /\ baseline \in BOOLEAN
    /\ verdict \in {"none", "passed", "failed", "error"}
    /\ offset \in Nat /\ inserted \in Nat /\ duplicated \in Nat
    /\ inserted + duplicated <= Records
    /\ stored \in [Fixtures -> 0..run]
    /\ pending \subseteq [batch : SUBSET Fixtures, by : 1..run]
    /\ measured \in [Workers -> [times : [Latencies -> Nat], errors : 0..MaxFaults]]
    /\ results \subseteq Workers /\ late \in BOOLEAN /\ faults \in 0..MaxFaults

\* What is measured is the table this run has seeded, whole: never what an
\* earlier run left of its seed, nor a table a late batch still changes.
FreshIsMeasured ==
    pc = "work" \/ verdict \in {"passed", "failed"} => \A i \in Fixtures : stored[i] = run

\* The verdict is true of the queries the workers have made: it is passed
\* exactly when there were some, none failed and 95 in 100 took no longer
\* than the threshold.
VerdictIsTrue ==
    verdict \in {"passed", "failed"} =>
        LET slow == Total([ms \in {l \in Latencies : l > P95MaxMS} |-> All[ms]])
        IN  verdict = "passed" <=>
              /\ baseline /\ Requests > 0
              /\ \A w \in Workers : measured[w].errors = 0
              /\ 100 * slow <= 5 * Requests

\* A benchmark ends: no worker waits for a place in the channel while main
\* waits for the workers.
BenchmarkEnds == pc \in {"seed", "validate", "work"} ~> pc = "exited"
=============================================================================

\* Three batches, two of which hold a row the query selects; two runs of the
\* program.  Twenty-one queries are the fewest of which one may be slow and
\* another may not.  Nobody need run the program again.
SPECIFICATION LiveSpec
CONSTANTS
    Records = 45
    BatchSize = 20
    Workers = {w1, w2}
    Latencies = {500, 501}
    MaxRuns = 2
    MaxQueries = 11
    MaxFaults = 1
    w1 = w1
    w2 = w2
INVARIANTS
    FreshIsMeasured
    VerdictIsTrue
PROPERTIES
    BenchmarkEnds
CHECK_DEADLOCK FALSE

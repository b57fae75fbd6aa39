------------------------ MODULE QueryBenchmarkProofs ------------------------
(***************************************************************************)
(* The benchmark measures what it has seeded, and its verdict is true, for *)
(* any number of records, workers and latencies.  The argument: a run goes *)
(* on after its seed only if every batch of it was stored, and then all    *)
(* rows are its own; and a percentile within the threshold leaves no more  *)
(* samples above it than its rank has behind it.                           *)
(***************************************************************************)
EXTENDS QueryBenchmark, FoldLemmas

Running == pc \in {"seed", "validate", "work"}
Judged == verdict \in {"passed", "failed"}

\* What this run has stored, and the fixtures its batches have gone through.
Seeded == {i \in Fixtures : stored[i] = run}
Below(n) == {i \in Fixtures : i < n}

Counts ==
    /\ pc = "idle" => verdict = "none"
    /\ pc # "idle" => run >= 1
    /\ Running => verdict = "none" /\ inserted <= Cardinality(Seeded)
                  /\ \A p \in pending : p.by < run
    /\ pc = "seed" => inserted + duplicated = Cardinality(Below(offset))

Whole == pc \in {"validate", "work"} \/ Judged => \A i \in Fixtures : stored[i] = run

ErrorsAreFaults == \A w \in Workers : measured[w].errors <= faults

VerdictIsThresholds == Judged => (verdict = "passed" <=> baseline /\ ThresholdsPassed)

IInv ==
    /\ TypeOK
    /\ Counts
    /\ Whole
    /\ ErrorsAreFaults
    /\ VerdictIsThresholds

-----------------------------------------------------------------------------
(* Counting.                                                               *)

LEMMA FixtureFacts ==
    /\ IsFiniteSet(Fixtures) /\ Cardinality(Fixtures) = Records /\ Records \in Nat
    /\ \A S \in SUBSET Fixtures :
         IsFiniteSet(S) /\ Cardinality(S) \in 0..Records /\ (Cardinality(S) = Records => S = Fixtures)
<1>1. Records \in Nat \ {0} /\ Records - 1 \in Int /\ 0 \in Int
  BY SizesAssumption
<1>2. IsFiniteSet(Fixtures) /\ Cardinality(Fixtures) = Records
  BY <1>1, FS_Interval DEF Fixtures
<1>3. ASSUME NEW S \in SUBSET Fixtures
      PROVE  IsFiniteSet(S) /\ Cardinality(S) \in 0..Records /\ (Cardinality(S) = Records => S = Fixtures)
  <2>1. IsFiniteSet(S) /\ Cardinality(S) <= Cardinality(Fixtures)
        /\ (Cardinality(Fixtures) = Cardinality(S) => Fixtures = S)
    BY <1>2, FS_Subset
  <2>2. Cardinality(S) \in Nat
    BY <2>1, FS_CardinalityType
  <2> QED BY <1>1, <1>2, <2>1, <2>2
<1> QED BY <1>1, <1>2, <1>3

LEMMA DisjointCount ==
    ASSUME NEW S \in SUBSET Fixtures, NEW T \in SUBSET Fixtures, S \cap T = {}
    PROVE  Cardinality(S \cup T) = Cardinality(S) + Cardinality(T)
<1>1. IsFiniteSet(S) /\ IsFiniteSet(T) /\ Cardinality(S) \in Nat /\ Cardinality(T) \in Nat
  BY FixtureFacts
<1>2. Cardinality(S \cap T) = 0
  BY FS_EmptySet
<1>3. Cardinality(S \cup T) = Cardinality(S) + Cardinality(T) - Cardinality(S \cap T)
  BY <1>1, FS_Union
<1> QED BY <1>1, <1>2, <1>3

-----------------------------------------------------------------------------
(* The thresholds.                                                         *)

\* The counts of the latencies.
LEMMA AllFacts ==
    ASSUME TypeOK
    PROVE  /\ All \in [Latencies -> Nat]
           /\ Requests = SumOver(All, Latencies) /\ Requests \in Nat
           /\ Errors = 0 <=> \A w \in Workers : measured[w].errors = 0
<1>1. \A w \in Workers : /\ measured[w].times \in [Latencies -> Nat]
                         /\ measured[w].errors \in Nat
  BY BoundsAssumption DEF TypeOK
<1>2. ASSUME NEW ms \in Latencies PROVE Total([w \in Workers |-> measured[w].times[ms]]) \in Nat
  <2> DEFINE f == [w \in Workers |-> measured[w].times[ms]]
  <2>1. \A w \in Workers : f[w] \in Nat
    BY <1>1
  <2>2. Total(f) = SumOver(f, Workers)
    <3>1. DOMAIN f = Workers
      OBVIOUS
    <3> HIDE DEF f
    <3> QED BY <3>1, FoldIsSum DEF Total
  <2> HIDE DEF f
  <2>3. SumOver(f, Workers) \in Nat
    BY <2>1, SizesAssumption, SumOfNaturals
  <2> QED BY <2>2, <2>3 DEF f
<1>3. All \in [Latencies -> Nat]
  BY <1>2 DEF All
<1>4. Requests = SumOver(All, Latencies)
  <2>1. DOMAIN All = Latencies
    BY <1>3
  <2> QED BY <2>1, FoldIsSum DEF Requests, Total
<1>5. Requests \in Nat
  <2>1. \A ms \in Latencies : All[ms] \in Nat
    BY <1>3
  <2> QED BY <1>4, <2>1, SizesAssumption, SumOfNaturals
<1>6. Errors = 0 <=> \A w \in Workers : measured[w].errors = 0
  <2> DEFINE f == [w \in Workers |-> measured[w].errors]
  <2>1. DOMAIN f = Workers /\ \A w \in Workers : f[w] \in Nat
    BY <1>1
  <2>2. Errors = Total(f)
    BY DEF Errors
  <2> HIDE DEF f
  <2>3. Errors = SumOver(f, Workers)
    BY <2>1, <2>2, FoldIsSum DEF Total
  <2>4. SumOver(f, Workers) = 0 <=> \A w \in Workers : f[w] = 0
    BY <2>1, SizesAssumption, SumOfNaturals
  <2> QED BY <2>3, <2>4 DEF f
<1> QED BY <1>3, <1>4, <1>5, <1>6

\* How many queries took no longer than that.
UpTo(times, ms) == Total([t \in {l \in Latencies : l <= ms} |-> times[t]])
Within(ms) == {l \in Latencies : l <= ms}

LEMMA UpToFacts ==
    ASSUME NEW times \in [Latencies -> Nat], NEW ms \in Int
    PROVE  /\ UpTo(times, ms) = SumOver(times, Within(ms))
           /\ SumOver(times, Within(ms)) \in Nat
           /\ \A S \in SUBSET Within(ms) : SumOver(times, S) \in Nat
                                           /\ SumOver(times, S) <= SumOver(times, Within(ms))
<1> DEFINE W == Within(ms)
           f == [t \in W |-> times[t]]
<1>1. W \in SUBSET Latencies /\ IsFiniteSet(W)
  <2>1. W \in SUBSET Latencies
    BY DEF Within
  <2> QED BY <2>1, SizesAssumption, FS_Subset
<1>2. UpTo(times, ms) = Total(f)
  BY DEF UpTo, Within
<1>3. DOMAIN f = W /\ \A t \in W : f[t] = times[t]
  OBVIOUS
<1>4. SumOver(f, W) = SumOver(times, W)
  <2> HIDE DEF f, W
  <2> QED BY <1>1, <1>3, SumAgree
<1>5. Total(f) = SumOver(f, W)
  <2> HIDE DEF f, W
  <2> QED BY <1>3, FoldIsSum DEF Total
<1>6. \A t \in W : times[t] \in Nat /\ times[t] \in Int
  BY <1>1
<1>7. \A S \in SUBSET W : SumOver(times, S) \in Nat
  <2> TAKE S \in SUBSET W
  <2>1. IsFiniteSet(S) /\ \A t \in S : times[t] \in Nat
    BY <1>1, <1>6, FS_Subset
  <2> QED BY <2>1, SumOfNaturals
<1>8. \A S \in SUBSET W : SumOver(times, S) <= SumOver(times, W)
  <2> TAKE S \in SUBSET W
  <2>1. SumOver(times, W) = SumOver(times, S) + SumOver(times, W \ S)
    <3> HIDE DEF W
    <3> QED BY <1>1, <1>6, SumSplit
  <2>2. W \ S \in SUBSET W /\ W \in SUBSET W
    OBVIOUS
  <2> HIDE DEF W
  <2> QED BY <1>7, <2>1, <2>2
<1>9. W \in SUBSET W
  OBVIOUS
<1> HIDE DEF W
<1> QED BY <1>2, <1>4, <1>5, <1>7, <1>8, <1>9 DEF W

\* The percentile is within a limit as the queries within it reach its rank.
LEMMA PercentileFacts ==
    ASSUME NEW times \in [Latencies -> Nat], SumOver(times, Latencies) > 0,
           NEW limit \in Int
    PROVE  percentile(times, 95) <= limit
             <=> Rank(SumOver(times, Latencies), 95) <= SumOver(times, Within(limit))
<1> DEFINE N == SumOver(times, Latencies)
           rank == Rank(N, 95)
           Reached == {ms \in Latencies : UpTo(times, ms) >= rank}
<1>1. N \in Nat /\ N > 0 /\ IsFiniteSet(Latencies) /\ Latencies \in SUBSET Int /\ Latencies \in SUBSET Nat
  <2>1. \A ms \in Latencies : times[ms] \in Nat
    OBVIOUS
  <2>2. N \in Nat
    BY <2>1, SizesAssumption, SumOfNaturals
  <2>3. Latencies \in SUBSET Nat /\ Latencies \in SUBSET Int
    BY SizesAssumption
  <2> QED BY <2>2, <2>3, SizesAssumption
<1>2. rank \in Nat /\ rank >= 1 /\ rank <= N
  <2> HIDE DEF N
  <2> QED BY <1>1 DEF Rank
<1>3. Latencies # {}
  BY SumEmpty
<1>4. PICK last \in Latencies : \A k \in Latencies : k <= last
  BY <1>1, <1>3, GreatestNumber
<1>5. last \in Reached
  <2>1. Within(last) = Latencies
    BY <1>4 DEF Within
  <2>2. UpTo(times, last) = N
    BY <1>1, <2>1, UpToFacts
  <2> HIDE DEF N
  <2> QED BY <1>1, <1>2, <2>2
<1>6. PICK first \in Reached : \A k \in Reached : first <= k
  <2>1. Reached \in SUBSET Nat /\ Reached # {}
    BY <1>1, <1>5
  <2> HIDE DEF Reached
  <2> QED BY <2>1, LeastNumber
<1> DEFINE p == percentile(times, 95)
<1>7. p \in Reached /\ \A k \in Reached : p <= k
  <2>1. N = Total(times)
    <3>1. DOMAIN times = Latencies
      OBVIOUS
    <3> QED BY <3>1, FoldIsSum DEF Total
  <2>2. p = CHOOSE ms \in Latencies : UpTo(times, ms) >= rank
                                      /\ \A l \in Latencies : UpTo(times, l) >= rank => ms <= l
    BY <2>1 DEF percentile, UpTo
  <2> HIDE DEF p, rank
  <2>3. \E ms \in Latencies : UpTo(times, ms) >= rank
                               /\ \A l \in Latencies : UpTo(times, l) >= rank => ms <= l
    BY <1>6
  <2> QED BY <2>2, <2>3
<1> HIDE DEF p, rank, N
<1>8. p \in Latencies /\ p \in Int /\ rank <= SumOver(times, Within(p))
  <2>1. p \in Int /\ UpTo(times, p) >= rank /\ p \in Latencies
    BY <1>1, <1>7
  <2>2. UpTo(times, p) = SumOver(times, Within(p)) /\ SumOver(times, Within(p)) \in Nat
    BY <2>1, UpToFacts
  <2> QED BY <1>2, <2>1, <2>2
<1>9. ASSUME p <= limit PROVE rank <= SumOver(times, Within(limit))
  <2>1. Within(p) \in SUBSET Within(limit)
    <3>1. \A l \in Latencies : l \in Int
      BY <1>1
    <3>2. \A l \in Latencies : l <= p => l <= limit
      BY <1>8, <1>9, <3>1
    <3> QED BY <3>2 DEF Within
  <2>2. /\ SumOver(times, Within(p)) \in Nat /\ SumOver(times, Within(limit)) \in Nat
        /\ SumOver(times, Within(p)) <= SumOver(times, Within(limit))
    BY <2>1, UpToFacts
  <2> QED BY <1>2, <1>8, <2>2
<1>10. ASSUME rank <= SumOver(times, Within(limit)) PROVE p <= limit
  <2>1. Within(limit) # {}
    BY <1>2, <1>10, SumEmpty
  <2>2. Within(limit) \in SUBSET Latencies /\ IsFiniteSet(Within(limit))
    <3>1. Within(limit) \in SUBSET Latencies
      BY DEF Within
    <3> QED BY <1>1, <3>1, FS_Subset
  <2>3. PICK m \in Within(limit) : \A k \in Within(limit) : k <= m
    <3>1. Within(limit) \in SUBSET Int
      BY <1>1, <2>2
    <3> QED BY <2>1, <2>2, <3>1, GreatestNumber
  <2>4. m \in Latencies /\ m \in Int /\ m <= limit
    BY <1>1, <2>3 DEF Within
  <2>5. Within(m) = Within(limit)
    <3>1. \A l \in Latencies : l \in Int
      BY <1>1
    <3>2. \A l \in Latencies : l <= m <=> l <= limit
      <4> TAKE l \in Latencies
      <4>1. l <= limit => l <= m
        BY <2>3 DEF Within
      <4>2. l <= m => l <= limit
        BY <2>4, <3>1
      <4> QED BY <4>1, <4>2
    <3> QED BY <3>2 DEF Within
  <2>6. m \in Reached
    <3>1. UpTo(times, m) = SumOver(times, Within(limit)) /\ SumOver(times, Within(limit)) \in Nat
      BY <2>4, <2>5, UpToFacts
    <3> QED BY <1>2, <1>10, <2>4, <3>1
  <2>7. p <= m
    BY <1>7, <2>6
  <2> QED BY <1>8, <2>4, <2>7
<1> QED BY <1>9, <1>10 DEF p, rank, N

\* ThresholdsPassed says what the verdict should mean.
LEMMA ThresholdsMean ==
    ASSUME TypeOK
    PROVE  ThresholdsPassed <=>
             /\ Requests > 0 /\ \A w \in Workers : measured[w].errors = 0
             /\ 100 * Total([ms \in {l \in Latencies : l > P95MaxMS} |-> All[ms]]) <= 5 * Requests
<1> DEFINE Slow == {l \in Latencies : l > P95MaxMS}
           f == [ms \in Slow |-> All[ms]]
           fast == SumOver(All, Within(P95MaxMS))
           slow == SumOver(All, Slow)
<1>1. /\ All \in [Latencies -> Nat] /\ Requests = SumOver(All, Latencies) /\ Requests \in Nat
      /\ Errors = 0 <=> \A w \in Workers : measured[w].errors = 0
  BY AllFacts
<1>2. IsFiniteSet(Latencies) /\ Slow \in SUBSET Latencies /\ IsFiniteSet(Slow)
      /\ Within(P95MaxMS) \in SUBSET Latencies
  <2>1. Slow \in SUBSET Latencies /\ Within(P95MaxMS) \in SUBSET Latencies
    BY DEF Within
  <2> QED BY <2>1, SizesAssumption, FS_Subset
<1>3. Total(f) = slow
  <2>1. DOMAIN f = Slow /\ \A ms \in Slow : f[ms] = All[ms]
    OBVIOUS
  <2> HIDE DEF f, Slow
  <2>2. Total(f) = SumOver(f, Slow)
    BY <2>1, FoldIsSum DEF Total
  <2>3. SumOver(f, Slow) = SumOver(All, Slow)
    BY <1>2, <2>1, SumAgree
  <2> QED BY <2>2, <2>3
<1>4. Requests = fast + slow
  <2>1. Latencies \ Within(P95MaxMS) = Slow
    <3>1. \A l \in Latencies : l \in Nat
      BY SizesAssumption
    <3>2. \A l \in Latencies : ~(l <= P95MaxMS) <=> l > P95MaxMS
      BY <3>1 DEF P95MaxMS
    <3> QED BY <3>2 DEF Within
  <2>2. \A l \in Latencies : All[l] \in Int
    BY <1>1
  <2> HIDE DEF Slow
  <2> QED BY <1>1, <1>2, <2>1, <2>2, SumSplit
<1>5. fast \in Nat /\ slow \in Nat
  <2>1. fast \in Nat
    BY <1>1, UpToFacts DEF P95MaxMS
  <2>2. \A l \in Slow : All[l] \in Nat
    BY <1>1, <1>2
  <2> HIDE DEF Slow
  <2> QED BY <1>2, <2>1, <2>2, SumOfNaturals
<1>6. Requests > 0 =>
        (percentile(All, 95) <= P95MaxMS <=> Rank(Requests, 95) <= fast)
  BY <1>1, PercentileFacts DEF P95MaxMS
<1> HIDE DEF Slow, f, fast, slow
<1>7. Rank(Requests, 95) <= fast <=> 100 * slow <= 5 * Requests
  BY <1>1, <1>4, <1>5 DEF Rank
<1>8. Total([ms \in {l \in Latencies : l > P95MaxMS} |-> All[ms]]) = slow
  BY <1>3 DEF Slow, f
<1> HIDE <1>3
<1> QED BY <1>1, <1>6, <1>7, <1>8 DEF ThresholdsPassed

-----------------------------------------------------------------------------
(* Every step keeps the invariant.                                         *)

LEMMA BatchFacts ==
    ASSUME TypeOK, NEW batch \in SUBSET Fixtures, NEW by \in 1..run, StoreBatch(batch, by)
    PROVE  /\ stored' \in [Fixtures -> 0..run]
           /\ \A i \in Fixtures : stored[i] # 0 => stored'[i] = stored[i]
           /\ \A i \in Fixtures : stored'[i] \in {stored[i], by}
           /\ \A i \in Fresh(batch) : stored[i] = 0 /\ stored'[i] = by /\ i \in Fixtures
<1>1. stored' = [i \in Fixtures |-> IF i \in Fresh(batch) THEN by ELSE stored[i]]
  BY DEF StoreBatch
<1>2. run \in Nat /\ stored \in [Fixtures -> 0..run]
  BY BoundsAssumption DEF TypeOK
<1>3. Fresh(batch) \subseteq Fixtures /\ \A i \in Fresh(batch) : stored[i] = 0
  BY DEF Fresh
<1>4. \A i \in Fixtures : stored'[i] = IF i \in Fresh(batch) THEN by ELSE stored[i]
  BY <1>1
<1>5. by \in 0..run
  BY <1>2
<1>6. stored' \in [Fixtures -> 0..run]
  <2>1. \A i \in Fixtures : (IF i \in Fresh(batch) THEN by ELSE stored[i]) \in 0..run
    BY <1>2, <1>5
  <2> QED BY <1>1, <2>1
<1> QED BY <1>3, <1>4, <1>6

LEMMA NoResultType ==
    NoResult \in [times : [Latencies -> Nat], errors : 0..MaxFaults] /\ NoResult.errors = 0
BY BoundsAssumption DEF NoResult

LEMMA InitInv == Init => IInv
<1> SUFFICES ASSUME Init PROVE IInv
  OBVIOUS
<1>1. Records \in Nat /\ MaxFaults \in Nat /\ MaxRuns \in Nat
  BY SizesAssumption, BoundsAssumption
<1>2. TypeOK
  <2>1. measured \in [Workers -> [times : [Latencies -> Nat], errors : 0..MaxFaults]]
    BY NoResultType DEF Init
  <2>2. stored \in [Fixtures -> 0..run] /\ run \in 0..MaxRuns /\ faults \in 0..MaxFaults
    BY <1>1 DEF Init
  <2>3. offset \in Nat /\ inserted \in Nat /\ duplicated \in Nat /\ inserted + duplicated <= Records
    BY <1>1 DEF Init
  <2> QED BY <2>1, <2>2, <2>3 DEF Init, TypeOK
<1>3. Counts /\ Whole /\ VerdictIsThresholds
  BY DEF Init, Counts, Running, Whole, Judged, VerdictIsThresholds
<1>4. ErrorsAreFaults
  BY NoResultType DEF Init, ErrorsAreFaults
<1> QED BY <1>2, <1>3, <1>4 DEF IInv

LEMMA StartInv == ASSUME IInv, Start PROVE IInv'
<1> USE DEF IInv
<1>1. /\ pc' = "seed" /\ run' = run + 1 /\ baseline' \in BOOLEAN /\ verdict' = "none"
      /\ run < MaxRuns
      /\ offset' = 0 /\ inserted' = 0 /\ duplicated' = 0
      /\ measured' = [w \in Workers |-> NoResult] /\ results' = {} /\ late' = FALSE
      /\ UNCHANGED <<stored, pending, faults>>
  BY DEF Start
<1>2. run \in 0..MaxRuns /\ MaxRuns \in Nat /\ faults \in 0..MaxFaults /\ Records \in Nat
  BY BoundsAssumption, SizesAssumption DEF TypeOK
<1>3. TypeOK'
  <2>1. stored' \in [Fixtures -> 0..run'] /\ pending' \subseteq [batch : SUBSET Fixtures, by : 1..run']
    <3>1. 0..run \subseteq 0..run' /\ 1..run \subseteq 1..run'
      BY <1>1, <1>2
    <3> QED BY <1>1, <3>1 DEF TypeOK
  <2>2. measured' \in [Workers -> [times : [Latencies -> Nat], errors : 0..MaxFaults]]
    BY <1>1, NoResultType
  <2>3. run' \in 0..MaxRuns /\ inserted' + duplicated' <= Records
        /\ offset' \in Nat /\ inserted' \in Nat /\ duplicated' \in Nat
    BY <1>1, <1>2
  <2> QED BY <1>1, <2>1, <2>2, <2>3 DEF TypeOK
<1>4. Counts'
  <2>1. \A p \in pending : p.by < run'
    BY <1>1, <1>2 DEF TypeOK
  <2>2. Cardinality(Below(offset')) = 0
    <3>1. Below(offset') = {}
      BY <1>1, <1>2 DEF Fixtures, Below
    <3> QED BY <3>1, FS_EmptySet
  <2>3. inserted' <= Cardinality(Seeded')
    <3>1. Seeded' \in SUBSET Fixtures
      BY DEF Seeded
    <3>2. Cardinality(Seeded') \in Nat
      BY <3>1, FixtureFacts
    <3> QED BY <1>1, <3>2
  <2>4. inserted' + duplicated' = 0 /\ run' >= 1
    BY <1>1, <1>2
  <2> QED BY <1>1, <2>1, <2>2, <2>3, <2>4 DEF Counts, Running
<1>5. Whole' /\ VerdictIsThresholds'
  BY <1>1 DEF Whole, Judged, VerdictIsThresholds
<1>6. ErrorsAreFaults'
  BY <1>1, <1>2, NoResultType DEF ErrorsAreFaults
<1> QED BY <1>3, <1>4, <1>5, <1>6

LEMMA PostBatchInv == ASSUME IInv, PostBatch PROVE IInv'
<1> USE DEF IInv
<1>1. /\ pc = "seed" /\ StoreBatch(Batch, run)
      /\ inserted' = inserted + Cardinality(Fresh(Batch))
      /\ duplicated' = duplicated + Cardinality(Batch \ Fresh(Batch))
      /\ offset' = offset + BatchSize
      /\ UNCHANGED <<pc, run, baseline, verdict, pending, measured, results, late, faults>>
  BY DEF PostBatch, work
<1>2. /\ run \in Nat /\ run \in 1..run /\ offset \in Nat /\ inserted \in Nat /\ duplicated \in Nat
      /\ BatchSize \in Nat /\ Records \in Nat
  BY <1>1, BoundsAssumption, SizesAssumption DEF TypeOK, Counts
<1>3. Batch \in SUBSET Fixtures /\ Fresh(Batch) \in SUBSET Fixtures
      /\ Batch \ Fresh(Batch) \in SUBSET Fixtures
  BY DEF Batch, Fresh
<1>4. /\ stored' \in [Fixtures -> 0..run]
      /\ \A i \in Fixtures : stored[i] # 0 => stored'[i] = stored[i]
      /\ \A i \in Fresh(Batch) : stored[i] = 0 /\ stored'[i] = run /\ i \in Fixtures
  BY <1>1, <1>2, <1>3, BatchFacts
<1>5. Cardinality(Batch) = Cardinality(Fresh(Batch)) + Cardinality(Batch \ Fresh(Batch))
  <2>1. Fresh(Batch) \cup (Batch \ Fresh(Batch)) = Batch /\ Fresh(Batch) \cap (Batch \ Fresh(Batch)) = {}
    BY DEF Fresh
  <2> QED BY <1>3, <2>1, DisjointCount
<1>6. Cardinality(Below(offset + BatchSize)) = Cardinality(Below(offset)) + Cardinality(Batch)
  <2>1. Below(offset) \in SUBSET Fixtures
    BY DEF Below
  <2>2. \A i \in Fixtures : i \in Int
    BY DEF Fixtures
  <2>3. Below(offset) \cap Batch = {} /\ Below(offset) \cup Batch = Below(offset + BatchSize)
    BY <1>2, <2>2 DEF Batch, Below
  <2> QED BY <1>3, <2>1, <2>3, DisjointCount
<1>7. inserted + duplicated = Cardinality(Below(offset))
  BY <1>1 DEF Counts
<1>8. /\ Cardinality(Fresh(Batch)) \in Nat /\ Cardinality(Batch \ Fresh(Batch)) \in Nat
      /\ Cardinality(Batch) \in Nat
      /\ Cardinality(Below(offset)) \in Nat /\ Cardinality(Below(offset + BatchSize)) \in 0..Records
  <2>1. Below(offset) \in SUBSET Fixtures /\ Below(offset + BatchSize) \in SUBSET Fixtures
    BY DEF Below
  <2> QED BY <1>3, <2>1, FixtureFacts
<1>9. /\ inserted' \in Nat /\ duplicated' \in Nat /\ offset' \in Nat
      /\ inserted' + duplicated' = Cardinality(Below(offset'))
      /\ inserted' + duplicated' <= Records
  <2> QED BY <1>1, <1>2, <1>5, <1>6, <1>7, <1>8
<1>10. TypeOK'
  BY <1>1, <1>4, <1>9 DEF TypeOK
<1>11. inserted' <= Cardinality(Seeded')
  <2>1. Seeded \in SUBSET Fixtures /\ Seeded' \in SUBSET Fixtures
    BY DEF Seeded
  <2>2. Seeded \cap Fresh(Batch) = {} /\ Seeded \cup Fresh(Batch) \in SUBSET Seeded'
    BY <1>1, <1>2, <1>4 DEF Seeded
  <2>3. Cardinality(Seeded \cup Fresh(Batch)) = Cardinality(Seeded) + Cardinality(Fresh(Batch))
    BY <1>3, <2>1, <2>2, DisjointCount
  <2>4. Cardinality(Seeded \cup Fresh(Batch)) <= Cardinality(Seeded')
    <3>1. IsFiniteSet(Seeded')
      BY <2>1, FixtureFacts
    <3> QED BY <2>2, <3>1, FS_Subset
  <2>5. inserted <= Cardinality(Seeded) /\ Cardinality(Seeded) \in Nat
        /\ Cardinality(Seeded') \in Nat
    BY <1>1, <2>1, FixtureFacts DEF Counts, Running
  <2> QED BY <1>1, <1>2, <1>8, <2>3, <2>4, <2>5
<1>12. Counts'
  BY <1>1, <1>2, <1>9, <1>11 DEF Counts, Running
<1>13. Whole' /\ VerdictIsThresholds' /\ ErrorsAreFaults'
  BY <1>1 DEF Whole, Judged, VerdictIsThresholds, ErrorsAreFaults, Counts, Running
<1> QED BY <1>10, <1>12, <1>13

LEMMA LateArrivalInv == ASSUME IInv, LateArrival PROVE IInv'
<1> USE DEF IInv
<1>1. PICK p \in pending : StoreBatch(p.batch, p.by) /\ pending' = pending \ {p}
  BY DEF LateArrival
<1>2. UNCHANGED <<pc, run, baseline, verdict, offset, inserted, duplicated, measured, results, late, faults>>
  BY DEF LateArrival, seeding, work
<1>3. p.batch \in SUBSET Fixtures /\ p.by \in 1..run /\ run \in Nat /\ (Running => p.by < run)
  BY <1>1, BoundsAssumption DEF TypeOK, Counts
<1>4. /\ stored' \in [Fixtures -> 0..run]
      /\ \A i \in Fixtures : stored[i] # 0 => stored'[i] = stored[i]
  BY <1>1, <1>3, BatchFacts
<1>5. TypeOK'
  BY <1>1, <1>2, <1>4 DEF TypeOK
<1>6. Counts'
  <2>1. Running => inserted' <= Cardinality(Seeded')
    <3> SUFFICES ASSUME Running PROVE inserted' <= Cardinality(Seeded')
      OBVIOUS
    <3>1. Seeded \in SUBSET Fixtures /\ Seeded' \in SUBSET Fixtures
      BY DEF Seeded
    <3>2. run # 0
      BY DEF Counts, Running
    <3>3. Seeded \in SUBSET Seeded'
      BY <1>2, <1>4, <3>2 DEF Seeded
    <3>4. Cardinality(Seeded) <= Cardinality(Seeded')
      <4>1. IsFiniteSet(Seeded')
        BY <3>1, FixtureFacts
      <4> QED BY <3>3, <4>1, FS_Subset
    <3>5. /\ inserted <= Cardinality(Seeded) /\ inserted \in Nat
          /\ Cardinality(Seeded) \in Nat /\ Cardinality(Seeded') \in Nat
      BY <3>1, FixtureFacts DEF Counts, TypeOK
    <3> QED BY <1>2, <3>4, <3>5
  <2> QED BY <1>1, <1>2, <2>1 DEF Counts, Running
<1>7. Whole'
  <2>1. pc \in {"validate", "work"} \/ Judged => run # 0
    BY DEF Counts, Judged
  <2> QED BY <1>2, <1>4, <2>1 DEF Whole, Judged
<1>8. VerdictIsThresholds' /\ ErrorsAreFaults'
  BY <1>2 DEF VerdictIsThresholds, Judged, ErrorsAreFaults, ThresholdsPassed, Requests, Errors, All
<1> QED BY <1>5, <1>6, <1>7, <1>8

\* The steps that store nothing and judge nothing.
LEMMA QuietInv ==
    ASSUME IInv, UNCHANGED <<run, baseline, offset, inserted, duplicated, stored, measured>>,
           pc # "idle", pc' \in {"seed", "validate", "work", "exited"},
           verdict' \in {verdict, "error"},
           pc' # "exited" => UNCHANGED <<verdict, pending>> /\ Running,
           pc' = "seed" => pc = "seed",
           pc' \in {"validate", "work"} => \A i \in Fixtures : stored[i] = run,
           results' \subseteq Workers, late' \in BOOLEAN, faults' \in 0..MaxFaults, faults <= faults',
           pending' \subseteq [batch : SUBSET Fixtures, by : 1..run]
    PROVE  IInv'
<1> USE DEF IInv
<1>1. TypeOK'
  BY DEF TypeOK
<1>2. Seeded' = Seeded /\ Below(offset') = Below(offset)
  BY DEF Seeded
<1>3. Counts'
  BY <1>2 DEF Counts, Running
<1>4. Whole'
  BY DEF Whole, Judged, Counts, Running
<1>5. VerdictIsThresholds'
  BY DEF VerdictIsThresholds, Judged, ThresholdsPassed, Requests, Errors, All
<1>6. ErrorsAreFaults'
  <2>1. faults \in Nat /\ faults' \in Nat
    BY BoundsAssumption DEF TypeOK
  <2>2. \A w \in Workers : measured[w].errors \in Nat
    BY BoundsAssumption DEF TypeOK
  <2> QED BY <2>1, <2>2 DEF ErrorsAreFaults
<1> QED BY <1>1, <1>3, <1>4, <1>5, <1>6

\* A query is counted under its latency, and a failed one among the errors.
LEMMA QueryInv == ASSUME IInv, NEW w \in Workers, Query(w) PROVE IInv'
<1> USE DEF IInv
<1>1. PICK ms \in Latencies, ok \in BOOLEAN :
        /\ measured' = [measured EXCEPT ![w].times[ms] = @ + 1,
                                        ![w].errors = IF ok THEN @ ELSE @ + 1]
        /\ IF ok THEN UNCHANGED faults ELSE Fault
  BY DEF Query
<1>2. /\ pc = "work"
      /\ UNCHANGED <<pc, run, baseline, verdict, offset, inserted, duplicated, stored, pending, results, late>>
  BY DEF Query, seeding
<1>3. /\ measured \in [Workers -> [times : [Latencies -> Nat], errors : 0..MaxFaults]]
      /\ \A v \in Workers : measured[v].times \in [Latencies -> Nat] /\ measured[v].errors \in 0..MaxFaults
      /\ faults \in 0..MaxFaults /\ MaxFaults \in Nat /\ measured[w].errors <= faults
  BY BoundsAssumption DEF TypeOK, ErrorsAreFaults
<1> DEFINE t == [measured[w].times EXCEPT ![ms] = @ + 1]
           e == IF ok THEN measured[w].errors ELSE measured[w].errors + 1
<1>4. measured' = [measured EXCEPT ![w] = [times |-> t, errors |-> e]]
  <2> DEFINE timed == [measured EXCEPT ![w].times[ms] = @ + 1]
             record == [measured[w] EXCEPT !.times = t]
  <2>1. measured' = [timed EXCEPT ![w].errors = IF ok THEN @ ELSE @ + 1]
    BY <1>1, <1>3
  <2>2. timed = [measured EXCEPT ![w] = record]
    BY Zenon
  <2>3. record = [times |-> t, errors |-> measured[w].errors]
    <3>1. measured[w] \in [times : [Latencies -> Nat], errors : 0..MaxFaults]
      BY <1>3
    <3> HIDE DEF t
    <3> QED BY <3>1
  <2> HIDE DEF timed, t, record
  <2>4. timed[w] = record
    BY <1>3, <2>2
  <2>5. timed[w].errors = measured[w].errors
    BY <2>3, <2>4
  <2>6. [timed EXCEPT ![w].errors = IF ok THEN @ ELSE @ + 1] = [timed EXCEPT ![w] = [timed[w] EXCEPT !.errors = e]]
    BY <2>5, Zenon
  <2>7. [timed[w] EXCEPT !.errors = e] = [times |-> t, errors |-> e]
    <3> HIDE DEF e
    <3> QED BY <2>3, <2>4
  <2> HIDE DEF e
  <2> QED BY <1>3, <2>1, <2>2, <2>6, <2>7
<1>5. t \in [Latencies -> Nat]
  BY <1>3
<1>6. faults' \in 0..MaxFaults /\ faults <= faults' /\ e \in 0..MaxFaults /\ e <= faults'
  BY <1>1, <1>3 DEF Fault
<1> HIDE DEF t, e
<1>7. measured' \in [Workers -> [times : [Latencies -> Nat], errors : 0..MaxFaults]]
  BY <1>3, <1>4, <1>5, <1>6
<1>8. TypeOK'
  BY <1>2, <1>6, <1>7 DEF TypeOK
<1>9. verdict = "none"
  BY <1>2 DEF Counts, Running
<1>10. Counts' /\ Whole' /\ VerdictIsThresholds'
  <2>1. Seeded' = Seeded /\ Below(offset') = Below(offset)
    BY <1>2 DEF Seeded
  <2> QED BY <1>2, <1>9, <2>1 DEF Counts, Running, Whole, Judged, VerdictIsThresholds
<1>11. ErrorsAreFaults'
  <2> SUFFICES ASSUME NEW v \in Workers PROVE measured'[v].errors <= faults'
    BY DEF ErrorsAreFaults
  <2>1. CASE v = w
    BY <1>3, <1>4, <1>6, <2>1
  <2>2. CASE v # w
    <3>1. measured'[v] = measured[v] /\ measured[v].errors <= faults
      BY <1>3, <1>4, <2>2 DEF ErrorsAreFaults
    <3>2. measured[v].errors \in Nat /\ faults \in Nat /\ faults' \in Nat
      BY <1>3, <1>6
    <3> QED BY <1>6, <3>1, <3>2
  <2> QED BY <2>1, <2>2
<1> QED BY <1>8, <1>10, <1>11

LEMMA ReportInv == ASSUME IInv, Report PROVE IInv'
<1> USE DEF IInv
<1>1. /\ pc = "work" /\ pc' = "exited"
      /\ verdict' = IF baseline /\ ThresholdsPassed THEN "passed" ELSE "failed"
      /\ UNCHANGED <<run, baseline, offset, inserted, duplicated, stored, pending, measured, results, late, faults>>
  BY DEF Report, ExitWith, seeding, work
<1>2. TypeOK'
  BY <1>1 DEF TypeOK
<1>3. Counts' /\ Whole' /\ ErrorsAreFaults'
  BY <1>1 DEF Counts, Running, Whole, Judged, ErrorsAreFaults
<1>4. ThresholdsPassed' = ThresholdsPassed
  BY <1>1 DEF ThresholdsPassed, Requests, Errors, All
<1>5. VerdictIsThresholds'
  BY <1>1, <1>4 DEF VerdictIsThresholds, Judged
<1> QED BY <1>2, <1>3, <1>5

LEMMA StepInv == ASSUME IInv, [Next]_vars PROVE IInv'
<1> USE DEF IInv
<1>0. /\ faults \in 0..MaxFaults /\ MaxFaults \in Nat /\ run \in Nat
      /\ results \subseteq Workers /\ late \in BOOLEAN
      /\ pending \subseteq [batch : SUBSET Fixtures, by : 1..run]
      /\ pc \in {"idle", "seed", "validate", "work", "exited"}
      /\ pc \in {"validate", "work"} => \A i \in Fixtures : stored[i] = run
  BY BoundsAssumption DEF TypeOK, Whole
<1>1. CASE PostFails
  <2>1. /\ pc = "seed" /\ pc' = "exited" /\ verdict' = "error"
        /\ UNCHANGED <<run, baseline, offset, inserted, duplicated, stored, measured, results, late>>
        /\ faults' = faults + 1 /\ faults < MaxFaults
        /\ pending' \in {pending, pending \cup {[batch |-> Batch, by |-> run]}}
    BY <1>1 DEF PostFails, Fault, ExitWith, seeding, work
  <2>2. Batch \in SUBSET Fixtures /\ run \in 1..run
    BY <1>0, <2>1 DEF Batch, Counts
  <2>3. pending' \subseteq [batch : SUBSET Fixtures, by : 1..run]
    BY <1>0, <2>1, <2>2
  <2>4. results' \subseteq Workers /\ late' \in BOOLEAN /\ faults' \in 0..MaxFaults /\ faults <= faults'
    BY <1>0, <2>1
  <2> QED BY <2>1, <2>3, <2>4, QuietInv
<1>2. CASE EndSeed
  <2>1. /\ pc = "seed" /\ Running
        /\ UNCHANGED <<run, baseline, offset, inserted, duplicated, stored, measured, results, late, pending, faults>>
        /\ \/ pc' = "validate" /\ verdict' = verdict /\ inserted = Records
           \/ pc' = "exited" /\ verdict' = "error"
    BY <1>2 DEF EndSeed, ExitWith, seeding, work, Running
  <2>2. inserted = Records => \A i \in Fixtures : stored[i] = run
    <3> SUFFICES ASSUME inserted = Records PROVE Seeded = Fixtures
      BY DEF Seeded
    <3>1. Seeded \in SUBSET Fixtures
      BY DEF Seeded
    <3>2. Cardinality(Seeded) >= Records
      BY <2>1 DEF Counts
    <3> QED BY <3>1, <3>2, FixtureFacts
  <2>3. faults <= faults' /\ faults' \in 0..MaxFaults
    BY <1>0, <2>1
  <2> QED BY <1>0, <2>1, <2>2, <2>3, QuietInv
<1>3. CASE ValidateQuery
  <2>1. /\ pc = "validate" /\ Running
        /\ UNCHANGED <<run, baseline, offset, inserted, duplicated, stored, measured, results, late, pending, faults>>
        /\ \/ pc' = "work" /\ verdict' = verdict
           \/ pc' = "exited" /\ verdict' = "error"
    BY <1>3 DEF ValidateQuery, ExitWith, seeding, work, Running
  <2>2. faults <= faults' /\ faults' \in 0..MaxFaults
    BY <1>0, <2>1
  <2> QED BY <1>0, <2>1, <2>2, QuietInv
<1>4. CASE ValidateFails
  <2>1. /\ pc = "validate" /\ pc' = "exited" /\ verdict' = "error"
        /\ UNCHANGED <<run, baseline, offset, inserted, duplicated, stored, measured, results, late, pending>>
        /\ faults' = faults + 1 /\ faults < MaxFaults
    BY <1>4 DEF ValidateFails, Fault, ExitWith, seeding, work
  <2>2. faults <= faults' /\ faults' \in 0..MaxFaults
    BY <1>0, <2>1
  <2> QED BY <1>0, <2>1, <2>2, QuietInv
<1>5. CASE Deadline
  <2>1. /\ pc = "work" /\ pc' = pc /\ late' = TRUE /\ Running
        /\ UNCHANGED <<run, baseline, verdict, offset, inserted, duplicated, stored, measured, results, pending, faults>>
    BY <1>5 DEF Deadline, seeding, Running
  <2>2. faults <= faults' /\ faults' \in 0..MaxFaults
    BY <1>0, <2>1
  <2> QED BY <1>0, <2>1, <2>2, QuietInv
<1>6. ASSUME NEW w \in Workers, Send(w) PROVE IInv'
  <2>1. /\ pc = "work" /\ pc' = pc /\ results' = results \cup {w} /\ Running
        /\ UNCHANGED <<run, baseline, verdict, offset, inserted, duplicated, stored, measured, late, pending, faults>>
    BY <1>6 DEF Send, seeding, Running
  <2>2. faults <= faults' /\ faults' \in 0..MaxFaults /\ results' \subseteq Workers
    BY <1>0, <2>1
  <2> QED BY <1>0, <2>1, <2>2, QuietInv
<1>7. CASE UNCHANGED vars
  <2>1. UNCHANGED <<pc, run, baseline, verdict, offset, inserted, duplicated, stored, pending, measured, results, late, faults>>
    BY <1>7 DEF vars, seeding, work
  <2>2. Seeded' = Seeded /\ Below(offset') = Below(offset)
    BY <2>1 DEF Seeded
  <2> QED BY <2>1, <2>2 DEF TypeOK, Counts, Running, Whole, Judged, ErrorsAreFaults,
             VerdictIsThresholds, ThresholdsPassed, Requests, Errors, All
<1> QED BY <1>1, <1>2, <1>3, <1>4, <1>5, <1>6, <1>7, StartInv, PostBatchInv, LateArrivalInv, QueryInv, ReportInv
        DEF Next, Step

LEMMA Invariance == Spec => []IInv
<1>1. Init => IInv
  BY InitInv
<1>2. IInv /\ [Next]_vars => IInv'
  BY StepInv
<1> QED BY <1>1, <1>2, PTL DEF Spec

-----------------------------------------------------------------------------
(* What follows.                                                           *)

(* Type correctness of the benchmark (query_benchmark.go), for any number  *)
(* of records, workers and latencies.                                      *)
THEOREM TypeCorrect == Spec => []TypeOK
<1>1. IInv => TypeOK
  BY DEF IInv
<1> QED BY <1>1, Invariance, PTL

(* What a run measures is the fixture it has seeded, whole, whatever       *)
(* earlier runs left in the table (seedRecords and validateQuery).         *)
THEOREM OwnSeedIsMeasured == Spec => []FreshIsMeasured
<1>1. IInv => FreshIsMeasured
  BY DEF IInv, Whole, Judged, FreshIsMeasured
<1> QED BY <1>1, Invariance, PTL

(* A verdict is passed exactly when the run used the baseline parameters,  *)
(* its workers have made queries, none failed, and at most 5 in 100 took   *)
(* longer than the threshold (percentile, benchmarkQueries, run).          *)
THEOREM VerdictsAreTrue == Spec => []VerdictIsTrue
<1>1. IInv => VerdictIsTrue
  BY ThresholdsMean DEF IInv, VerdictIsThresholds, Judged, VerdictIsTrue
<1> QED BY <1>1, Invariance, PTL

=============================================================================

------------------------ MODULE LogstashDeliveryProofs ------------------------
(***************************************************************************)
(* For any files, sizes of batches and queues and any faults, a line that  *)
(* validation accepts gets lost in a body that is too large and nowhere    *)
(* else.  The argument: a status Logstash does not retry is the API's own  *)
(* answer to the batch at the head of the queue, and all keys the API took *)
(* of it are stored; a batch of the configured size, of which only sound   *)
(* lines are posted, is refused for its bytes or for nothing.              *)
(***************************************************************************)
EXTENDS LogstashDelivery, FiniteSetTheorems, SequenceTheorems, TLAPS

-----------------------------------------------------------------------------
(* The inductive invariant.                                                *)

StoredKeys == {Key(l) : l \in {x \in Events : Kind(x) = "stored"}}

\* What ends a batch is the API's decision on it.
FinalAnswerIsTrue ==
    attempt = "answered" /\ status \notin RetryableCodes =>
        /\ status = StatusOf(CallOf(Posted(Batch)))
        /\ KeysTaken(CallOf(Posted(Batch))) \subseteq stored

IInv == TypeOK /\ FinalAnswerIsTrue

-----------------------------------------------------------------------------
(* What is posted, and what becomes of it.                                 *)

LEMMA PostedFacts ==
    ASSUME NEW lines \in Seq(Lines)
    PROVE  /\ DOMAIN Posted(lines) = {i \in 1..Len(lines) : Shape[lines[i]] = "event"}
           /\ \A i \in DOMAIN Posted(lines) : Posted(lines)[i] = lines[i]
           /\ \A i \in DOMAIN Posted(lines) : Shape[Posted(lines)[i]] = "event"
           /\ ToSet(Posted(lines)) \subseteq Lines
<1> DEFINE P == {i \in DOMAIN lines : Shape[lines[i]] = "event"}
<1>1. DOMAIN lines = 1..Len(lines) /\ \A i \in 1..Len(lines) : lines[i] \in Lines
  OBVIOUS
<1>2. Posted(lines) = [i \in P |-> lines[i]]
  BY DEF Posted, Restrict
<1> HIDE DEF P
<1>3. DOMAIN Posted(lines) = P /\ \A i \in P : Posted(lines)[i] = lines[i]
  BY <1>2
<1>4. P = {i \in 1..Len(lines) : Shape[lines[i]] = "event"} /\ P \subseteq 1..Len(lines)
  BY <1>1 DEF P
<1>5. \A x \in ToSet(Posted(lines)) : x \in Lines
  BY <1>1, <1>3, <1>4 DEF ToSet
<1>6. \A i \in P : Shape[lines[i]] = "event"
  BY DEF P
<1> QED BY <1>3, <1>4, <1>5, <1>6

LEMMA SizeOfCall ==
    ASSUME NEW lines \in Seq(Lines), Len(lines) <= BatchSize
    PROVE  /\ Cardinality(DOMAIN Posted(lines)) \in Nat
           /\ Cardinality(DOMAIN Posted(lines)) <= MaxBatch
<1>1. Len(lines) \in Nat
  OBVIOUS
<1>2. IsFiniteSet(1..Len(lines)) /\ Cardinality(1..Len(lines)) = Len(lines)
  BY <1>1, FS_Interval
<1>3. DOMAIN Posted(lines) \subseteq 1..Len(lines)
  BY PostedFacts
<1>4. /\ Cardinality(DOMAIN Posted(lines)) <= Len(lines)
      /\ IsFiniteSet(DOMAIN Posted(lines))
  BY <1>2, <1>3, FS_Subset
<1>5. Cardinality(DOMAIN Posted(lines)) \in Nat
  BY <1>4, FS_CardinalityType
<1> QED BY <1>1, <1>4, <1>5, BatchFitsCall, MaxBatchAssumption

\* Of a call whatever is taken has a key of its own.
LEMMA TakenKeys ==
    ASSUME NEW lines, ToSet(lines) \subseteq Lines
    PROVE  KeysTaken(CallOf(lines)) \subseteq StoredKeys
<1> DEFINE c == CallOf(lines)
<1>1. CASE Decided(c)
  BY <1>1 DEF KeysTaken
<1>2. CASE ~Decided(c)
  <2>1. RefusedAs(c) = 0
    BY <1>2 DEF Decided
  <2>2. c.form # "malformed" /\ c.form # "oversized"
    BY <2>1 DEF RefusedAs
  <2>3. \A i \in DOMAIN lines : Shape[lines[i]] = "event"
    BY <2>2 DEF CallOf
  <2>4. \A i \in DOMAIN lines : lines[i] \in Events
    BY <2>3, LinesAssumption DEF ToSet
  <2>5. KeysTaken(c) = KeysOf(lines)
    BY <1>2 DEF KeysTaken, CallOf
  <2> QED BY <2>4, <2>5 DEF KeysOf, Valid, StoredKeys
<1> QED BY <1>1, <1>2

LEMMA Statuses ==
    ASSUME NEW c PROVE StatusOf(c) \in {200, 400, 413, 500}
BY DEF StatusOf, RefusedAs

\* A batch is refused for its bytes, or its keys are taken, or it is retried.
LEMMA FinalAnswers ==
    ASSUME NEW lines \in Seq(Lines), Len(lines) <= BatchSize, ~NothingToPost(lines),
           StatusOf(CallOf(Posted(lines))) \notin RetryableCodes
    PROVE  \/ BodyBytes(Posted(lines)) > MaxBody
           \/ KeysTaken(CallOf(Posted(lines))) = KeysOf(Posted(lines))
<1> DEFINE c == CallOf(Posted(lines))
<1> DEFINE fits == ~(BodyBytes(Posted(lines)) > MaxBody)
<1>1. \A i \in DOMAIN Posted(lines) : Shape[Posted(lines)[i]] = "event"
  BY PostedFacts
<1>2. fits => c.endpoint = "bulk" /\ c.form = "json" /\ c.events = Posted(lines)
  BY <1>1 DEF CallOf
<1>3. Cardinality(DOMAIN Posted(lines)) \in Nat /\ Cardinality(DOMAIN Posted(lines)) <= MaxBatch
  BY SizeOfCall
<1>4. DOMAIN Posted(lines) # {}
  BY DEF NothingToPost
<1> HIDE DEF c, fits
<1>6. fits => ~(Cardinality(DOMAIN c.events) > MaxBatch) /\ DOMAIN c.events # {}
  BY <1>2, <1>3, <1>4, MaxBatchAssumption
<1>7. fits => RefusedAs(c) = 0
  BY <1>2, <1>6 DEF RefusedAs
<1>8. fits => Failing(c.events) = {}
  BY <1>7 DEF StatusOf, RetryableCodes, c
<1>9. fits => KeysTaken(c) = KeysOf(Posted(lines))
  BY <1>2, <1>7, <1>8 DEF KeysTaken, Decided
<1> QED BY <1>9 DEF fits, c

\* A sound line of a batch is among those whose keys a call has.
LEMMA PostedKeys ==
    ASSUME NEW lines \in Seq(Lines), NEW l \in ToSet(lines), Storable(l)
    PROVE  Key(l) \in KeysOf(Posted(lines)) /\ Among(l, Posted(lines))
<1>1. PICK i \in 1..Len(lines) : lines[i] = l
  BY DEF ToSet
<1>2. i \in DOMAIN Posted(lines) /\ Posted(lines)[i] = l
  BY <1>1, PostedFacts DEF Storable
<1> QED BY <1>2 DEF KeysOf, Valid, Storable, Among, ToSet

-----------------------------------------------------------------------------
(* The queue.                                                              *)

LEMMA ConcatKeeps ==
    ASSUME NEW s \in Seq(Lines), NEW t \in Seq(Lines)
    PROVE  /\ s \o t \in Seq(Lines) /\ Len(s \o t) = Len(s) + Len(t)
           /\ ToSet(s) \subseteq ToSet(s \o t) /\ ToSet(t) \subseteq ToSet(s \o t)
<1>1. /\ s \o t \in Seq(Lines) /\ Len(s \o t) = Len(s) + Len(t)
      /\ Len(s) \in Nat /\ Len(t) \in Nat
  OBVIOUS
<1>2. \A i \in 1..Len(s) : i \in DOMAIN (s \o t) /\ (s \o t)[i] = s[i]
  BY <1>1
<1>3. \A i \in 1..Len(t) : Len(s) + i \in DOMAIN (s \o t) /\ (s \o t)[Len(s) + i] = t[i]
  BY <1>1
<1>4. DOMAIN s = 1..Len(s) /\ DOMAIN t = 1..Len(t)
  OBVIOUS
<1>5. ToSet(s) \subseteq ToSet(s \o t)
  BY <1>2, <1>4 DEF ToSet
<1>6. ToSet(t) \subseteq ToSet(s \o t)
  BY <1>3, <1>4 DEF ToSet
<1> QED BY <1>1, <1>5, <1>6

LEMMA BatchFacts ==
    ASSUME TypeOK
    PROVE  Batch \in Seq(Lines) /\ Len(Batch) = taken /\ Len(Batch) <= BatchSize
<1>1. pq \in Seq(Lines) /\ taken \in Nat /\ taken <= Len(pq) /\ taken <= BatchSize
  BY BatchFitsCall DEF TypeOK
<1> QED BY <1>1 DEF Batch

\* What leaves the queue with a batch is the batch.
LEMMA RestOfQueue ==
    ASSUME TypeOK
    PROVE  /\ SubSeq(pq, taken + 1, Len(pq)) \in Seq(Lines)
           /\ Len(SubSeq(pq, taken + 1, Len(pq))) = Len(pq) - taken
           /\ ToSet(pq) \subseteq ToSet(Batch) \cup ToSet(SubSeq(pq, taken + 1, Len(pq)))
<1> DEFINE rest == SubSeq(pq, taken + 1, Len(pq))
<1>1. pq \in Seq(Lines) /\ taken \in Nat /\ taken <= Len(pq)
  BY BatchFitsCall DEF TypeOK
<1>2. rest \in Seq(Lines) /\ Len(rest) = Len(pq) - taken
  BY <1>1
<1>3. \A i \in 1..Len(rest) : rest[i] = pq[taken + i]
  BY <1>1
<1>4. Batch \in Seq(Lines) /\ Len(Batch) = taken /\ \A i \in 1..taken : Batch[i] = pq[i]
  BY <1>1 DEF Batch
<1>5. ASSUME NEW i \in 1..Len(pq) PROVE pq[i] \in ToSet(Batch) \cup ToSet(rest)
  <2>1. CASE i <= taken
    <3>1. i \in 1..taken
      BY <2>1
    <3> QED BY <1>4, <3>1 DEF ToSet
  <2>2. CASE i > taken
    <3>1. i - taken \in 1..Len(rest) /\ rest[i - taken] = pq[i]
      BY <1>1, <1>2, <1>3, <2>2
    <3> QED BY <1>2, <3>1 DEF ToSet
  <2> QED BY <1>1, <2>1, <2>2
<1>6. ToSet(pq) = {pq[i] : i \in 1..Len(pq)}
  BY <1>1 DEF ToSet
<1> QED BY <1>2, <1>5, <1>6

\* A batch stays what it is when lines join the queue behind it.
LEMMA BatchStays ==
    ASSUME NEW s \in Seq(Lines), NEW t \in Seq(Lines), NEW n \in 0..Len(s)
    PROVE  SubSeq(s \o t, 1, n) = SubSeq(s, 1, n)
OBVIOUS

LEMMA PostedLinesOfBatch ==
    ASSUME TypeOK PROVE ToSet(Posted(Batch)) \subseteq Lines
BY BatchFacts, PostedFacts

-----------------------------------------------------------------------------
(* Every step keeps the invariant.                                         *)

LEMMA InitInv == Init => IInv
<1> SUFFICES ASSUME Init PROVE IInv
  OBVIOUS
<1>1. file \in Seq(Lines) /\ Len(file) \in Nat
  BY LinesAssumption DEF Init
<1>2. << >> \in Seq(Lines) /\ Len(<< >>) = 0
  OBVIOUS
<1> QED BY <1>1, <1>2, BatchFitsQueue, BatchFitsCall, FaultsAssumption, MaxBatchAssumption
        DEF Init, IInv, TypeOK, FinalAnswerIsTrue

\* What the output has finished leaves the queue and waits for the checkpoint.
LEMMA AcknowledgeKeeps ==
    ASSUME IInv, Acknowledge, UNCHANGED <<file, registry, late, stored, api, faults>>
    PROVE  IInv'
<1>1. /\ Batch \in Seq(Lines) /\ Len(Batch) = taken
      /\ SubSeq(pq, taken + 1, Len(pq)) \in Seq(Lines)
      /\ Len(SubSeq(pq, taken + 1, Len(pq))) = Len(pq) - taken
  BY BatchFacts, RestOfQueue DEF IInv
<1>2. resent \o Batch \in Seq(Lines) /\ Len(resent \o Batch) = Len(resent) + Len(Batch)
  BY <1>1, ConcatKeeps DEF IInv, TypeOK
<1>3. /\ pq \in Seq(Lines) /\ resent \in Seq(Lines) /\ Len(resent) + Len(pq) <= QueueMax
      /\ taken \in 0..Len(pq)
  BY BatchFitsCall DEF IInv, TypeOK
<1>4. /\ pq' = SubSeq(pq, taken + 1, Len(pq)) /\ resent' = resent \o Batch
      /\ taken' = 0 /\ attempt' = "idle" /\ status' = 0
  BY DEF Acknowledge
<1>5. pq' \in Seq(Lines) /\ resent' \in Seq(Lines)
  BY <1>1, <1>2, <1>4
<1>6. Len(pq') = Len(pq) - taken /\ Len(resent') = Len(resent) + taken
  BY <1>1, <1>2, <1>4
<1>7. Len(resent') + Len(pq') <= QueueMax /\ taken' <= Len(pq')
  <2>1. Len(pq) \in Nat /\ Len(resent) \in Nat /\ taken \in Nat /\ QueueMax \in Nat
    BY <1>3, BatchFitsQueue
  <2>2. taken <= Len(pq) /\ Len(resent) + Len(pq) <= QueueMax
    BY <1>3
  <2>3. taken' = 0 /\ Len(pq') = Len(pq) - taken /\ Len(resent') = Len(resent) + taken
    BY <1>4, <1>6
  <2> QED BY ONLY <2>1, <2>2, <2>3
<1>8. 0 \in 0..BatchSize
  BY BatchFitsCall, MaxBatchAssumption
<1>9. TypeOK'
  BY <1>4, <1>5, <1>7, <1>8 DEF IInv, TypeOK
<1> QED BY <1>4, <1>9 DEF IInv, FinalAnswerIsTrue

LEMMA StepInv == IInv /\ [Next]_vars => IInv'
<1> SUFFICES ASSUME IInv, [Next]_vars PROVE IInv'
  OBVIOUS
<1> USE DEF IInv
<1>0. /\ pq \in Seq(Lines) /\ resent \in Seq(Lines) /\ Len(resent) + Len(pq) <= QueueMax
      /\ taken \in 0..Len(pq) /\ taken \in 0..BatchSize /\ BatchSize \in Nat
      /\ file \in Seq(Lines)
  BY BatchFitsCall, MaxBatchAssumption, LinesAssumption DEF TypeOK
<1>1. CASE Publish
  <2>1. PICK n \in 1..BulkMax :
          /\ registry + n <= Len(file)
          /\ Len(resent) + Len(pq) + n <= QueueMax
          /\ pq' = pq \o SubSeq(file, registry + 1, registry + n)
          /\ \/ registry' = registry + n /\ faults' = faults
             \/ registry' = registry /\ Fault
    BY <1>1 DEF Publish
  <2> DEFINE more == SubSeq(file, registry + 1, registry + n)
  <2>2. n \in Nat /\ registry \in 0..Len(file)
    BY BatchFitsQueue DEF TypeOK
  <2>3. more \in Seq(Lines) /\ Len(more) = n
    BY <1>0, <2>1, <2>2
  <2> HIDE DEF more
  <2>4. pq' \in Seq(Lines) /\ Len(pq') = Len(pq) + n
    BY <1>0, <2>1, <2>3, ConcatKeeps DEF more
  <2>5. Batch' = Batch
    BY <1>0, <1>1, <2>1, <2>3, BatchStays DEF Batch, Publish, more
  <2>6. registry' \in 0..Len(file)
    BY <2>1, <2>2, <1>0
  <2>7. faults' \in 0..MaxFaults
    BY <2>1, FaultsAssumption DEF Fault, TypeOK
  <2>8. /\ file' = file /\ taken' = taken /\ attempt' = attempt /\ status' = status
        /\ late' = late /\ resent' = resent /\ stored' = stored /\ api' = api
    BY <1>1 DEF Publish
  <2>9. Len(resent') + Len(pq') <= QueueMax /\ taken' <= Len(pq')
    BY <1>0, <2>1, <2>2, <2>4, <2>8, BatchFitsQueue
  <2>10. TypeOK'
    BY <2>4, <2>5, <2>6, <2>7, <2>8, <2>9 DEF TypeOK
  <2>11. FinalAnswerIsTrue'
    BY <2>5, <2>8 DEF FinalAnswerIsTrue
  <2> QED BY <2>10, <2>11
<1>2. CASE TakeBatch
  BY <1>0, <1>2 DEF TypeOK, FinalAnswerIsTrue, TakeBatch
<1>3. CASE Skip
  BY <1>3, AcknowledgeKeeps DEF Skip
<1>4. CASE Post
  <2>1. Batch' = Batch
    BY <1>4 DEF Post, Batch
  <2> QED BY <1>4, <2>1 DEF TypeOK, FinalAnswerIsTrue, Post
<1>5. CASE Finish
  BY <1>5, AcknowledgeKeeps DEF Finish
<1>6. CASE Retry
  BY <1>6 DEF TypeOK, FinalAnswerIsTrue, Retry
<1>7. CASE Checkpoint
  <2>1. Batch' = Batch
    BY <1>7 DEF Checkpoint, Batch
  <2>2. << >> \in Seq(Lines) /\ Len(<< >>) + Len(pq) <= QueueMax
    BY <1>0, BatchFitsQueue
  <2> QED BY <1>7, <2>1, <2>2 DEF TypeOK, FinalAnswerIsTrue, Checkpoint
<1>8. CASE GiveUp
  <2>1. \A lines \in late' : ToSet(lines) \subseteq Lines
    BY <1>8, PostedLinesOfBatch DEF GiveUp, TypeOK
  <2> QED BY <1>8, <2>1, FaultsAssumption DEF TypeOK, FinalAnswerIsTrue, GiveUp, Fault
<1>9. CASE Restart
  <2>1. \A lines \in late' : ToSet(lines) \subseteq Lines
    BY <1>9, PostedLinesOfBatch DEF Restart, TypeOK
  <2>2. pq' \in Seq(Lines) /\ Len(pq') = Len(resent) + Len(pq)
    BY <1>0, <1>9, ConcatKeeps DEF Restart
  <2>3. << >> \in Seq(Lines) /\ Len(<< >>) + Len(pq') <= QueueMax /\ 0 <= Len(pq')
    BY <1>0, <2>2, BatchFitsQueue
  <2> QED BY <1>0, <1>9, <2>1, <2>2, <2>3, FaultsAssumption
          DEF TypeOK, FinalAnswerIsTrue, Restart, Fault
<1>10. CASE ApiUp
  <2>1. Batch' = Batch
    BY <1>10 DEF ApiUp, Batch
  <2> QED BY <1>10, <2>1 DEF TypeOK, FinalAnswerIsTrue, ApiUp
<1>11. CASE ApiDown
  <2>1. Batch' = Batch
    BY <1>11 DEF ApiDown, Batch
  <2> QED BY <1>11, <2>1, FaultsAssumption DEF TypeOK, FinalAnswerIsTrue, ApiDown, Fault
<1>12. CASE ApiAnswers
  <2> DEFINE c == CallOf(Posted(Batch))
  <2>1. Batch' = Batch
    BY <1>12 DEF ApiAnswers, Batch
  <2>2. KeysTaken(c) \subseteq StoredKeys
    BY PostedLinesOfBatch, TakenKeys
  <2>3. StatusOf(c) # 0
    BY Statuses
  <2> HIDE DEF c
  <2>4. stored' = stored \cup KeysTaken(c) /\ status' = StatusOf(c)
    BY <1>12 DEF ApiAnswers, c
  <2>5. stored' \subseteq StoredKeys
    BY <2>2, <2>4 DEF TypeOK, StoredKeys
  <2>6. TypeOK'
    BY <1>12, <2>1, <2>3, <2>4, <2>5 DEF TypeOK, ApiAnswers, StoredKeys
  <2>7. FinalAnswerIsTrue'
    BY <2>1, <2>4 DEF FinalAnswerIsTrue, c
  <2> QED BY <2>6, <2>7
<1>13. CASE ApiFails
  <2>1. Batch' = Batch
    BY <1>13 DEF ApiFails, Batch
  <2> QED BY <1>13, <2>1, FaultsAssumption
          DEF TypeOK, FinalAnswerIsTrue, ApiFails, Fault, RetryableCodes
<1>14. CASE Refused
  BY <1>14 DEF TypeOK, FinalAnswerIsTrue, Refused
<1>15. CASE LateArrival
  <2>1. Batch' = Batch
    BY <1>15 DEF LateArrival, Batch
  <2>2. PICK lines \in late :
          /\ late' = late \ {lines}
          /\ stored' = stored \/ stored' = stored \cup KeysTaken(CallOf(lines))
    BY <1>15 DEF LateArrival
  <2>3. KeysTaken(CallOf(lines)) \subseteq StoredKeys
    BY <2>2, TakenKeys DEF TypeOK
  <2>4. stored \subseteq stored' /\ stored' \subseteq StoredKeys
    BY <2>2, <2>3 DEF TypeOK, StoredKeys
  <2>5. \A x \in late' : ToSet(x) \subseteq Lines
    BY <2>2 DEF TypeOK
  <2>6. TypeOK'
    BY <1>15, <2>1, <2>4, <2>5 DEF TypeOK, LateArrival, StoredKeys
  <2>7. FinalAnswerIsTrue'
    BY <1>15, <2>1, <2>4 DEF FinalAnswerIsTrue, LateArrival
  <2> QED BY <2>6, <2>7
<1>16. CASE UNCHANGED vars
  <2>1. Batch' = Batch
    BY <1>16 DEF vars, Batch
  <2> QED BY <1>16, <2>1 DEF TypeOK, FinalAnswerIsTrue, vars
<1> QED BY <1>1, <1>2, <1>3, <1>4, <1>5, <1>6, <1>7, <1>8, <1>9, <1>10, <1>11,
           <1>12, <1>13, <1>14, <1>15, <1>16 DEF Next, Logstash

LEMMA Invariant == Spec => []IInv
<1> QED BY InitInv, StepInv, PTL DEF Spec

-----------------------------------------------------------------------------
(* The theorems.                                                           *)

(* The pipeline's state keeps its shape, whatever the files, the sizes and *)
(* the faults: the queue is never over its limit, what is not checkpointed *)
(* counted in, a batch is a prefix of the queue and no longer than         *)
(* configured, only a batch with something to post is posted, and the      *)
(* table holds keys of events that validation accepts and no others.       *)
THEOREM TypeCorrect == Spec => []TypeOK
<1>1. IInv => TypeOK
  BY DEF IInv
<1> QED BY <1>1, Invariant, PTL

\* A line is held as long as its key is stored or it is in the queue.
Held(l) == Key(l) \in stored \/ Among(l, pq)

\* What a finished batch takes out of the queue without storing it.
LEMMA FinishedLines ==
    ASSUME IInv, Acknowledge, attempt = "answered", status \notin RetryableCodes,
           stored' = stored, NEW l \in Lines, Storable(l), Held(l), ~Held(l)'
    PROVE  Among(l, Posted(Batch)) /\ BodyBytes(Posted(Batch)) > MaxBody
<1>1. pq' = SubSeq(pq, taken + 1, Len(pq))
  BY DEF Acknowledge
<1>2. Among(l, pq) /\ ~Among(l, pq') /\ Key(l) \notin stored
  BY DEF Held
<1>3. l \in ToSet(Batch)
  BY <1>1, <1>2, RestOfQueue DEF IInv, Among
<1>4. Batch \in Seq(Lines) /\ Len(Batch) <= BatchSize
  BY BatchFacts DEF IInv
<1>5. Key(l) \in KeysOf(Posted(Batch)) /\ Among(l, Posted(Batch))
  BY <1>3, <1>4, PostedKeys
<1>6. /\ StatusOf(CallOf(Posted(Batch))) \notin RetryableCodes
      /\ KeysTaken(CallOf(Posted(Batch))) \subseteq stored
      /\ ~NothingToPost(Batch)
  BY DEF IInv, FinalAnswerIsTrue, TypeOK
<1>7. \/ BodyBytes(Posted(Batch)) > MaxBody
      \/ KeysTaken(CallOf(Posted(Batch))) = KeysOf(Posted(Batch))
  BY <1>4, <1>6, FinalAnswers
<1> QED BY <1>2, <1>5, <1>6, <1>7

\* A skipped batch takes no line out of the queue that could be stored.
LEMMA SkippedLines ==
    ASSUME IInv, Acknowledge, NothingToPost(Batch),
           stored' = stored, NEW l \in Lines, Storable(l), Held(l)
    PROVE  Held(l)'
<1> SUFFICES ASSUME ~Held(l)' PROVE FALSE
  OBVIOUS
<1>1. pq' = SubSeq(pq, taken + 1, Len(pq))
  BY DEF Acknowledge
<1>2. Among(l, pq) /\ ~Among(l, pq')
  BY DEF Held
<1>3. l \in ToSet(Batch)
  BY <1>1, <1>2, RestOfQueue DEF IInv, Among
<1>4. Among(l, Posted(Batch))
  BY <1>3, BatchFacts, PostedKeys DEF IInv
<1> QED BY <1>4 DEF NothingToPost, Among, ToSet

LEMMA StepLosesTooLarge ==
    ASSUME IInv, [Next]_vars, NEW l \in Lines, Storable(l), Held(l), ~Held(l)'
    PROVE  Among(l, Posted(Batch)) /\ BodyBytes(Posted(Batch)) > MaxBody
<1>0. pq \in Seq(Lines) /\ resent \in Seq(Lines) /\ file \in Seq(Lines)
  BY LinesAssumption DEF IInv, TypeOK
<1>1. CASE Publish
  <2>1. PICK n \in 1..BulkMax :
          /\ registry + n <= Len(file)
          /\ pq' = pq \o SubSeq(file, registry + 1, registry + n)
    BY <1>1 DEF Publish
  <2>2. SubSeq(file, registry + 1, registry + n) \in Seq(Lines)
    BY <1>0, <2>1, BatchFitsQueue DEF IInv, TypeOK
  <2>3. ToSet(pq) \subseteq ToSet(pq') /\ stored' = stored
    BY <1>0, <1>1, <2>1, <2>2, ConcatKeeps DEF Publish
  <2> QED BY <2>3 DEF Held, Among
<1>2. CASE Skip
  BY <1>2, SkippedLines DEF Skip
<1>3. CASE Finish
  BY <1>3, FinishedLines DEF Finish
<1>4. CASE Restart
  <2>1. ToSet(pq) \subseteq ToSet(pq') /\ stored' = stored
    BY <1>0, <1>4, ConcatKeeps DEF Restart
  <2> QED BY <2>1 DEF Held, Among
<1>5. CASE \/ TakeBatch \/ Post \/ Retry \/ Checkpoint \/ GiveUp \/ ApiUp \/ ApiDown
           \/ ApiAnswers \/ ApiFails \/ Refused \/ LateArrival \/ UNCHANGED vars
  <2>1. pq' = pq /\ stored \subseteq stored'
    BY <1>5 DEF TakeBatch, Post, Retry, Checkpoint, GiveUp, ApiUp, ApiDown,
                ApiAnswers, ApiFails, Refused, LateArrival, vars
  <2> QED BY <2>1 DEF Held, Among
<1> QED BY <1>1, <1>2, <1>3, <1>4, <1>5 DEF Next, Logstash

(* A line that validation accepts leaves the queue unstored only with a    *)
(* batch whose body is too large, for any files and limits: no other       *)
(* status that ends a batch (retryable_codes of the HTTP output) is given  *)
(* to a batch whose sound lines the API has not stored.                    *)
THEOREM LossesAreTooLarge == Spec => OnlyTooLargeIsLost
<1>1. IInv /\ [Next]_vars =>
        [ \A l \in Lines :
            LET H == Key(l) \in stored \/ Among(l, pq) IN
            (Storable(l) /\ H /\ ~H') =>
                /\ Among(l, Posted(Batch))
                /\ BodyBytes(Posted(Batch)) > MaxBody ]_vars
  BY StepLosesTooLarge DEF Held
<1> QED BY <1>1, Invariant, PTL DEF Spec, OnlyTooLargeIsLost

===============================================================================

-------------------------- MODULE LogstashDelivery --------------------------
(***************************************************************************)
(* The way of a log line from the collected file to the table, as the      *)
(* deployment files configure it:                                          *)
(*                                                                         *)
(*   log file --Filebeat--> persistent queue --Logstash--> POST --> API    *)
(*                                                                         *)
(* Filebeat repeats what Logstash has not acknowledged.  Logstash keeps a  *)
(* batch in its queue until the HTTP output is done with it, and repeats a *)
(* call that ends with a retryable status, a timeout or a broken           *)
(* connection, for ever.  A call Logstash has given up on may still reach  *)
(* the API, and reach it after the repetition.                             *)
(*                                                                         *)
(* The API is what IdempotentStore promises of it: it takes the keys of a  *)
(* call at once, whether or not the answer arrives.  IngestionService      *)
(* decides what it answers.                                                *)
(***************************************************************************)
EXTENDS IngestionService, Functions, SequencesExt

CONSTANTS
    LogFiles,     \* the files that may be collected: lines in file order
    Shape,        \* [lines -> "event", "invalid_json" or "bad_type"]
    Size,         \* [lines -> bytes it takes in the request body]
    MaxBody,      \* MAX_INGEST_BODY_BYTES
    BulkMax,      \* output.logstash bulk_max_size
    BatchSize,    \* pipeline.batch.size
    QueueMax,     \* queue.max_bytes, in lines
    MaxFaults     \* bound: lost acknowledgements, failed or lost calls, crashes

Lines == UNION {ToSet(f) : f \in LogFiles}

ASSUME LinesAssumption ==
    /\ \A f \in LogFiles : f \in Seq(Lines)
    /\ \A l \in Lines : Shape[l] \in {"event", "invalid_json", "bad_type"} /\ Size[l] \in Nat
    /\ \A l \in Lines : Shape[l] = "event" => l \in Events
\* The deployment's batches are within MAX_INGEST_BATCH_SIZE.
ASSUME BatchFitsQueue == QueueMax \in Nat /\ BulkMax \in 1..QueueMax
ASSUME BatchFitsCall == BatchSize \in 1..MaxBatch
ASSUME FaultsAssumption == MaxFaults \in Nat

VARIABLES
    file,         \* the log file, complete from the beginning
    registry,     \* lines Logstash has acknowledged to Filebeat
    pq,           \* the persistent queue
    taken,        \* how many lines at its head the pipeline has in work
    attempt,      \* the HTTP output: "idle", "sent" or "answered"
    status,       \* the status it was answered with
    late,         \* bodies of calls given up on that may still arrive
    resent,       \* acknowledged batches a crash would still replay
    stored,       \* keys in the logs table
    api,          \* "up" or "down"
    faults

vars == <<file, registry, pq, taken, attempt, status, late, resent, stored, api, faults>>

Init ==
    /\ file \in LogFiles
    /\ registry = 0 /\ pq = << >> /\ taken = 0
    /\ attempt = "idle" /\ status = 0 /\ late = {} /\ resent = << >>
    /\ stored = {} /\ api = "down" /\ faults = 0

Fault == faults < MaxFaults /\ faults' = faults + 1

-----------------------------------------------------------------------------
(* What the pipeline makes of a batch.                                     *)

Batch == SubSeq(pq, 1, taken)

\* Seeded fault: values of an unexpected type are passed through.
PostedUntyped(lines) == Restrict(lines, {i \in DOMAIN lines : Shape[lines[i]] # "invalid_json"})

\* The filter tags lines that are no JSON or have a field of another type,
\* and the output writes those to the console instead of posting them.  The
\* others keep their places.
Posted(lines) == Restrict(lines, {i \in DOMAIN lines : Shape[lines[i]] = "event"})

NothingToPost(lines) == DOMAIN Posted(lines) = {}

BodyBytes(lines) == FoldFunction(+, 0, [i \in DOMAIN lines |-> Size[lines[i]]])

\* The call the HTTP output makes of them.  One field of another type makes
\* the whole array undecodable.
CallOf(lines) ==
    [ endpoint |-> "bulk",
      form     |-> IF BodyBytes(lines) > MaxBody THEN "oversized"
                   ELSE IF \E i \in DOMAIN lines : Shape[lines[i]] # "event" THEN "malformed"
                   ELSE "json",
      events   |-> lines ]

Decided(c) == RefusedAs(c) # 0 \/ Failing(c.events) # {}

\* Seeded fault: a call with a rejected event is answered as a failure.
StatusFailingRejected(c) ==
    IF RefusedAs(c) # 0 THEN RefusedAs(c)
    ELSE IF Failing(c.events) \cup Rejected(c.events) # {} THEN 500 ELSE 200

\* What the API answers when its storage works, and what it stores.
StatusOf(c) ==
    IF RefusedAs(c) # 0 THEN RefusedAs(c) ELSE IF Failing(c.events) # {} THEN 500 ELSE 200

KeysTaken(c) == IF Decided(c) THEN {} ELSE KeysOf(c.events)

RetryableCodes == {429, 500, 502, 503, 504}

-----------------------------------------------------------------------------
(* Filebeat.                                                               *)

\* A window of lines goes to the Beats input, which writes it to the queue
\* if there is room beside what is not checkpointed yet; the acknowledgement
\* moves the registry, or is lost.
Publish ==
    /\ \E n \in 1..BulkMax :
        /\ registry + n <= Len(file)
        /\ Len(resent) + Len(pq) + n <= QueueMax
        /\ pq' = pq \o SubSeq(file, registry + 1, registry + n)
        /\ \/ registry' = registry + n /\ UNCHANGED faults
           \/ Fault /\ UNCHANGED registry
    /\ UNCHANGED <<file, taken, attempt, status, late, resent, stored, api>>

(* Logstash.                                                               *)

TakeBatch ==
    /\ taken = 0
    /\ taken' \in 1..BatchSize
    /\ taken' <= Len(pq)
    /\ UNCHANGED <<file, registry, pq, attempt, status, late, resent, stored, api, faults>>

\* The output is done with the batch: the queue drops it.  The dropping
\* reaches the disk with the next checkpoint only.
Acknowledge ==
    /\ pq' = SubSeq(pq, taken + 1, Len(pq))
    /\ resent' = resent \o Batch
    /\ taken' = 0 /\ attempt' = "idle" /\ status' = 0

Checkpoint ==
    /\ resent # << >>
    /\ resent' = << >>
    /\ UNCHANGED <<file, registry, pq, taken, attempt, status, late, stored, api, faults>>

\* A batch with nothing to post is done at once.
Skip ==
    /\ taken > 0 /\ attempt = "idle" /\ NothingToPost(Batch)
    /\ Acknowledge
    /\ UNCHANGED <<file, registry, late, stored, api, faults>>

Post ==
    /\ taken > 0 /\ attempt = "idle" /\ ~NothingToPost(Batch)
    /\ attempt' = "sent"
    /\ UNCHANGED <<file, registry, pq, taken, status, late, resent, stored, api, faults>>

\* Seeded fault: any answer ends the batch.
FinishAnswered ==
    /\ attempt = "answered"
    /\ Acknowledge
    /\ UNCHANGED <<file, registry, late, stored, api, faults>>

\* Any 2xx, and any status not in retryable_codes, ends the batch.
Finish ==
    /\ attempt = "answered" /\ status \notin RetryableCodes
    /\ Acknowledge
    /\ UNCHANGED <<file, registry, late, stored, api, faults>>

Retry ==
    /\ attempt = "answered" /\ status \in RetryableCodes
    /\ attempt' = "idle" /\ status' = 0
    /\ UNCHANGED <<file, registry, pq, taken, late, resent, stored, api, faults>>

\* socket_timeout, request_timeout or a broken connection: the call, or its
\* answer, may still be under way.  The batch is posted again.
GiveUp ==
    /\ attempt \in {"sent", "answered"}
    /\ Fault
    /\ late' = IF attempt = "sent" THEN late \cup {Posted(Batch)} ELSE late
    /\ attempt' = "idle" /\ status' = 0
    /\ UNCHANGED <<file, registry, pq, taken, resent, stored, api>>

\* Logstash is killed and comes back: what it had in work starts over, and
\* what it had dropped since the last checkpoint comes back.
Restart ==
    /\ Fault
    /\ pq' = resent \o pq /\ taken' = 0 /\ attempt' = "idle" /\ status' = 0 /\ resent' = << >>
    /\ late' = IF attempt = "sent" THEN late \cup {Posted(Batch)} ELSE late
    /\ UNCHANGED <<file, registry, stored, api>>

(* The API.                                                                *)

ApiUp ==
    /\ api = "down" /\ api' = "up"
    /\ UNCHANGED <<file, registry, pq, taken, attempt, status, late, resent, stored, faults>>

ApiDown ==
    /\ api = "up" /\ api' = "down" /\ Fault
    /\ UNCHANGED <<file, registry, pq, taken, attempt, status, late, resent, stored>>

\* The call is handled and the answer arrives.
ApiAnswers ==
    /\ attempt = "sent" /\ api = "up"
    /\ LET c == CallOf(Posted(Batch))
       IN  stored' = stored \cup KeysTaken(c) /\ status' = StatusOf(c)
    /\ attempt' = "answered"
    /\ UNCHANGED <<file, registry, pq, taken, late, resent, api, faults>>

\* Not ready, or the storage fails: 503 or 500, nothing stored.
ApiFails ==
    /\ attempt = "sent" /\ api = "up"
    /\ Fault
    /\ attempt' = "answered" /\ status' \in {500, 503}
    /\ UNCHANGED <<file, registry, pq, taken, late, resent, stored, api>>

\* No listener: the connection is refused and the output tries again.
Refused ==
    /\ attempt = "sent" /\ api = "down"
    /\ attempt' = "idle"
    /\ UNCHANGED <<file, registry, pq, taken, status, late, resent, stored, api, faults>>

\* A call given up on arrives after all, or never.
LateArrival ==
    /\ \E lines \in late :
        /\ late' = late \ {lines}
        /\ stored' = IF api = "up" THEN stored \cup KeysTaken(CallOf(lines)) ELSE stored
    /\ UNCHANGED <<file, registry, pq, taken, attempt, status, resent, api, faults>>

-----------------------------------------------------------------------------
Logstash == TakeBatch \/ Skip \/ Post \/ Finish \/ Retry

Next ==
    \/ Publish \/ Logstash \/ Checkpoint \/ GiveUp \/ Restart
    \/ ApiUp \/ ApiDown \/ ApiAnswers \/ ApiFails \/ Refused \/ LateArrival

Spec == Init /\ [][Next]_vars

\* Every process of the deployment that is running goes on running, and a
\* stopped API is restarted (restart: unless-stopped).  Faults happen as
\* often as they like, up to the bound.
FairSpec ==
    /\ Spec
    /\ WF_vars(Publish /\ UNCHANGED faults)
    /\ WF_vars(Logstash)
    /\ WF_vars(Checkpoint)
    /\ WF_vars(ApiUp)
    /\ WF_vars(ApiAnswers)
    /\ WF_vars(Refused)

-----------------------------------------------------------------------------
TypeOK ==
    /\ file \in LogFiles /\ registry \in 0..Len(file)
    /\ pq \in Seq(Lines) /\ Len(resent) + Len(pq) <= QueueMax
    /\ taken \in 0..BatchSize /\ taken <= Len(pq)
    /\ attempt \in {"idle", "sent", "answered"}
    /\ attempt # "idle" => taken > 0 /\ ~NothingToPost(Batch)
    /\ (attempt = "answered") = (status # 0)
    /\ (\A lines \in late : ToSet(lines) \subseteq Lines) /\ resent \in Seq(Lines)
    /\ stored \subseteq {Key(l) : l \in {x \in Events : Kind(x) = "stored"}}
    /\ api \in {"up", "down"} /\ faults \in 0..MaxFaults

Storable(l) == Shape[l] = "event" /\ Kind(l) = "stored"

Among(l, lines) == l \in ToSet(lines)

\* No batch of this file can exceed the limit of a body.
BodiesFit == \A l \in ToSet(file) : BatchSize * Size[l] <= MaxBody

(* A line that validation accepts leaves the queue unstored only when the  *)
(* body of the batch it is posted in exceeds MAX_INGEST_BODY_BYTES, to     *)
(* which its neighbours and the raw_event of each contribute: the 413 is   *)
(* final (retryable_codes; writeJSONDecodeError).                          *)
OnlyTooLargeIsLost ==
    [][ \A l \in Lines :
          LET Held == Key(l) \in stored \/ Among(l, pq) IN
          (Storable(l) /\ Held /\ ~Held') =>
              /\ Among(l, Posted(Batch))
              /\ BodyBytes(Posted(Batch)) > MaxBody ]_vars

(* Every collected line that validation accepts is in the table in the     *)
(* end, whatever finite number of things goes wrong (the persistent queue  *)
(* with retries, UC-001 A6), where bodies fit.                             *)
EveryLineArrives ==
    \A l \in {x \in Lines : Storable(x)} :
        BodiesFit /\ Among(l, file) => <>(Key(l) \in stored)

(* A batch the pipeline has taken is finished in the end, so the lines     *)
(* behind it are not held up for ever: an event that can never be stored   *)
(* is answered for, not retried for ever (ADR-001 section 6, UC-001 rule   *)
(* 6; IngestBatch's rejected count).                                       *)
EveryBatchEnds == (taken > 0) ~> (taken = 0)

=============================================================================

-------------------------- MODULE IngestionService --------------------------
(***************************************************************************)
(* internal/service and the handlers around it, as far as they decide      *)
(* without the database: which calls end before an event is looked at,     *)
(* which events of a call are stored, rejected or make it fail, and what   *)
(* the response counts.                                                    *)
(***************************************************************************)
EXTENDS EventPreparation

CONSTANTS
    Events,       \* the events clients submit
    Input,        \* [Events -> what each of them contains], see EventPreparation
    MaxBatch      \* MAX_INGEST_BATCH_SIZE

ASSUME MaxBatchAssumption == MaxBatch \in Nat \ {0}

Prepared == [e \in Events |-> PrepareLog(Input[e])]

Kind(e) == Prepared[e].kind
Key(e)  == Prepared[e].event_id

Valid(events)    == {i \in DOMAIN events : Kind(events[i]) = "stored"}
Rejected(events) == {i \in DOMAIN events : Kind(events[i]) = "rejected"}
Failing(events)  == {i \in DOMAIN events : Kind(events[i]) = "error"}

KeysOf(events) == {Key(events[i]) : i \in Valid(events)}

Reply(status, received, inserted, duplicated, rejected) ==
    [status |-> status, received |-> received, inserted |-> inserted,
     duplicated |-> duplicated, rejected |-> rejected]

Failure(status) == Reply(status, 0, 0, 0, 0)

Success == {200, 201}

\* The status of a call that ends before any event is prepared, and 0 for
\* the others: decodeJSONBody, writeJSONDecodeError, the batch limits.
RefusedAs(c) ==
    CASE c.form = "malformed" -> 400
      [] c.form = "oversized" -> 413
      [] c.endpoint = "bulk" /\ Cardinality(DOMAIN c.events) > MaxBatch -> 413
      [] c.endpoint = "bulk" /\ DOMAIN c.events = {} -> 400
      [] OTHER -> 0

\* Both IngestOne and IngestBatch: an inserted single event is 201, a
\* duplicate or a batch is 200; duplicates are what validation let through
\* and the insert did not add.
StoredReply(c, inserted) ==
    Reply(IF c.endpoint = "one" /\ inserted = 1 THEN 201 ELSE 200,
          Len(c.events), inserted,
          Cardinality(Valid(c.events)) - inserted, Cardinality(Rejected(c.events)))

=============================================================================

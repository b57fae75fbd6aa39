------------------------------ MODULE LogQuery ------------------------------
(***************************************************************************)
(* The list query of the public API: handler/query.go, query_service.go    *)
(* and LogRepository.List, while IngestionApi goes on adding rows through  *)
(* the same one-connection pool.  A reader asks for a page, and for the    *)
(* page after it until it has seen as many rows as the last answer's total *)
(* counted.                                                                *)
(***************************************************************************)
EXTENDS LogFilter

CONSTANTS
    Readers,          \* clients that page through the logs
    Queries,          \* their first requests: form, filter, page, page_size
    Nobody,           \* the connection is in the pool
    InitialEvents,    \* the events stored before the readers come, in order
    MaxFaults         \* bound: failing reads

ASSUME QueriesAssumption ==
    Queries \subseteq Requests /\ \A q \in Queries : q.walks => pageOf(q) = 1
ASSUME InitialEventsAssumption == InitialEvents \in Seq({e \in Events : Kind(e) = "stored"})
ASSUME InstantsAssumption == \A e \in Events : Input[e].logged_at.instant \in Int
ASSUME NobodyAssumption == Nobody \notin Readers
ASSUME NilAssumption == Nil \notin Int
ASSUME MaxFaultsAssumption == MaxFaults \in Nat
\* Rows that cannot be read back are in module PublicApi.
ASSUME ReadableAssumption ==
    \A e \in Events : Kind(e) = "stored" => HasFourDigitYear(Prepared[e].log.logged_at)

VARIABLES
    rows,      \* the logs table: id, the event it came from
    conn,      \* who holds the only database connection
    pc, query, status,
    total,     \* what Count has found
    page,      \* the ids of the page, once read
    walk,      \* per reader: the ids of the pages answered so far, in order,
               \* and the table when the first of them was asked for
    faults

vars == <<rows, conn, pc, query, status, total, page, walk, faults>>

-----------------------------------------------------------------------------
RowFor(e, table) == [id |-> Cardinality(table) + 1, event |-> e]

InitialRows == {[id |-> i, event |-> InitialEvents[i]] : i \in DOMAIN InitialEvents}

KnownKeys(table) == {Key(row.event) : row \in table}

Init ==
    /\ rows = InitialRows
    /\ conn = Nobody
    /\ pc = [r \in Readers |-> "idle"]
    /\ query = [r \in Readers |-> Nil]
    /\ status = [r \in Readers |-> 0]
    /\ total = [r \in Readers |-> 0]
    /\ page = [r \in Readers |-> << >>]
    /\ walk = [r \in Readers |-> [ids |-> << >>, from |-> {}]]
    /\ faults = 0

Goto(r, place) == pc' = [pc EXCEPT ![r] = place]

\* The transaction of InsertBatch, which holds the connection throughout.
Ingest ==
    /\ conn = Nobody
    /\ \E e \in Events :
        /\ Kind(e) = "stored" /\ Key(e) \notin KnownKeys(rows)
        /\ rows' = rows \cup {RowFor(e, rows)}
    /\ UNCHANGED <<conn, pc, query, status, total, page, walk, faults>>

\* A reader asks for the first page it wants.
Request(r) ==
    /\ pc[r] = "idle"
    /\ \E q \in Queries : query' = [query EXCEPT ![r] = q]
    /\ walk' = [walk EXCEPT ![r] = [ids |-> << >>, from |-> rows]]
    /\ Goto(r, "resolve")
    /\ UNCHANGED <<rows, conn, status, total, page, faults>>

\* The handler, ListLogs and the first lines of List, up to the transaction.
Resolve(r) ==
    /\ pc[r] = "resolve"
    /\ LET early == statusBeforeRead(query[r])
       IN  IF early = 0 THEN Goto(r, "begin") /\ UNCHANGED status
           ELSE status' = [status EXCEPT ![r] = early] /\ Goto(r, "answered")
    /\ UNCHANGED <<rows, conn, query, total, page, walk, faults>>

Begin(r) ==
    /\ pc[r] = "begin" /\ conn = Nobody
    /\ conn' = r
    /\ Goto(r, "count")
    /\ UNCHANGED <<rows, query, status, total, page, walk, faults>>

Answer(r, ids) ==
    /\ page' = [page EXCEPT ![r] = ids]
    /\ walk' = [walk EXCEPT ![r].ids = @ \o ids]
    /\ status' = [status EXCEPT ![r] = 200]
    /\ conn' = Nobody
    /\ Goto(r, "answered")

\* Seeded fault: Count and Find run outside a transaction.
CountAlone(r) ==
    /\ pc[r] = "count"
    /\ LET n == Cardinality(Matching(query[r], rows))
       IN  /\ total' = [total EXCEPT ![r] = n]
           /\ IF n = 0 THEN Answer(r, << >>)
              ELSE Goto(r, "find") /\ conn' = Nobody /\ UNCHANGED <<page, walk, status>>
    /\ UNCHANGED <<rows, query, faults>>

\* No match ends the read without the second query.
Count(r) ==
    /\ pc[r] = "count"
    /\ LET n == Cardinality(Matching(query[r], rows))
       IN  /\ total' = [total EXCEPT ![r] = n]
           /\ IF n = 0 THEN Answer(r, << >>)
              ELSE Goto(r, "find") /\ UNCHANGED <<conn, page, walk, status>>
    /\ UNCHANGED <<rows, query, faults>>

FindAndRelease(r, ids) ==
    /\ Answer(r, ids)
    /\ UNCHANGED <<rows, query, total, faults>>

\* Seeded fault: ORDER BY logged_at alone, rows of one time in any order.
FindTiesUnordered(r) ==
    /\ pc[r] = "find"
    /\ LET q == query[r]
           sorted(tie(_, _)) ==
               SetToSortSeq(Matching(q, rows), LAMBDA a, b :
                   \/ Log(a).logged_at > Log(b).logged_at
                   \/ Log(a).logged_at = Log(b).logged_at /\ tie(a.id, b.id))
           ids(found) == [i \in DOMAIN found |-> found[i].id]
       IN  \/ FindAndRelease(r, Slice(ids(sorted(>)), offsetOf(q), pageSizeOf(q)))
           \/ FindAndRelease(r, Slice(ids(sorted(<)), offsetOf(q), pageSizeOf(q)))

Find(r) ==
    /\ pc[r] = "find"
    /\ LET q == query[r]
       IN  FindAndRelease(r, Slice(Ordered(q, rows), offsetOf(q), pageSizeOf(q)))

\* The transaction fails or the request is cancelled: it is rolled back.
ReadFails(r) ==
    /\ faults < MaxFaults /\ faults' = faults + 1
    /\ \/ pc[r] \in {"count", "find"} /\ conn = r
       \/ pc[r] = "begin"
    /\ conn' = IF conn = r THEN Nobody ELSE conn
    /\ \E s \in {500, 503} : status' = [status EXCEPT ![r] = s]
    /\ Goto(r, "answered")
    /\ UNCHANGED <<rows, query, total, page, walk>>

Seen(r) == pageOf(query[r]) * pageSizeOf(query[r])

\* Clients ask for the next page while the last answer leaves rows to see.
NextPage(r) ==
    /\ pc[r] = "answered" /\ status[r] = 200 /\ Seen(r) < total[r]
    /\ query' = [query EXCEPT ![r].page = pageOf(query[r]) + 1]
    /\ Goto(r, "resolve")
    /\ UNCHANGED <<rows, conn, status, total, page, walk, faults>>

Read(r) == Resolve(r) \/ Begin(r) \/ Count(r) \/ Find(r)

Next ==
    \/ Ingest
    \/ \E r \in Readers : Request(r) \/ Read(r) \/ ReadFails(r) \/ NextPage(r)

Spec == Init /\ [][Next]_vars

-----------------------------------------------------------------------------
Answered(r) == pc[r] = "answered" /\ status[r] = 200

(* Every page with its total is what the table as a whole gives at one     *)
(* moment between request and answer, whatever is ingested meanwhile and   *)
(* however large the page number (List's transaction, resolvePagination's  *)
(* bound): the query implements SnapshotReads.                             *)
PageOf(q, table) ==
    LET n == Cardinality(Matching(q, table))
    IN  [ is    |-> "page", total |-> n,
          page  |-> IF n = 0 THEN << >>
                    ELSE Slice(Ordered(q, table), (pageOf(q) - 1) * pageSizeOf(q), pageSizeOf(q)) ]

ListAnswer(q, table) == IF refused(q) THEN [is |-> "none"] ELSE PageOf(q, table)

AnswerTo(r) ==
    CASE pc[r] = "idle" -> [is |-> "idle"]
      [] pc[r] \in {"resolve", "begin", "count", "find"} -> [is |-> "waiting"]
      [] pc[r] = "answered" /\ status[r] = 200 ->
            [is |-> "page", total |-> total[r], page |-> page[r]]
      [] OTHER -> [is |-> "none"]

answers == [r \in Readers |-> AnswerTo(r)]

Snapshots == INSTANCE SnapshotReads WITH
    table <- rows, asked <- query, answer <- answers, InitialTable <- InitialRows,
    AnswerOf <- ListAnswer,
    Idle <- [is |-> "idle"], Waiting <- [is |-> "waiting"], NoAnswer <- [is |-> "none"]

ImplementsSnapshots == Snapshots!Spec

\* The reader began with the first page and has got to the end.
Walked(r) ==
    /\ Answered(r) /\ Seen(r) >= total[r]
    /\ walk[r].ids # << >> /\ query[r].walks

(* Paging misses nothing: a row that matched when the reader asked for the *)
(* first page is among the pages it gets, although rows ingested meanwhile *)
(* move the ones behind them (OFFSET counts from the newest row).          *)
NothingIsMissed ==
    \A r \in Readers : Walked(r) =>
        ToSet(Ordered(query[r], walk[r].from)) \subseteq ToSet(walk[r].ids)

(* A page number the checks let through is one the repository accepts: no  *)
(* request is answered with an internal error while the storage works.     *)
NoInternalError ==
    \A r \in Readers : pc[r] = "answered" /\ status[r] = 500 => faults > 0

(* A walk shows a row again only because rows came meanwhile: no more rows *)
(* appear twice than matching ones were ingested since the first page was  *)
(* asked for (OFFSET counts from the newest row; the second key of ORDER   *)
(* BY keeps the rest in place).                                            *)
OnlyShiftedAreRepeated ==
    \A r \in Readers : walk[r].ids # << >> =>
        Len(walk[r].ids) - Cardinality(ToSet(walk[r].ids))
            <= Cardinality(Matching(query[r], rows \ walk[r].from))

(* What was submitted is found under the words it was submitted with: the  *)
(* query folds container, service, level and time the way ingestion does   *)
(* (query_service.go against normalize.go).                                *)
WordsOf(input) ==
    [ form |-> "query", page |-> Nil, page_size |-> Nil, walks |-> FALSE,
      container |-> input.container_name, service |-> input.service,
      level |-> input.level, start |-> input.logged_at, end |-> input.logged_at ]

SubmittedIsFound ==
    \A row \in rows : ~refused(WordsOf(Input[row.event])) /\ Selects(listFilter(WordsOf(Input[row.event])), row)

TypeOK ==
    /\ conn \in Readers \cup {Nobody}
    /\ pc \in [Readers -> {"idle", "resolve", "begin", "count", "find", "answered"}]
    /\ \A r \in Readers : pc[r] \in {"count", "find"} => conn = r
    /\ status \in [Readers -> {0, 200, 400, 500, 503}]
    /\ \A row \in rows : row.event \in Events /\ row.id \in 1..Cardinality(rows)
    /\ faults \in 0..MaxFaults

=============================================================================

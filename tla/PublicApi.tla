----------------------------- MODULE PublicApi -----------------------------
(***************************************************************************)
(* The public API as its clients see it: the routes of NewPublicRouter     *)
(* behind RequestID, RequestLogger, Recovery and the readiness gate, and   *)
(* the reads of handler/query.go and handler/stats.go, beside an ingestion *)
(* that holds the one connection while it inserts.  A read is one step     *)
(* here: that the two statements of a list are as good as one is what      *)
(* LogQuery shows.                                                         *)
(***************************************************************************)
EXTENDS LogFilter

CONSTANTS
    Clients,        \* each makes one request at a time
    Calls,          \* what they ask: route, parameters q, log id, given ID
    Nobody, Writer, \* the connection is in the pool, or with an ingestion
    InitialEvents,  \* the events stored before the first client comes
    MaxRequests,    \* bound: requests per client
    MaxFaults       \* bound: failing statements, rollbacks, panics, hang-ups

ASSUME OwnersAssumption == Nobody \notin Clients /\ Writer \notin Clients /\ Nobody # Writer

Probes == {"healthz", "readyz"}
Routes == Probes \cup {"logs", "detail", "levels", "services"}

Stored == {e \in Events : Kind(e) = "stored"}

\* What an answer carries; an answer that carries nothing has Nil.
Rows   == [id : Nat, event : Stored]
Values == {Prepared[e].log[field] : e \in Stored, field \in {"level", "service"}}
Data   == Probes \cup [rows : SUBSET Rows] \cup [total : Nat, rows : SUBSET Rows]
              \cup [total : Nat, counts : UNION {[V -> Nat] : V \in SUBSET Values}]

ASSUME NilAssumption == Nil \notin Data \cup Int
ASSUME CallsAssumption == \A c \in Calls : c.route \in Routes /\ c.q \in Requests
ASSUME InitialEventsAssumption == InitialEvents \in Seq(Stored)
ASSUME BoundsAssumption == MaxRequests \in Nat /\ MaxFaults \in Nat

VARIABLES
    ready,      \* Readiness.acceptingTraffic
    rows,       \* the logs table: id, the event it came from
    tx,         \* what the ingestion has inserted and not committed
    conn,       \* who holds the only database connection
    pc, call, requestID,
    gone,       \* the client has hung up
    reply,      \* status, request ID and data of the latest response
    asked,      \* how many requests a client has made
    entries,    \* the access log, by client
    seen,       \* the rows of the lists a client got
    faults

database == <<rows, tx, conn>>
vars == <<ready, database, pc, call, requestID, gone, reply, asked, entries, seen, faults>>

-----------------------------------------------------------------------------
(* What a route answers.                                                   *)

Response(status, data) == [status |-> status, data |-> data]
ErrorResponse(status)  == Response(status, Nil)

\* parsePositiveLogID, validateStatsQueryParameters, buildStatsFilter; 0 when
\* nothing is wrong.
StatusOfParameters(c) ==
    CASE c.route = "logs"   -> statusBeforeRead(c.q)
      [] c.route = "detail" -> IF c.id <= 0 THEN 400 ELSE 0
      [] c.route \in {"levels", "services"} ->
            IF malformed(c.q) \/ c.q.page # Nil \/ c.q.page_size # Nil \/ badRange(c.q)
            THEN 400 ELSE 0
      [] OTHER -> 0

\* A row whose time in UTC lies before the year 0000 or after 9999 is stored,
\* but neither the driver nor encoding/json can give it back: the scan fails,
\* or the encoding does when the status is already written.
Unreadable(shown) == \E row \in shown : ~HasFourDigitYear(Log(row).logged_at)
BrokenResponses     == {ErrorResponse(500), ErrorResponse(200)}

RowsResponses(shown, data) == IF Unreadable(shown) THEN BrokenResponses ELSE {Response(200, data)}

\* The page: the matching rows at the positions the request asks for.
ListResponses(q, table) ==
    LET found == Matching(q, table)
        shown == {row \in found : Position(row, found) - offsetOf(q) \in 1..pageSizeOf(q)}
    IN  RowsResponses(shown, [total |-> Cardinality(found), rows |-> shown])

DetailResponses(id, table) ==
    LET found == {row \in table : row.id = id}
    IN  IF found = {} THEN {ErrorResponse(404)} ELSE RowsResponses(found, [rows |-> found])

Counted(q, table) == {row \in table : Selects(buildStatsFilter(q), row)}

\* SELECT ..., COUNT(*) ... GROUP BY
CountsBy(field, S) ==
    [ value \in {Log(row)[field] : row \in S} |->
        Cardinality({row \in S : Log(row)[field] = value}) ]

StatsResponse(field, q, table) ==
    LET counts == CountsBy(field, Counted(q, table))
    IN  Response(200, [total |-> FoldFunction(+, 0, counts), counts |-> counts])

\* Seeded fault: the statistics read the rows and count them in Go.
ResponsesReadingRows(c, table) ==
    CASE c.route = "logs"     -> ListResponses(c.q, table)
      [] c.route = "detail"   -> DetailResponses(c.id, table)
      [] c.route = "levels"   -> RowsResponses(Counted(c.q, table), StatsResponse("level", c.q, table).data)
      [] c.route = "services" -> RowsResponses(Counted(c.q, table), StatsResponse("service", c.q, table).data)

Responses(c, table) ==
    CASE c.route = "logs"     -> ListResponses(c.q, table)
      [] c.route = "detail"   -> DetailResponses(c.id, table)
      [] c.route = "levels"   -> {StatsResponse("level", c.q, table)}
      [] c.route = "services" -> {StatsResponse("service", c.q, table)}

\* RequestLogger: errors reported with c.Error make a good status a warning.
LevelOf(answer) ==
    CASE answer.status >= 500 -> "error"
      [] answer.status \in 400..499 -> "warn"
      [] OTHER -> IF answer.data = Nil THEN "warn" ELSE "info"

-----------------------------------------------------------------------------
RowFor(e, table) == [id |-> Cardinality(table) + 1, event |-> e]

Init ==
    /\ ready = FALSE
    /\ rows = {[id |-> i, event |-> InitialEvents[i]] : i \in DOMAIN InitialEvents}
    /\ tx = {} /\ conn = Nobody
    /\ pc = [c \in Clients |-> "idle"]
    /\ call = [c \in Clients |-> Nil]
    /\ requestID = [c \in Clients |-> Nil]
    /\ gone = [c \in Clients |-> FALSE]
    /\ reply = [c \in Clients |-> Nil]
    /\ asked = [c \in Clients |-> 0]
    /\ entries = [c \in Clients |-> << >>]
    /\ seen = [c \in Clients |-> {}]
    /\ faults = 0

Goto(c, place) == pc' = [pc EXCEPT ![c] = place]

RespondWith(c, answer) == reply' = [reply EXCEPT ![c] = answer] /\ Goto(c, "written")

Fault == faults < MaxFaults /\ faults' = faults + 1

(* The gate and the ingestion beside the reads.                            *)

\* Run opens the gate once; before it exits it closes it.
SetReady ==
    /\ ready' \in BOOLEAN \ {ready}
    /\ ready \/ \A c \in Clients : asked[c] = 0
    /\ UNCHANGED <<database, pc, call, requestID, gone, reply, asked, entries, seen, faults>>

WriterInserts ==
    /\ conn = Nobody
    /\ \E e \in Events :
        /\ Kind(e) = "stored" /\ \A row \in rows : Key(row.event) # Key(e)
        /\ tx' = {RowFor(e, rows)}
    /\ conn' = Writer
    /\ UNCHANGED <<ready, rows, pc, call, requestID, gone, reply, asked, entries, seen, faults>>

WriterEnds ==
    /\ conn = Writer
    /\ \/ rows' = rows \cup tx /\ UNCHANGED faults
       \/ UNCHANGED rows /\ Fault
    /\ tx' = {} /\ conn' = Nobody
    /\ UNCHANGED <<ready, pc, call, requestID, gone, reply, asked, entries, seen>>

(* A request.                                                              *)

\* RequestID keeps an ID that has the right form and makes one otherwise.
Arrive(c) ==
    /\ pc[c] = "idle" /\ asked[c] < MaxRequests
    /\ \E q \in Calls :
        /\ call' = [call EXCEPT ![c] = q]
        /\ requestID' = [requestID EXCEPT ![c] =
                IF q.given = Nil THEN <<c, asked[c] + 1>> ELSE <<q.given, 0>>]
        /\ Goto(c, IF q.route = "healthz" THEN "handle" ELSE "gate")
    /\ asked' = [asked EXCEPT ![c] = @ + 1]
    /\ gone' = [gone EXCEPT ![c] = FALSE]
    /\ reply' = [reply EXCEPT ![c] = Nil]
    /\ UNCHANGED <<ready, database, entries, seen, faults>>

HangUp(c) ==
    /\ pc[c] # "idle" /\ ~gone[c] /\ Fault
    /\ gone' = [gone EXCEPT ![c] = TRUE]
    /\ UNCHANGED <<ready, database, pc, call, requestID, reply, asked, entries, seen>>

\* Readiness.Ready: the flag ...
LoadFlag(c) ==
    /\ pc[c] = "gate"
    /\ IF ready THEN Goto(c, "ping") /\ UNCHANGED reply ELSE RespondWith(c, ErrorResponse(503))
    /\ UNCHANGED <<ready, database, call, requestID, gone, asked, entries, seen, faults>>

\* ... and the ping, which takes the connection for a moment.
Ping(c) ==
    /\ pc[c] = "ping" /\ conn = Nobody
    /\ Goto(c, "handle")
    /\ UNCHANGED <<ready, database, call, requestID, gone, reply, asked, entries, seen, faults>>

\* The handler up to its read.
Handle(c) ==
    /\ pc[c] = "handle"
    /\ LET wrong == StatusOfParameters(call[c])
       IN  \/ /\ call[c].route \in Probes
              /\ RespondWith(c, Response(200, call[c].route))
           \/ /\ call[c].route \notin Probes /\ wrong # 0
              /\ RespondWith(c, ErrorResponse(wrong))
           \/ /\ call[c].route \notin Probes /\ wrong = 0
              /\ Goto(c, "acquire") /\ UNCHANGED reply
    /\ UNCHANGED <<ready, database, call, requestID, gone, asked, entries, seen, faults>>

\* Seeded fault: reads go beside the ingestion and see what it has not
\* committed.
ReadUncommitted(c) ==
    /\ pc[c] = "acquire"
    /\ \E answer \in Responses(call[c], rows \cup tx) : RespondWith(c, answer)
    /\ UNCHANGED <<ready, database, call, requestID, gone, asked, entries, seen, faults>>

Acquire(c) ==
    /\ pc[c] = "acquire" /\ conn = Nobody
    /\ conn' = c
    /\ Goto(c, "read")
    /\ UNCHANGED <<ready, rows, tx, call, requestID, gone, reply, asked, entries, seen, faults>>

Read(c) ==
    /\ pc[c] = "read"
    /\ conn' = Nobody
    /\ \E answer \in Responses(call[c], rows) : RespondWith(c, answer)
    /\ UNCHANGED <<ready, rows, tx, call, requestID, gone, asked, entries, seen, faults>>

GiveBack(c) == conn' = IF conn = c THEN Nobody ELSE conn

\* A statement fails, or the database notices that the client has hung up.
ReadFails(c) ==
    /\ \/ pc[c] = "ping" /\ RespondWith(c, ErrorResponse(503))
       \/ /\ pc[c] \in {"acquire", "read"}
          /\ \E status \in {500} \cup (IF gone[c] THEN {} ELSE {503}) :
                RespondWith(c, ErrorResponse(status))
    /\ IF gone[c] THEN UNCHANGED faults ELSE Fault /\ conn \in {c, Nobody}
    /\ GiveBack(c)
    /\ UNCHANGED <<ready, rows, tx, call, requestID, gone, asked, entries, seen>>

\* Seeded fault: Recovery runs around RequestLogger, which a panic skips.
PanicsPastLogger(c) ==
    /\ pc[c] \in {"handle", "read"} /\ Fault
    /\ reply' = [reply EXCEPT ![c] = ErrorResponse(500)]
    /\ Goto(c, "idle")
    /\ GiveBack(c)
    /\ UNCHANGED <<ready, rows, tx, call, requestID, gone, asked, entries, seen>>

\* Seeded fault: a panic leaves its connection behind.
PanicsKeepingConnection(c) ==
    /\ pc[c] \in {"handle", "read"} /\ Fault
    /\ RespondWith(c, ErrorResponse(500))
    /\ UNCHANGED <<ready, database, call, requestID, gone, asked, entries, seen>>

\* Recovery: nothing is written before the handler's last call, so a panic
\* always becomes a 500.  On its way the transaction is rolled back.
Panics(c) ==
    /\ pc[c] \in {"handle", "read"} /\ call[c].route \notin Probes /\ Fault
    /\ RespondWith(c, ErrorResponse(500))
    /\ GiveBack(c)
    /\ UNCHANGED <<ready, rows, tx, call, requestID, gone, asked, entries, seen>>

\* RequestLogger's last lines; the response reaches the client, if it is
\* still there.
Finish(c) ==
    /\ pc[c] = "written"
    /\ entries' = [entries EXCEPT ![c] = Append(@,
            [id |-> requestID[c], status |-> reply[c].status, level |-> LevelOf(reply[c])])]
    /\ seen' = [seen EXCEPT ![c] =
            IF ~gone[c] /\ call[c].route = "logs" /\ reply[c].data # Nil
            THEN @ \cup reply[c].data.rows ELSE @]
    /\ Goto(c, "idle")
    /\ UNCHANGED <<ready, database, call, requestID, gone, reply, asked, faults>>

Runs(c) == LoadFlag(c) \/ Handle(c) \/ Read(c) \/ Finish(c)

Waits(c) == Ping(c) \/ Acquire(c)

Next ==
    \/ SetReady \/ WriterInserts \/ WriterEnds
    \/ \E c \in Clients : Arrive(c) \/ Runs(c) \/ Waits(c) \/ HangUp(c) \/ ReadFails(c) \/ Panics(c)

Spec == Init /\ [][Next]_vars

\* database/sql hands a connection that is given back to one of the requests
\* that wait for it, drawn at random: almost surely none is passed over for ever.
HandlersRun == \A c \in Clients : WF_vars(Runs(c)) /\ SF_vars(Waits(c))

\* An ingestion may hang, and nobody need ask or hang up.
LiveSpec == Spec /\ HandlersRun

-----------------------------------------------------------------------------
Places == {"idle", "gate", "ping", "handle", "acquire", "read", "written"}

TypeOK ==
    /\ ready \in BOOLEAN
    /\ conn \in Clients \cup {Nobody, Writer}
    /\ conn = Writer <=> tx # {}
    /\ pc \in [Clients -> Places]
    /\ \A c \in Clients : pc[c] = "read" <=> conn = c
    /\ asked \in [Clients -> 0..MaxRequests]
    /\ faults \in 0..MaxFaults

Done(c, route) == pc[c] = "idle" /\ call[c] # Nil /\ call[c].route = route

(* What a list has shown is there: a client that asks for a row it got in  *)
(* a list gets that row, never a 404 and never another one, whatever       *)
(* ingestion commits or rolls back in between (log_query.go, List and      *)
(* FindByID on the one connection).                                        *)
DetailIsWhatWasListed ==
    \A c \in Clients : Done(c, "detail") =>
        \A row \in seen[c] : row.id = call[c].id =>
            /\ reply[c].status # 404
            /\ reply[c].data # Nil => reply[c].data.rows = {row}

(* The list and both statistics mean the same rows by the same filter,     *)
(* though each builds it in code of its own, and refuse the same filters   *)
(* (query_service.go, stats_service.go, log_stats.go).                     *)
SameFilter(q) == [q EXCEPT !.page = Nil, !.page_size = Nil]
LogsBy(q)   == [route |-> "logs", q |-> SameFilter(q), id |-> 0]
CountsOf(q, route) == [route |-> route, q |-> SameFilter(q), id |-> 0]

StatsAgreeWithList ==
    \A c \in Calls : c.route \in {"logs", "levels", "services"} =>
        LET q == c.q
            n == Cardinality(Matching(q, rows))
        IN  \A route \in {"levels", "services"} :
                /\ StatusOfParameters(LogsBy(q)) = StatusOfParameters(CountsOf(q, route))
                /\ StatusOfParameters(LogsBy(q)) = 0 =>
                      \A answer \in Responses(CountsOf(q, route), rows) : answer.data.total = n

(* Whatever becomes of a request, a panic of its handler included, the     *)
(* access log ends up with one entry for it, with its ID and its status,   *)
(* and only an answer with its data is logged as fine (newRouter's order   *)
(* of the middleware, request_logger.go, recovery.go).                     *)
EveryAnswerIsLogged ==
    \A c \in Clients : pc[c] = "idle" =>
        /\ Len(entries[c]) = asked[c]
        /\ asked[c] > 0 =>
            LET entry == entries[c][asked[c]]
            IN  /\ entry.id = requestID[c] /\ entry.status = reply[c].status
                /\ entry.level = "info" => reply[c].data # Nil

(* While nothing fails, a read is answered with its data or with the       *)
(* reason it was refused: only an event whose time has left the years 0000 *)
(* to 9999, at either end, breaks the lists and the detail that show it,   *)
(* and never the statistics (normalize.go moves times to UTC without a     *)
(* check; GetLog, ListLogs; FR-012).                                       *)
OnlyFarTimesFail ==
    \A c \in Clients :
        /\ pc[c] = "written" /\ faults = 0
        /\ reply[c].status \in {200, 500} /\ reply[c].data = Nil
        => /\ call[c].route \in {"logs", "detail"}
           /\ \E row \in rows : ~HasFourDigitYear(Log(row).logged_at)

(* Every request ends, whatever fails, panics or hangs up on the way, as   *)
(* long as ingestions end: nobody keeps the connection (Transaction's      *)
(* rollback, Recovery).  The liveness probe ends even while the database   *)
(* hangs and the gate is closed (NewPublicRouter, /healthz outside         *)
(* readyOnly).                                                             *)
EveryRequestEnds ==
    \A c \in Clients :
        /\ []<>(conn # Writer) => (pc[c] # "idle" ~> pc[c] = "idle")
        /\ (pc[c] # "idle" /\ call[c].route = "healthz")
              ~> (Done(c, "healthz") /\ reply[c].status = 200)

=============================================================================

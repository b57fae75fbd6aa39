---------------------------- MODULE IngestionApi ----------------------------
(***************************************************************************)
(* The ingestion side of the API process: the two POST endpoints of the    *)
(* internal router, the readiness gate in front of them, the service that  *)
(* prepares the events, the one-connection database pool and the SQLite    *)
(* transaction behind it, and the process that starts, drains, is killed   *)
(* and starts again around them.                                           *)
(*                                                                         *)
(* Every request is handled by a goroutine of its own.  pc is the place it *)
(* stands at, and one action runs it to the next place where the handlers  *)
(* of other requests, the client or the process can come in between:       *)
(*                                                                         *)
(*   arrived -> ping -> handle -> acquire -> insert -> commit -> respond   *)
(*                                                                         *)
(* A request is used once.  A client that repeats a call makes it with     *)
(* another request, possibly while the first is still being handled.       *)
(***************************************************************************)
EXTENDS IngestionService

CONSTANTS
    Requests,     \* the HTTP requests made over time
    Calls,        \* the calls clients make: endpoint, form of the body, events
    SQLiteCodes,  \* the result codes a failing statement may report
    Nobody,       \* the connection is in the pool
    NoCall,       \* the request has not been made
    NoReply,      \* the handler has not written a response
    MaxFaults,    \* bound: storage failures
    MaxStops      \* bound: shutdowns and crashes

ASSUME CallsAssumption ==
    /\ Calls \subseteq [endpoint : {"one", "bulk"},
                        form : {"json", "malformed", "oversized"},
                        events : Seq(Events)]
    /\ \A c \in Calls : c.endpoint = "one" /\ c.form = "json" => Len(c.events) = 1
    /\ NoCall \notin Calls
ASSUME NobodyAssumption == Nobody \notin Requests
ASSUME CodesAssumption == SQLiteCodes \subseteq Nat
ASSUME BoundsAssumption == MaxFaults \in Nat /\ MaxStops \in Nat

VARIABLES
    phase,      \* where main and Servers.Run stand
    accepting,  \* Readiness.acceptingTraffic
    pc,         \* where the handler of each request stands
    call,       \* what each request posts
    gone,       \* the client has stopped waiting, its context gets cancelled
    reply,      \* the response the handler has decided on
    conn,       \* who holds the only database connection
    tx,         \* rows inserted by the open transaction
    rows,       \* committed rows of the logs table
    faults, stops

vars == <<phase, accepting, pc, call, gone, reply, conn, tx, rows, faults, stops>>

process == <<phase, accepting, stops>>

-----------------------------------------------------------------------------
(* The repository.                                                         *)

KeysIn(table) == {row.event_id : row \in table}

Row(r, i) == [event_id |-> Key(call[r].events[i]),
              event    |-> call[r].events[i],
              request  |-> r,
              position |-> i]

\* Seeded fault: no unique index, only a lookup before the insert.
FreshByLookup(events, table) ==
    {i \in Valid(events) : Key(events[i]) \notin KeysIn(table)}

\* INSERT ... ON CONFLICT(event_id) DO NOTHING: a row goes in unless its key
\* is in the table or came earlier in the same statement.
Fresh(events, table) ==
    {i \in Valid(events) :
        /\ Key(events[i]) \notin KeysIn(table)
        /\ \A j \in Valid(events) : j < i => Key(events[j]) # Key(events[i])}

FreshRows(r) == {Row(r, i) : i \in Fresh(call[r].events, rows)}

\* isTemporarySQLiteError: SQLITE_BUSY (5) and SQLITE_LOCKED (6), extended
\* codes included.
isTemporarySQLiteError(code) == code % 256 \in {5, 6}

\* The handler's answer to a storage error.
StorageStatus(code) == IF isTemporarySQLiteError(code) THEN 503 ELSE 500

-----------------------------------------------------------------------------
InFlight(r) == pc[r] \in {"arrived", "ping", "handle", "acquire", "insert", "commit", "respond"}

Goto(r, place) == pc' = [pc EXCEPT ![r] = place]

RespondWith(r, answer) == reply' = [reply EXCEPT ![r] = answer] /\ Goto(r, "respond")

Init ==
    /\ phase = "down" /\ accepting = FALSE
    /\ pc = [r \in Requests |-> "idle"]
    /\ call = [r \in Requests |-> NoCall]
    /\ gone = [r \in Requests |-> FALSE]
    /\ reply = [r \in Requests |-> NoReply]
    /\ conn = Nobody /\ tx = {} /\ rows = {}
    /\ faults = 0 /\ stops = 0

(* Clients.                                                                *)

\* A client connects while a listener is open, ready or not.
Submit(r) ==
    /\ phase \in {"listening", "serving", "unready"}
    /\ pc[r] = "idle"
    /\ \E c \in Calls : call' = [call EXCEPT ![r] = c]
    /\ Goto(r, "arrived")
    /\ UNCHANGED <<process, gone, reply, conn, tx, rows, faults>>

\* The client's timeout fires or its connection breaks.  The handler finds
\* out later, or not at all.
ClientGivesUp(r) ==
    /\ InFlight(r) /\ ~gone[r]
    /\ gone' = [gone EXCEPT ![r] = TRUE]
    /\ UNCHANGED <<process, pc, call, reply, conn, tx, rows, faults>>

(* The handler of a request.                                               *)

\* Seeded fault: the gate only pings the database.
LoadNoFlag(r) ==
    /\ pc[r] = "arrived"
    /\ Goto(r, "ping")
    /\ UNCHANGED <<process, call, gone, reply, conn, tx, rows, faults>>

\* Readiness.Ready loads the flag ...
LoadFlag(r) ==
    /\ pc[r] = "arrived"
    /\ IF accepting THEN Goto(r, "ping") /\ UNCHANGED reply
                    ELSE RespondWith(r, Failure(503))
    /\ UNCHANGED <<process, call, gone, conn, tx, rows, faults>>

\* ... and pings the database, which takes the connection for a moment.
Ping(r) ==
    /\ pc[r] = "ping"
    /\ conn = Nobody
    /\ Goto(r, "handle")
    /\ UNCHANGED <<process, call, gone, reply, conn, tx, rows, faults>>

\* Seeded fault: an internal error in one event is taken for a rejection of
\* all of them, and the call is confirmed.
HandleSwallowingErrors(r) ==
    /\ pc[r] = "handle"
    /\ LET c == call[r] IN
       IF RefusedAs(c) # 0 THEN RespondWith(r, Failure(RefusedAs(c)))
       ELSE IF Failing(c.events) # {} \/ Valid(c.events) = {}
            THEN RespondWith(r, StoredReply(c, 0))
            ELSE Goto(r, "acquire") /\ UNCHANGED reply
    /\ UNCHANGED <<process, call, gone, conn, tx, rows, faults>>

\* IngestOne and IngestBatch up to the call of InsertBatch.
Handle(r) ==
    /\ pc[r] = "handle"
    /\ LET c == call[r] IN
       \/ /\ RefusedAs(c) # 0
          /\ RespondWith(r, Failure(RefusedAs(c)))
       \/ /\ RefusedAs(c) = 0
          /\ Failing(c.events) # {}
          /\ RespondWith(r, Failure(500))
       \/ /\ RefusedAs(c) = 0
          /\ Failing(c.events) = {} /\ Valid(c.events) = {}
          /\ RespondWith(r, StoredReply(c, 0))
       \/ /\ RefusedAs(c) = 0
          /\ Failing(c.events) = {} /\ Valid(c.events) # {}
          /\ Goto(r, "acquire") /\ UNCHANGED reply
    /\ UNCHANGED <<process, call, gone, conn, tx, rows, faults>>

\* Seeded fault: a pool of several connections, with nothing between the
\* lookup of the keys and the commit.
BeginBesideOthers(r) ==
    /\ pc[r] = "acquire"
    /\ conn' = r
    /\ Goto(r, "insert")
    /\ UNCHANGED <<process, call, gone, reply, tx, rows, faults>>

\* GORM begins its default transaction on the only connection.
Begin(r) ==
    /\ pc[r] = "acquire"
    /\ conn = Nobody
    /\ conn' = r
    /\ Goto(r, "insert")
    /\ UNCHANGED <<process, call, gone, reply, tx, rows, faults>>

Insert(r) ==
    /\ pc[r] = "insert"
    /\ tx' = FreshRows(r)
    /\ Goto(r, "commit")
    /\ UNCHANGED <<process, call, gone, reply, conn, rows, faults>>

\* Seeded fault: ON CONFLICT DO UPDATE, the latest delivery wins.
CommitUpsert(r) ==
    /\ pc[r] = "commit"
    /\ LET latest == {Row(r, i) : i \in Valid(call[r].events)}
       IN  rows' = {row \in rows : row.event_id \notin KeysIn(latest)} \cup latest
    /\ tx' = {}
    /\ conn' = Nobody
    /\ RespondWith(r, StoredReply(call[r], Cardinality(tx)))
    /\ UNCHANGED <<process, call, gone, faults>>

Commit(r) ==
    /\ pc[r] = "commit"
    /\ rows' = rows \cup tx
    /\ tx' = {}
    /\ conn' = Nobody
    /\ RespondWith(r, StoredReply(call[r], Cardinality(tx)))
    /\ UNCHANGED <<process, call, gone, faults>>

Respond(r) ==
    /\ pc[r] = "respond"
    /\ Goto(r, IF gone[r] THEN "lost" ELSE "answered")
    /\ UNCHANGED <<process, call, gone, reply, conn, tx, rows, faults>>

\* Seeded fault: the error path leaves the connection with the request.
KeepConnection(r) == tx' = (IF conn = r THEN {} ELSE tx) /\ UNCHANGED <<conn, rows>>

\* The transaction, if r has one, is rolled back and its connection returned.
GiveBack(r) ==
    /\ conn' = IF conn = r THEN Nobody ELSE conn
    /\ tx' = IF conn = r THEN {} ELSE tx
    /\ UNCHANGED rows

\* Seeded fault: the error of COMMIT is not looked at.
StorageFailsUnnoticed(r) ==
    /\ faults < MaxFaults
    /\ faults' = faults + 1
    /\ conn \in {r, Nobody}
    /\ \/ pc[r] = "ping" /\ RespondWith(r, Failure(503))
       \/ /\ pc[r] \in {"acquire", "insert"}
          /\ \E code \in SQLiteCodes : RespondWith(r, Failure(StorageStatus(code)))
       \/ pc[r] = "commit" /\ RespondWith(r, StoredReply(call[r], Cardinality(tx)))
    /\ GiveBack(r)
    /\ UNCHANGED <<process, call, gone>>

\* The ping, BEGIN, INSERT or COMMIT reports an error.
StorageFails(r) ==
    /\ faults < MaxFaults
    /\ faults' = faults + 1
    /\ conn \in {r, Nobody}
    /\ \/ pc[r] = "ping" /\ RespondWith(r, Failure(503))
       \/ /\ pc[r] \in {"acquire", "insert", "commit"}
          /\ \E code \in SQLiteCodes : RespondWith(r, Failure(StorageStatus(code)))
    /\ GiveBack(r)
    /\ UNCHANGED <<process, call, gone>>

\* database/sql notices that the request's context is cancelled.
NoticeCancel(r) ==
    /\ gone[r]
    /\ \/ pc[r] = "ping" /\ RespondWith(r, Failure(503))
       \/ /\ pc[r] \in {"acquire", "insert", "commit"}
          /\ RespondWith(r, Failure(500))
    /\ GiveBack(r)
    /\ UNCHANGED <<process, call, gone, faults>>

(* The process.                                                            *)

\* Servers.Run binds both listeners and starts serving ...
Listen ==
    /\ phase = "down"
    /\ phase' = "listening"
    /\ UNCHANGED <<accepting, pc, call, gone, reply, conn, tx, rows, faults, stops>>

\* ... and only then opens the gate.
SetReady ==
    /\ phase = "listening"
    /\ phase' = "serving" /\ accepting' = TRUE
    /\ UNCHANGED <<pc, call, gone, reply, conn, tx, rows, faults, stops>>

\* A signal or the failure of a server: the gate closes first ...
CloseGate ==
    /\ phase = "serving" /\ stops < MaxStops
    /\ phase' = "unready" /\ accepting' = FALSE /\ stops' = stops + 1
    /\ UNCHANGED <<pc, call, gone, reply, conn, tx, rows, faults>>

\* ... then Shutdown closes the listeners and waits for the handlers.
Drain ==
    /\ phase = "unready"
    /\ phase' = "draining"
    /\ UNCHANGED <<accepting, pc, call, gone, reply, conn, tx, rows, faults, stops>>

Drained ==
    /\ phase = "draining"
    /\ \A r \in Requests : ~InFlight(r)
    /\ phase' = "down"
    /\ UNCHANGED <<accepting, pc, call, gone, reply, conn, tx, rows, faults, stops>>

\* SHUTDOWN_TIMEOUT: Close breaks the remaining connections.
DrainTimeout ==
    /\ phase = "draining"
    /\ \E r \in Requests : InFlight(r)
    /\ phase' = "forced"
    /\ gone' = [r \in Requests |-> gone[r] \/ InFlight(r)]
    /\ UNCHANGED <<accepting, pc, call, reply, conn, tx, rows, faults, stops>>

\* The process is gone, with its handlers and the open transaction.
LoseProcess ==
    /\ phase' = "down" /\ accepting' = FALSE
    /\ pc' = [r \in Requests |-> IF InFlight(r) THEN "lost" ELSE pc[r]]
    /\ conn' = Nobody /\ tx' = {}
    /\ UNCHANGED <<call, gone, reply, rows, faults>>

\* main returns while handlers outlive the forced shutdown.
Exit == phase = "forced" /\ LoseProcess /\ UNCHANGED stops

Crash == phase # "down" /\ stops < MaxStops /\ LoseProcess /\ stops' = stops + 1

-----------------------------------------------------------------------------
HandlerStep(r) ==
    LoadFlag(r) \/ Ping(r) \/ Handle(r) \/ Begin(r) \/ Insert(r) \/ Commit(r) \/ Respond(r)

RequestStep(r) ==
    Submit(r) \/ ClientGivesUp(r) \/ HandlerStep(r) \/ StorageFails(r) \/ NoticeCancel(r)

ProcessStep ==
    Listen \/ SetReady \/ CloseGate \/ Drain \/ Drained \/ DrainTimeout \/ Exit \/ Crash

Next == ProcessStep \/ \E r \in Requests : RequestStep(r)

Spec == Init /\ [][Next]_vars

\* The Go scheduler runs every runnable goroutine.
FairSpec == Spec /\ \A r \in Requests : WF_vars(HandlerStep(r))

-----------------------------------------------------------------------------
Replies == [status : {200, 201, 400, 413, 500, 503}, received : Nat, inserted : Nat,
            duplicated : Int, rejected : Nat]

TypeOK ==
    /\ phase \in {"down", "listening", "serving", "unready", "draining", "forced"}
    /\ accepting \in BOOLEAN
    /\ pc \in [Requests -> {"idle", "arrived", "ping", "handle", "acquire", "insert",
                           "commit", "respond", "answered", "lost"}]
    /\ call \in [Requests -> Calls \cup {NoCall}]
    /\ gone \in [Requests -> BOOLEAN]
    /\ reply \in [Requests -> Replies \cup {NoReply}]
    /\ conn \in Requests \cup {Nobody}
    /\ \A row \in rows \cup tx :
           row.event \in Events /\ row.request \in Requests /\ row.event_id = Key(row.event)
    /\ faults \in 0..MaxFaults /\ stops \in 0..MaxStops

Replied(r)   == pc[r] \in {"respond", "answered"}
Confirmed(r) == Replied(r) /\ reply[r].status \in Success
RowsOf(r)    == {row \in rows : row.request = r}

(* No event is stored twice, however requests interleave, repeat each      *)
(* other's events or are cut off (the unique index and ON CONFLICT of      *)
(* InsertBatch, with the key ComputeEventID derives).                      *)
NoDuplicateEventID ==
    \A a, b \in rows : a.event_id = b.event_id => a = b

(* A 2xx is a promise: every event of the call that passed validation is   *)
(* in the table, brought by this call or an earlier one, and stays there   *)
(* through crashes and restarts (IngestOne, IngestBatch, InsertBatch).     *)
ConfirmedIsStored ==
    \A r \in Requests : Confirmed(r) => KeysOf(call[r].events) \subseteq KeysIn(rows)

(* A batch is stored whole or not at all: where one of its rows is, every  *)
(* valid event of it is too (the single transaction of InsertBatch).       *)
BatchIsAtomic ==
    \A r \in Requests :
        RowsOf(r) # {} => KeysOf(call[r].events) \subseteq KeysIn(rows)

(* The counts of a response are those of the table: inserted is what this  *)
(* call added, in the face of other calls adding the same events meanwhile,*)
(* and the four counts add up (RowsAffected, IngestResult).                *)
CountsAreExact ==
    \A r \in Requests : Confirmed(r) =>
        /\ reply[r].inserted = Cardinality(RowsOf(r))
        /\ reply[r].received = Len(call[r].events)
        /\ reply[r].duplicated \in Nat
        /\ reply[r].received = reply[r].inserted + reply[r].duplicated + reply[r].rejected
        /\ reply[r].status = 201 => RowsOf(r) # {}

(* A call that is answered with an error has stored nothing, so a client   *)
(* that gives up on it leaves no half of it behind (the error returns of   *)
(* IngestBatch and the rollback behind them).                              *)
ErrorStoresNothing ==
    \A r \in Requests : Replied(r) /\ ~Confirmed(r) => RowsOf(r) = {}

(* A stored row is never changed, replaced or removed: the first content   *)
(* stored under an event_id wins, across crashes (DO NOTHING, the durable  *)
(* table).                                                                 *)
FirstWriteWins == [][rows \subseteq rows']_vars

(* A call that reaches the gate after a shutdown has closed it stores      *)
(* nothing, however long the drain takes: Shutdown waits only for calls    *)
(* that were inside (Readiness.Ready before Servers.shutdown).             *)
ClosedGateHolds ==
    \A r \in Requests :
        [](/\ pc[r] = "arrived"
           /\ phase \in {"unready", "draining", "forced"}
           => [](RowsOf(r) = {}))

(* Every call comes to an end: nothing a handler, a failing statement, a   *)
(* cancelled client or a crash does leaves the connection taken for good   *)
(* (the pool of one of OpenSQLite).                                        *)
EveryCallEnds ==
    \A r \in Requests : (pc[r] = "arrived") ~> (pc[r] \in {"answered", "lost"})

-----------------------------------------------------------------------------
(* The API implements the promise of IdempotentStore.                      *)

Verdict(r) ==
    CASE pc[r] = "idle" -> "none"
      [] pc[r] = "answered" -> IF Confirmed(r) THEN "confirmed" ELSE "refused"
      [] pc[r] = "lost" -> "unknown"
      [] OTHER -> "pending"

Wanted(r) == IF call[r] = NoCall THEN {} ELSE KeysOf(call[r].events)

Store == INSTANCE IdempotentStore WITH
    Callers <- Requests,
    Keys    <- {Key(e) : e \in {x \in Events : Kind(x) = "stored"}},
    stored  <- KeysIn(rows),
    wanted  <- [r \in Requests |-> Wanted(r)],
    added   <- [r \in Requests |-> KeysIn(RowsOf(r))],
    verdict <- [r \in Requests |-> Verdict(r)]

(* Seen by its callers, the API is an idempotent store: it takes a batch   *)
(* in one step or not at all, whatever the order of pings, transactions,   *)
(* failures and restarts, and never says more than is true.                *)
ImplementsStore == Store!StoreSpec

Phases == INSTANCE ProcessPhases WITH
    Clients <- Requests,
    working <- {r \in Requests : InFlight(r)}

(* The process around the handlers goes through the phases ServerLifecycle *)
(* provides: what is checked here of the drain and of the closed gate is   *)
(* true of the two servers and their goroutines.                           *)
ImplementsPhases == Phases!PhaseSpec

=============================================================================

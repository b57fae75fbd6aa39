--------------------------- MODULE PublicApiProofs ---------------------------
(***************************************************************************)
(* For any clients, calls, events and faults: what a list has shown is     *)
(* there when it is asked for, the list and the statistics count the same  *)
(* rows, only times outside the years 0000 to 9999 break an answer, and    *)
(* the access log has one entry for every answer.  The argument for the    *)
(* first: a row is numbered once, when it is committed, and stays; a       *)
(* client's lists show it committed rows; and its own lists are all a      *)
(* client's knowledge grows by, so nothing it knows is newer than a detail *)
(* it is waiting for.                                                      *)
(* At the end, what rounding costs the percentages of LevelStats.          *)
(***************************************************************************)
EXTENDS PublicApi, LevelStats, FoldLemmas, SequenceTheorems

-----------------------------------------------------------------------------
(* The inductive invariant.                                                *)

IDs == (Clients \X (1..MaxRequests)) \cup ({q.given : q \in Calls} \X {0})

Entries == [id : IDs, status : Int, level : {"info", "warn", "error"}]

OfClients(f) == f = [c \in Clients |-> f[c]]

ClientsAreKnown ==
    /\ OfClients(call) /\ OfClients(requestID) /\ OfClients(reply)
    /\ entries \in [Clients -> Seq(Entries)]
    /\ seen \in [Clients -> SUBSET rows]
    /\ \A c \in Clients : pc[c] # "idle" =>
          call[c] \in Calls /\ requestID[c] \in IDs /\ asked[c] \in 1..MaxRequests
    /\ \A c \in Clients : pc[c] \in {"acquire", "read"} => call[c].route \notin Probes
    /\ \A c \in Clients : pc[c] = "written" => reply[c].status \in Int

\* Every row has a number of its own, up to how many there are.
RowsAreNumbered ==
    /\ IsFiniteSet(rows)
    /\ \A row \in rows : row.id \in 1..Cardinality(rows)
    /\ \A r, s \in rows : r.id = s.id => r = s

RowsAreStored == rows \subseteq Rows

WriterAddsNext == tx = {} \/ \E e \in Stored : tx = {RowFor(e, rows)}

ListsAreStored ==
    \A c \in Clients :
        pc[c] = "written" /\ call[c].route = "logs" /\ reply[c].data # Nil =>
            reply[c].data.rows \subseteq rows

\* What a client knows of a row it asks for, and what it is told.
DetailsAreTrue ==
    \A c \in Clients :
        pc[c] \in {"written", "idle"} /\ call[c] # Nil /\ call[c].route = "detail" =>
            /\ reply[c].status = 404 => \A row \in seen[c] : row.id # call[c].id
            /\ reply[c].data # Nil =>
                  \E row \in rows : row.id = call[c].id /\ reply[c].data.rows = {row}

EntriesAreTrue ==
    /\ EveryAnswerIsLogged
    /\ \A c \in Clients : pc[c] # "idle" => Len(entries[c]) + 1 = asked[c]

HangUpsAreFaults ==
    gone \in [Clients -> BOOLEAN] /\ \A c \in Clients : gone[c] => faults > 0

IInv ==
    /\ TypeOK /\ ClientsAreKnown
    /\ RowsAreNumbered /\ RowsAreStored /\ WriterAddsNext /\ ListsAreStored /\ DetailsAreTrue
    /\ EntriesAreTrue /\ HangUpsAreFaults /\ OnlyFarTimesFail

-----------------------------------------------------------------------------
(* Answers.                                                                *)

LEMMA Refusals == ASSUME NEW c PROVE StatusOfParameters(c) \in {0, 400, 500}
<1>1. statusBeforeRead(c.q) \in {0, 400, 500}
  BY DEF statusBeforeRead
<1>2. CASE c.route = "logs"
  BY <1>1, <1>2 DEF StatusOfParameters
<1>3. CASE c.route = "detail"
  BY <1>3 DEF StatusOfParameters
<1>4. CASE c.route \in {"levels", "services"}
  BY <1>4 DEF StatusOfParameters
<1>5. CASE c.route \notin {"logs", "detail", "levels", "services"}
  BY <1>5 DEF StatusOfParameters
<1> QED BY <1>2, <1>3, <1>4, <1>5

LEMMA RefusedDetail ==
    ASSUME NEW c, c.route = "detail" PROVE StatusOfParameters(c) \in {0, 400}
BY DEF StatusOfParameters

LEMMA ReadRoutes ==
    ASSUME NEW c \in Calls, c.route \notin Probes
    PROVE  c.route \in {"logs", "detail", "levels", "services"}
BY CallsAssumption DEF Routes, Probes

LEMMA BrokenAnswers ==
    ASSUME NEW answer \in BrokenResponses
    PROVE  answer.status \in {200, 500} /\ answer.data = Nil
BY DEF BrokenResponses, ErrorResponse, Response

LEMMA ListAnswers ==
    ASSUME NEW q, NEW table, NEW answer \in ListResponses(q, table)
    PROVE  /\ answer.status \in {200, 500}
           /\ answer.data # Nil => answer.data.rows \subseteq table
<1> DEFINE found == Matching(q, table)
           shown == {row \in found : Position(row, found) - offsetOf(q) \in 1..pageSizeOf(q)}
           data  == [total |-> Cardinality(found), rows |-> shown]
<1>1. answer \in BrokenResponses \/ answer = Response(200, data)
  BY DEF ListResponses, RowsResponses
<1>2. data.rows \subseteq table
  <2>1. shown \subseteq found /\ found \subseteq table
    BY DEF Matching
  <2> QED BY <2>1
<1> HIDE DEF data
<1> QED BY <1>1, <1>2, BrokenAnswers DEF Response

LEMMA DetailAnswers ==
    ASSUME NEW id, NEW table, NEW answer \in DetailResponses(id, table),
           \A r, s \in table : r.id = s.id => r = s
    PROVE  /\ answer.status \in {200, 404, 500}
           /\ answer.status = 404 => \A row \in table : row.id # id
           /\ answer.data # Nil =>
                 \E row \in table : row.id = id /\ answer.data.rows = {row}
<1> DEFINE found == {row \in table : row.id = id}
<1>1. CASE found = {}
  <2>1. answer = ErrorResponse(404)
    BY <1>1 DEF DetailResponses
  <2> QED BY <1>1, <2>1 DEF ErrorResponse, Response
<1>2. CASE found # {}
  <2>1. PICK row \in table : row.id = id
    BY <1>2
  <2>2. found = {row}
    BY <2>1
  <2>3. answer \in BrokenResponses \/ answer = Response(200, [rows |-> found])
    BY <1>2 DEF DetailResponses, RowsResponses
  <2>4. answer.data # Nil => answer.data.rows = {row}
    BY <2>2, <2>3, BrokenAnswers DEF Response
  <2>5. answer.status \in {200, 500}
    BY <2>3, BrokenAnswers DEF Response
  <2> QED BY <2>1, <2>4, <2>5
<1> QED BY <1>1, <1>2

LEMMA StatsAnswers ==
    ASSUME NEW field, NEW q, NEW table PROVE StatsResponse(field, q, table).status = 200
BY DEF StatsResponse, Response

LEMMA Answers ==
    ASSUME NEW c, c.route \in {"logs", "detail", "levels", "services"}, NEW table,
           NEW answer \in Responses(c, table), \A r, s \in table : r.id = s.id => r = s
    PROVE  /\ answer.status \in {200, 404, 500}
           /\ c.route = "logs" /\ answer.data # Nil => answer.data.rows \subseteq table
           /\ c.route = "detail" /\ answer.status = 404 => \A row \in table : row.id # c.id
           /\ c.route = "detail" /\ answer.data # Nil =>
                 \E row \in table : row.id = c.id /\ answer.data.rows = {row}
<1>1. CASE c.route = "logs"
  <2>1. Responses(c, table) = ListResponses(c.q, table)
    BY <1>1 DEF Responses
  <2> QED BY <1>1, <2>1, ListAnswers
<1>2. CASE c.route = "detail"
  <2>1. Responses(c, table) = DetailResponses(c.id, table)
    BY <1>2 DEF Responses
  <2> QED BY <1>2, <2>1, DetailAnswers
<1>3. CASE c.route = "levels"
  <2>1. Responses(c, table) = {StatsResponse("level", c.q, table)}
    BY <1>3 DEF Responses
  <2> QED BY <1>3, <2>1, StatsAnswers
<1>4. CASE c.route = "services"
  <2>1. Responses(c, table) = {StatsResponse("service", c.q, table)}
    BY <1>4 DEF Responses
  <2> QED BY <1>4, <2>1, StatsAnswers
<1> QED BY <1>1, <1>2, <1>3, <1>4

LEMMA LoggedLevels ==
    ASSUME NEW answer, answer.status \in Int
    PROVE  /\ LevelOf(answer) \in {"info", "warn", "error"}
           /\ LevelOf(answer) = "info" => answer.data # Nil
<1>1. CASE answer.status >= 500
  BY <1>1 DEF LevelOf
<1>2. CASE answer.status \in 400..499
  BY <1>2 DEF LevelOf
<1>3. CASE ~(answer.status >= 500) /\ answer.status \notin 400..499
  BY <1>3 DEF LevelOf
<1> QED BY <1>1, <1>2, <1>3

-----------------------------------------------------------------------------
(* The list and the statistics.                                            *)

\* Numbers that an int holds keep their value.
LEMMA WrapIsIdentity ==
    ASSUME NEW n \in 0..MaxInt
    PROVE  Wrap(n) = n
<1>1. MaxInt \in Nat
  BY PageSizesAssumption
<1>2. (n + MaxInt + 1) % (2 * (MaxInt + 1)) = n + MaxInt + 1
  <2>1. n + MaxInt + 1 \in 0..(2 * (MaxInt + 1) - 1)
    BY <1>1
  <2> DEFINE k == n + MaxInt + 1
             w == 2 * (MaxInt + 1)
  <2>2. k \in Nat /\ w \in Nat /\ k < w
    BY <1>1, <2>1
  <2> HIDE DEF k, w
  <2>3. k % w = k
    BY <2>2
  <2> QED BY <2>3 DEF k, w
<1> QED BY <1>1, <1>2 DEF Wrap

\* Without a page in the request it is the first one, whose offset is none.
LEMMA FirstPage ==
    ASSUME NEW q, q.page = Nil, q.page_size = Nil
    PROVE  ~invalidPagination(q) /\ offsetOf(q) = 0
<1>1. pageOf(q) = 1 /\ pageSizeOf(q) = DefaultPageSize
  BY DEF pageOf, pageSizeOf
<1>2. MaxInt \in Nat /\ MaxPageSize \in 1..MaxInt /\ DefaultPageSize \in 1..MaxPageSize
  BY PageSizesAssumption
<1>3. 0 <= MaxInt \div DefaultPageSize
  <2>1. DefaultPageSize \in Nat /\ DefaultPageSize > 0
    BY <1>2
  <2> QED BY <1>2, <2>1
<1>4. ~invalidPagination(q)
  BY <1>1, <1>2, <1>3 DEF invalidPagination
<1>5. offsetOf(q) = Wrap(0)
  <2>1. (pageOf(q) - 1) * pageSizeOf(q) = 0
    BY <1>1, <1>2
  <2> QED BY <2>1 DEF offsetOf
<1>6. Wrap(0) = 0
  BY <1>2, WrapIsIdentity
<1> QED BY <1>4, <1>5, <1>6

LEMMA SameRefusals ==
    ASSUME NEW q \in Requests, NEW route \in {"levels", "services"}
    PROVE  StatusOfParameters(LogsBy(q)) = StatusOfParameters(CountsOf(q, route))
<1> DEFINE p == SameFilter(q)
<1>1. p.page = Nil /\ p.page_size = Nil
  BY DEF SameFilter, Requests
<1> HIDE DEF p
<1>2. ~invalidPagination(p) /\ ~(offsetOf(p) < 0)
  BY <1>1, FirstPage
<1>3. StatusOfParameters(LogsBy(q)) = IF malformed(p) \/ badRange(p) THEN 400 ELSE 0
  BY <1>2 DEF StatusOfParameters, LogsBy, statusBeforeRead, refused, p
<1>4. StatusOfParameters(CountsOf(q, route)) = IF malformed(p) \/ badRange(p) THEN 400 ELSE 0
  BY <1>1 DEF StatusOfParameters, CountsOf, p
<1> QED BY <1>3, <1>4

LEMMA SameSelection ==
    ASSUME NEW q \in Requests, NEW table
    PROVE  Counted(SameFilter(q), table) = Matching(q, table)
BY DEF Counted, Matching, SameFilter, buildStatsFilter, listFilter, Requests

\* The groups of a count add up to what is counted.
LEMMA CountsAddUp ==
    ASSUME NEW S, IsFiniteSet(S), NEW field
    PROVE  FoldFunction(+, 0, CountsBy(field, S)) = Cardinality(S)
<1> DEFINE h == [row \in S |-> Log(row)[field]]
           Image == {h[row] : row \in S}
           f == [v \in Image |-> Cardinality({row \in S : h[row] = v})]
<1>1. SumOver(f, Image) = Cardinality(S)
  <2> HIDE DEF h
  <2> QED BY SumOfFibres
<1>2. CountsBy(field, S) = f
  BY DEF CountsBy
<1>3. DOMAIN f = Image
  OBVIOUS
<1> HIDE DEF f, Image
<1> QED BY <1>1, <1>2, <1>3, FoldIsSum

LEMMA CountAnswers ==
    ASSUME NEW q \in Requests, NEW table, IsFiniteSet(table),
           NEW route \in {"levels", "services"},
           NEW answer \in Responses(CountsOf(q, route), table)
    PROVE  answer.data.total = Cardinality(Matching(q, table))
<1>1. PICK field : answer = StatsResponse(field, SameFilter(q), table)
  BY DEF Responses, CountsOf
<1>2. answer.data.total = FoldFunction(+, 0, CountsBy(field, Counted(SameFilter(q), table)))
  BY <1>1 DEF StatsResponse, Response
<1>3. IsFiniteSet(Matching(q, table))
  <2>1. Matching(q, table) \in SUBSET table
    BY DEF Matching
  <2> QED BY <2>1, FS_Subset
<1> QED BY <1>2, <1>3, SameSelection, CountsAddUp

-----------------------------------------------------------------------------
(* Answers without data.                                                   *)

LEMMA ListCarries ==
    ASSUME NEW q, NEW table \in SUBSET Rows, IsFiniteSet(table),
           NEW answer \in ListResponses(q, table), answer.data = Nil
    PROVE  \E row \in table : ~HasFourDigitYear(Log(row).logged_at)
<1> DEFINE found == Matching(q, table)
           shown == {row \in found : Position(row, found) - offsetOf(q) \in 1..pageSizeOf(q)}
           data  == [total |-> Cardinality(found), rows |-> shown]
<1>1. found \in SUBSET table /\ shown \in SUBSET found
  BY DEF Matching
<1>2. Unreadable(shown) \/ answer = Response(200, data)
  BY DEF ListResponses, RowsResponses
<1> HIDE DEF found, shown
<1>3. Cardinality(found) \in Nat
  BY <1>1, FS_Subset, FS_CardinalityType
<1>4. data \in Data
  BY <1>1, <1>3 DEF Data
<1>5. data # Nil
  BY <1>4, NilAssumption
<1> HIDE DEF data
<1>6. Unreadable(shown)
  BY <1>2, <1>5 DEF Response
<1> QED BY <1>1, <1>6 DEF Unreadable

LEMMA DetailCarries ==
    ASSUME NEW id, NEW table \in SUBSET Rows,
           NEW answer \in DetailResponses(id, table), answer.data = Nil, answer.status # 404
    PROVE  \E row \in table : ~HasFourDigitYear(Log(row).logged_at)
<1> DEFINE found == {row \in table : row.id = id}
           data  == [rows |-> found]
<1>1. found # {}
  BY DEF DetailResponses, ErrorResponse, Response
<1>2. Unreadable(found) \/ answer = Response(200, data)
  BY <1>1 DEF DetailResponses, RowsResponses
<1>3. found \in SUBSET table
  OBVIOUS
<1> HIDE DEF found
<1>4. data \in Data
  BY <1>3 DEF Data
<1>5. data # Nil
  BY <1>4, NilAssumption
<1> HIDE DEF data
<1>6. Unreadable(found)
  BY <1>2, <1>5 DEF Response
<1> QED BY <1>3, <1>6 DEF Unreadable

LEMMA StatsCarry ==
    ASSUME NEW field \in {"level", "service"}, NEW q, NEW table \in SUBSET Rows, IsFiniteSet(table)
    PROVE  StatsResponse(field, q, table).data # Nil
<1> DEFINE S == Counted(q, table)
           V == {Log(row)[field] : row \in S}
           groups == CountsBy(field, S)
           data == [total |-> FoldFunction(+, 0, groups), counts |-> groups]
<1>1. S \in SUBSET table
  BY DEF Counted
<1>2. IsFiniteSet(S) /\ Cardinality(S) \in Nat
  <2> HIDE DEF S
  <2> QED BY <1>1, FS_Subset, FS_CardinalityType
<1>3. FoldFunction(+, 0, groups) \in Nat
  <2> HIDE DEF S
  <2> QED BY <1>2, CountsAddUp
<1>4. V \in SUBSET Values
  <2> SUFFICES ASSUME NEW row \in S PROVE Log(row)[field] \in Values
    OBVIOUS
  <2>1. row.event \in Stored
    BY <1>1 DEF Rows
  <2> QED BY <2>1 DEF Log, Values
<1>5. groups \in [V -> Nat]
  <2> SUFFICES ASSUME NEW v \in V PROVE Cardinality({row \in S : Log(row)[field] = v}) \in Nat
    BY DEF CountsBy
  <2>1. {row \in S : Log(row)[field] = v} \in SUBSET S
    OBVIOUS
  <2> QED BY <1>2, <2>1, FS_Subset, FS_CardinalityType
<1> HIDE DEF groups, V
<1>6. data \in Data
  BY <1>3, <1>4, <1>5 DEF Data
<1> HIDE DEF data
<1>7. data # Nil
  BY <1>6, NilAssumption
<1> QED BY <1>7 DEF StatsResponse, Response, data, groups, S

LEMMA OnlyFarRowsBreak ==
    ASSUME NEW c, c.route \in {"logs", "detail", "levels", "services"},
           NEW table \in SUBSET Rows, IsFiniteSet(table),
           NEW answer \in Responses(c, table), answer.status # 404, answer.data = Nil
    PROVE  c.route \in {"logs", "detail"} /\ \E row \in table : ~HasFourDigitYear(Log(row).logged_at)
<1>1. CASE c.route = "logs"
  BY <1>1, ListCarries DEF Responses
<1>2. CASE c.route = "detail"
  BY <1>2, DetailCarries DEF Responses
<1>3. CASE c.route = "levels"
  <2>1. answer = StatsResponse("level", c.q, table)
    BY <1>3 DEF Responses
  <2> QED BY <2>1, StatsCarry
<1>4. CASE c.route = "services"
  <2>1. answer = StatsResponse("service", c.q, table)
    BY <1>4 DEF Responses
  <2> QED BY <2>1, StatsCarry
<1> QED BY <1>1, <1>2, <1>3, <1>4

\* The check on the page number is exact, so the list never refuses a
\* request as its own error.
LEMMA NoOwnError ==
    ASSUME NEW c \in Calls PROVE StatusOfParameters(c) \in {0, 400}
<1>1. c.q \in Requests
  BY CallsAssumption
<1>2. ~refused(c.q) => offsetOf(c.q) \in 0..MaxInt
  <2> DEFINE q == c.q
  <2> SUFFICES ASSUME ~refused(q) PROVE offsetOf(q) \in 0..MaxInt
    OBVIOUS
  <2>1. q.page \in OptionalInt /\ q.page_size \in OptionalInt
    BY <1>1 DEF Requests
  <2> HIDE DEF q
  <2>2. /\ MaxInt \in Nat
        /\ pageOf(q) - 1 \in Nat /\ pageSizeOf(q) \in Nat /\ pageSizeOf(q) > 0
        /\ pageOf(q) - 1 <= MaxInt \div pageSizeOf(q)
    BY <2>1, PageSizesAssumption
    DEF refused, invalidPagination, pageOf, pageSizeOf, OptionalInt
  <2>3. (pageOf(q) - 1) * pageSizeOf(q) \in 0..MaxInt
    BY <2>2, ProductBound
  <2> QED BY <2>3, WrapIsIdentity DEF offsetOf
<1>3. MaxInt \in Nat
  BY PageSizesAssumption
<1>4. statusBeforeRead(c.q) \in {0, 400}
  BY <1>2, <1>3 DEF statusBeforeRead
<1> QED BY <1>4 DEF StatusOfParameters

-----------------------------------------------------------------------------
(* The table.                                                              *)

InitialRows == {[id |-> i, event |-> InitialEvents[i]] : i \in DOMAIN InitialEvents}

LEMMA InitialRowsNumbered ==
    /\ IsFiniteSet(InitialRows)
    /\ \A row \in InitialRows : row.id \in 1..Cardinality(InitialRows)
    /\ \A r, s \in InitialRows : r.id = s.id => r = s
<1> DEFINE S == 1..Len(InitialEvents)
           f == [i \in S |-> [id |-> i, event |-> InitialEvents[i]]]
<1>1. Len(InitialEvents) \in Nat /\ DOMAIN InitialEvents = S
  BY InitialEventsAssumption
<1>2. IsFiniteSet(S) /\ Cardinality(S) = Len(InitialEvents)
  <2>1. \A n \in Nat : IsFiniteSet(1..n) /\ Cardinality(1..n) = n
    BY FS_Interval
  <2> QED BY <1>1, <2>1
<1>3. \A row \in InitialRows : row.id \in S /\ row = f[row.id]
  <2> TAKE row \in InitialRows
  <2>1. PICK i \in S : row = [id |-> i, event |-> InitialEvents[i]]
    BY <1>1 DEF InitialRows
  <2> QED BY <2>1
<1>4. \A i \in S : f[i] \in InitialRows /\ f[i].id = i
  BY <1>1 DEF InitialRows
<1>5. f \in Bijection(S, InitialRows)
  BY <1>3, <1>4 DEF Bijection, Injection, Surjection, IsInjective
<1>6. IsFiniteSet(InitialRows) /\ Cardinality(InitialRows) = Len(InitialEvents)
  BY <1>2, <1>5, FS_Bijection DEF ExistsBijection
<1> HIDE DEF f
<1> QED BY <1>3, <1>6

LEMMA NumberedNext ==
    ASSUME RowsAreNumbered, NEW e \in Events
    PROVE  LET more == rows \cup {RowFor(e, rows)}
           IN  /\ IsFiniteSet(more)
               /\ \A row \in more : row.id \in 1..Cardinality(more)
               /\ \A r, s \in more : r.id = s.id => r = s
<1> DEFINE new  == RowFor(e, rows)
           more == rows \cup {new}
<1>1. IsFiniteSet(rows) /\ Cardinality(rows) \in Nat
  BY FS_CardinalityType DEF RowsAreNumbered
<1>2. new.id = Cardinality(rows) + 1
  BY DEF RowFor
<1> HIDE DEF new
<1>3. \A row \in rows : row.id # new.id /\ row.id \in 1..Cardinality(rows)
  BY <1>1, <1>2 DEF RowsAreNumbered
<1>4. new \notin rows
  BY <1>3
<1>5. IsFiniteSet(more) /\ Cardinality(more) = Cardinality(rows) + 1
  BY <1>1, <1>4, FS_AddElement
<1>6. \A row \in more : row.id \in 1..(Cardinality(rows) + 1)
  BY <1>1, <1>2, <1>3
<1>7. \A r, s \in more : r.id = s.id => r = s
  BY <1>3 DEF RowsAreNumbered
<1> QED BY <1>5, <1>6, <1>7 DEF new

LEMMA StoredNext ==
    ASSUME RowsAreNumbered, RowsAreStored, NEW e \in Stored
    PROVE  rows \cup {RowFor(e, rows)} \subseteq Rows
<1>1. Cardinality(rows) \in Nat
  BY FS_CardinalityType DEF RowsAreNumbered
<1>2. RowFor(e, rows) \in Rows
  BY <1>1 DEF RowFor, Rows
<1> QED BY <1>2 DEF RowsAreStored

LEMMA RowsStep ==
    ASSUME IInv, [Next]_vars
    PROVE  /\ RowsAreNumbered' /\ RowsAreStored' /\ WriterAddsNext' /\ rows \subseteq rows'
           /\ rows' = rows \/ UNCHANGED <<pc, call, reply, asked, entries, seen>>
<1> USE DEF IInv, RowsAreStored
<1>1. CASE WriterInserts
  <2>1. PICK e \in Stored : tx' = {RowFor(e, rows)}
    BY <1>1 DEF WriterInserts, Stored
  <2> QED BY <1>1, <2>1 DEF WriterInserts, RowsAreNumbered, WriterAddsNext, RowFor
<1>2. CASE WriterEnds
  <2>1. tx' = {} /\ (rows' = rows \/ rows' = rows \cup tx)
    BY <1>2 DEF WriterEnds
  <2>2. CASE rows' = rows
    BY <1>2, <2>1, <2>2 DEF WriterEnds, RowsAreNumbered, WriterAddsNext
  <2>3. CASE rows' = rows \cup tx /\ tx # {}
    <3>1. PICK e \in Stored : tx = {RowFor(e, rows)}
      BY <2>3 DEF WriterAddsNext
    <3>2. RowsAreNumbered'
      <4>1. e \in Events
        BY DEF Stored
      <4> QED BY <2>3, <3>1, <4>1, NumberedNext DEF RowsAreNumbered
    <3>3. RowsAreStored'
      BY <2>3, <3>1, StoredNext
    <3> QED BY <1>2, <2>1, <2>3, <3>2, <3>3 DEF WriterEnds, WriterAddsNext
  <2> QED BY <2>1, <2>2, <2>3
<1>3. CASE SetReady \/ UNCHANGED vars
  BY <1>3 DEF SetReady, vars, database, RowsAreNumbered, WriterAddsNext, RowFor
<1>4. ASSUME NEW c \in Clients,
             Arrive(c) \/ Runs(c) \/ Waits(c) \/ HangUp(c) \/ ReadFails(c) \/ Panics(c)
      PROVE  rows' = rows /\ tx' = tx
  BY <1>4 DEF Arrive, Runs, Waits, HangUp, ReadFails, Panics, LoadFlag, Handle, Read, Finish,
              Ping, Acquire, database
<1>5. CASE rows' = rows /\ tx' = tx
  BY <1>5 DEF RowsAreNumbered, WriterAddsNext, RowFor
<1> QED BY <1>1, <1>2, <1>3, <1>4, <1>5 DEF Next

-----------------------------------------------------------------------------
(* Places and the connection.                                              *)

LEMMA TypeStep == IInv /\ [Next]_vars => TypeOK'
<1> SUFFICES ASSUME IInv, [Next]_vars PROVE TypeOK'
  OBVIOUS
<1> USE OwnersAssumption, BoundsAssumption DEF IInv, TypeOK
<1>1. CASE SetReady
  BY <1>1 DEF SetReady, database
<1>2. CASE WriterInserts
  <2>1. tx' # {}
    BY <1>2 DEF WriterInserts
  <2> QED BY <1>2, <2>1 DEF WriterInserts
<1>3. CASE WriterEnds
  BY <1>3 DEF WriterEnds, Fault
<1>4. ASSUME NEW c \in Clients, Arrive(c) PROVE TypeOK'
  BY <1>4 DEF Arrive, Goto, Places, database
<1>5. ASSUME NEW c \in Clients, HangUp(c) PROVE TypeOK'
  BY <1>5 DEF HangUp, Fault, database
<1>6. ASSUME NEW c \in Clients, LoadFlag(c) PROVE TypeOK'
  BY <1>6 DEF LoadFlag, RespondWith, Goto, Places, database
<1>7. ASSUME NEW c \in Clients, Ping(c) PROVE TypeOK'
  BY <1>7 DEF Ping, Goto, Places, database
<1>8. ASSUME NEW c \in Clients, Handle(c) PROVE TypeOK'
  <2>1. pc[c] = "handle" /\ (Goto(c, "written") \/ Goto(c, "acquire"))
    BY <1>8 DEF Handle, RespondWith
  <2> QED BY <1>8, <2>1 DEF Handle, Goto, Places, database
<1>9. ASSUME NEW c \in Clients, Acquire(c) PROVE TypeOK'
  BY <1>9 DEF Acquire, Goto, Places
<1>10. ASSUME NEW c \in Clients, Read(c) PROVE TypeOK'
  <2>1. pc[c] = "read" /\ Goto(c, "written") /\ conn' = Nobody
    BY <1>10 DEF Read, RespondWith
  <2> QED BY <1>10, <2>1 DEF Read, Goto, Places
<1>11. ASSUME NEW c \in Clients, ReadFails(c) \/ Panics(c) PROVE TypeOK'
  <2>1. /\ pc[c] \in {"ping", "handle", "acquire", "read"} /\ Goto(c, "written") /\ GiveBack(c)
        /\ UNCHANGED <<ready, tx, asked>> /\ faults' \in 0..MaxFaults
    BY <1>11 DEF ReadFails, Panics, RespondWith, Fault
  <2> QED BY <2>1 DEF Goto, GiveBack, Places
<1>12. ASSUME NEW c \in Clients, Finish(c) PROVE TypeOK'
  BY <1>12 DEF Finish, Goto, Places, database
<1>13. CASE UNCHANGED vars
  BY <1>13 DEF vars, database
<1> QED BY <1>1, <1>2, <1>3, <1>4, <1>5, <1>6, <1>7, <1>8, <1>9, <1>10, <1>11, <1>12, <1>13
        DEF Next, Runs, Waits

-----------------------------------------------------------------------------
(* What is known of the clients, and what they know.                       *)

\* A step of one client, seen from any other client.
Others(c) ==
    \A d \in Clients \ {c} :
        /\ pc'[d] = pc[d] /\ call'[d] = call[d] /\ requestID'[d] = requestID[d]
        /\ reply'[d] = reply[d] /\ asked'[d] = asked[d] /\ entries'[d] = entries[d]
        /\ seen'[d] = seen[d]

RequestStep(c) == Arrive(c) \/ Runs(c) \/ Waits(c) \/ HangUp(c) \/ ReadFails(c) \/ Panics(c)

\* What a client's step is to the client itself: it asks, moves on, is
\* answered, or has its answer logged.
Asks(c) ==
    /\ pc[c] = "idle" /\ pc'[c] \in {"gate", "handle"}
    /\ asked[c] < MaxRequests /\ asked'[c] = asked[c] + 1
    /\ call'[c] \in Calls
    /\ \/ requestID'[c] = <<c, asked[c] + 1>>
       \/ requestID'[c] = <<call'[c].given, 0>>
    /\ entries'[c] = entries[c] /\ seen'[c] = seen[c]

Unanswered(c) ==
    /\ pc'[c] = "idle" <=> pc[c] = "idle"
    /\ pc'[c] = "written" <=> pc[c] = "written"
    /\ pc'[c] \in {"acquire", "read"} => call[c].route \notin Probes
    /\ call'[c] = call[c] /\ requestID'[c] = requestID[c] /\ reply'[c] = reply[c]
    /\ asked'[c] = asked[c] /\ entries'[c] = entries[c] /\ seen'[c] = seen[c]

IsAnswered(c) ==
    /\ pc[c] # "idle" /\ pc'[c] = "written"
    /\ call'[c] = call[c] /\ requestID'[c] = requestID[c]
    /\ asked'[c] = asked[c] /\ entries'[c] = entries[c] /\ seen'[c] = seen[c]
    /\ reply'[c].status \in Int
    /\ call[c].route = "logs" /\ reply'[c].data # Nil => reply'[c].data.rows \subseteq rows
    /\ call[c].route = "detail" =>
          /\ reply'[c].status = 404 => \A row \in rows : row.id # call[c].id
          /\ reply'[c].data # Nil =>
                \E row \in rows : row.id = call[c].id /\ reply'[c].data.rows = {row}

IsLogged(c) ==
    /\ pc[c] = "written" /\ pc'[c] = "idle"
    /\ call'[c] = call[c] /\ requestID'[c] = requestID[c] /\ reply'[c] = reply[c]
    /\ asked'[c] = asked[c]
    /\ entries'[c] = Append(entries[c],
          [id |-> requestID[c], status |-> reply[c].status, level |-> LevelOf(reply[c])])
    /\ \/ seen'[c] = seen[c]
       \/ /\ call[c].route = "logs" /\ reply[c].data # Nil
          /\ seen'[c] = seen[c] \cup reply[c].data.rows

LEMMA ErrorsAnswer ==
    ASSUME IInv, NEW c \in Clients, pc[c] # "idle", NEW status \in {200, 400, 500, 503}, NEW data,
           RespondWith(c, [status |-> status, data |-> data]),
           UNCHANGED <<call, requestID, asked, entries, seen>>,
           data = Nil \/ call[c].route \in Probes
    PROVE  IsAnswered(c)
BY DEF IInv, TypeOK, ClientsAreKnown, OfClients, RespondWith, Goto, IsAnswered, Probes

LEMMA ClientsMove ==
    ASSUME IInv, NEW c \in Clients, RequestStep(c)
    PROVE  Asks(c) \/ Unanswered(c) \/ IsAnswered(c) \/ IsLogged(c)
<1> USE DEF IInv, TypeOK, ClientsAreKnown, OfClients, Goto
<1>1. CASE Arrive(c)
  BY <1>1 DEF Arrive, Asks
<1>2. CASE HangUp(c)
  BY <1>2 DEF HangUp, Unanswered, database
<1>3. CASE LoadFlag(c)
  <2>1. CASE ready
    BY <1>3, <2>1 DEF LoadFlag, Unanswered
  <2>2. CASE ~ready
    BY <1>3, <2>2, ErrorsAnswer DEF LoadFlag, ErrorResponse, Response
  <2> QED BY <2>1, <2>2
<1>4. CASE Ping(c)
  BY <1>4 DEF Ping, Unanswered
<1>5. CASE Handle(c)
  <2> DEFINE wrong == StatusOfParameters(call[c])
  <2>1. CASE call[c].route \in Probes /\ RespondWith(c, Response(200, call[c].route))
    <3>1. RespondWith(c, [status |-> 200, data |-> call[c].route])
      BY <2>1 DEF Response
    <3>2. pc[c] # "idle" /\ UNCHANGED <<call, requestID, asked, entries, seen>>
      BY <1>5 DEF Handle
    <3> QED BY <2>1, <3>1, <3>2, ErrorsAnswer
  <2>2. CASE wrong # 0 /\ RespondWith(c, ErrorResponse(wrong))
    <3>1. wrong \in {200, 400, 500, 503}
      BY <2>2, Refusals
    <3> HIDE DEF wrong
    <3>2. RespondWith(c, [status |-> wrong, data |-> Nil])
      BY <2>2 DEF ErrorResponse, Response
    <3>3. pc[c] # "idle" /\ UNCHANGED <<call, requestID, asked, entries, seen>>
      BY <1>5 DEF Handle
    <3> QED BY <3>1, <3>2, <3>3, ErrorsAnswer
  <2>3. CASE call[c].route \notin Probes /\ Goto(c, "acquire") /\ UNCHANGED reply
    BY <1>5, <2>3 DEF Handle, Unanswered
  <2> QED BY <1>5, <2>1, <2>2, <2>3 DEF Handle
<1>6. CASE Acquire(c)
  BY <1>6 DEF Acquire, Unanswered
<1>7. CASE Read(c)
  <2>1. PICK answer \in Responses(call[c], rows) : RespondWith(c, answer)
    BY <1>7 DEF Read
  <2>2. call[c] \in Calls /\ pc[c] = "read" /\ call[c].route \notin Probes
    BY <1>7 DEF Read
  <2>3. CASE call[c].route \in {"logs", "detail", "levels", "services"}
    <3>1. /\ answer.status \in {200, 404, 500}
          /\ call[c].route = "logs" /\ answer.data # Nil => answer.data.rows \subseteq rows
          /\ call[c].route = "detail" /\ answer.status = 404 =>
                \A row \in rows : row.id # call[c].id
          /\ call[c].route = "detail" /\ answer.data # Nil =>
                \E row \in rows : row.id = call[c].id /\ answer.data.rows = {row}
      BY <2>3, Answers DEF RowsAreNumbered
    <3>2. reply'[c] = answer /\ pc'[c] = "written"
      BY <2>1 DEF RespondWith
    <3> QED BY <1>7, <2>2, <3>1, <3>2 DEF Read, IsAnswered
  <2> QED BY <2>2, <2>3, ReadRoutes
<1>8. CASE ReadFails(c)
  <2>1. PICK status \in {500, 503} : RespondWith(c, ErrorResponse(status))
    BY <1>8 DEF ReadFails
  <2>2. pc[c] # "idle" /\ UNCHANGED <<call, requestID, asked, entries, seen>>
    BY <1>8 DEF ReadFails
  <2> QED BY <2>1, <2>2, ErrorsAnswer DEF ErrorResponse, Response
<1>9. CASE Panics(c)
  <2>1. RespondWith(c, [status |-> 500, data |-> Nil])
    BY <1>9 DEF Panics, ErrorResponse, Response
  <2>2. pc[c] # "idle" /\ UNCHANGED <<call, requestID, asked, entries, seen>>
    BY <1>9 DEF Panics
  <2> QED BY <2>1, <2>2, ErrorsAnswer
<1>10. CASE Finish(c)
  BY <1>10 DEF Finish, IsLogged
<1> QED BY <1>1, <1>2, <1>3, <1>4, <1>5, <1>6, <1>7, <1>8, <1>9, <1>10
        DEF RequestStep, Runs, Waits

LEMMA OthersStay ==
    ASSUME IInv, NEW c \in Clients, RequestStep(c) PROVE Others(c)
BY DEF IInv, TypeOK, ClientsAreKnown, OfClients, Others, RequestStep, Arrive, Runs, Waits, HangUp,
       ReadFails, Panics, LoadFlag, Ping, Handle, Acquire, Read, Finish, Goto, RespondWith, database

LEMMA Shapes ==
    ASSUME IInv, [Next]_vars
    PROVE  /\ OfClients(call)' /\ OfClients(requestID)' /\ OfClients(reply)'
           /\ DOMAIN entries' = Clients /\ DOMAIN seen' = Clients
           /\ entries' = [c \in Clients |-> entries'[c]] /\ seen' = [c \in Clients |-> seen'[c]]
<1> USE DEF IInv, ClientsAreKnown, OfClients
<1>1. CASE SetReady \/ WriterInserts \/ WriterEnds \/ UNCHANGED vars
  BY <1>1 DEF SetReady, WriterInserts, WriterEnds, vars
<1>2. ASSUME NEW c \in Clients, RequestStep(c)
      PROVE  /\ OfClients(call)' /\ OfClients(requestID)' /\ OfClients(reply)'
             /\ entries' = [d \in Clients |-> entries'[d]] /\ seen' = [d \in Clients |-> seen'[d]]
  BY <1>2 DEF RequestStep, Arrive, Runs, Waits, HangUp, ReadFails, Panics, LoadFlag, Ping, Handle,
              Acquire, Read, Finish, Goto, RespondWith
<1> QED BY <1>1, <1>2 DEF Next, RequestStep

\* Every step is one client's, or leaves the clients as they are.
LEMMA Steps ==
    ASSUME IInv, [Next]_vars
    PROVE  \/ UNCHANGED <<pc, call, requestID, reply, asked, entries, seen>>
           \/ \E c \in Clients :
                /\ rows' = rows /\ Others(c)
                /\ Asks(c) \/ Unanswered(c) \/ IsAnswered(c) \/ IsLogged(c)
<1>1. CASE SetReady \/ WriterInserts \/ WriterEnds \/ UNCHANGED vars
  BY <1>1 DEF SetReady, WriterInserts, WriterEnds, vars
<1>2. ASSUME NEW c \in Clients, RequestStep(c)
      PROVE  rows' = rows /\ Others(c) /\ (Asks(c) \/ Unanswered(c) \/ IsAnswered(c) \/ IsLogged(c))
  <2>1. rows' = rows
    BY <1>2 DEF RequestStep, Arrive, Runs, Waits, HangUp, ReadFails, Panics, LoadFlag, Ping, Handle,
                Acquire, Read, Finish, database
  <2> QED BY <1>2, <2>1, OthersStay, ClientsMove
<1> QED BY <1>1, <1>2 DEF Next, RequestStep

LEMMA NewEntry ==
    ASSUME IInv, NEW c \in Clients, IsLogged(c)
    PROVE  LET entry == [ id     |-> requestID[c], status |-> reply[c].status,
                          level  |-> LevelOf(reply[c]) ]
           IN  /\ entry \in Entries
               /\ entry.level = "info" => reply[c].data # Nil
               /\ entries'[c] \in Seq(Entries) /\ Len(entries'[c]) = asked[c]
               /\ entries'[c][asked[c]] = entry
<1> DEFINE entry == [id |-> requestID[c], status |-> reply[c].status, level |-> LevelOf(reply[c])]
<1>1. requestID[c] \in IDs /\ reply[c].status \in Int
  BY DEF IInv, ClientsAreKnown, IsLogged
<1>2. /\ LevelOf(reply[c]) \in {"info", "warn", "error"}
      /\ LevelOf(reply[c]) = "info" => reply[c].data # Nil
  BY <1>1, LoggedLevels
<1>3. entry \in Entries /\ (entry.level = "info" => reply[c].data # Nil)
  BY <1>1, <1>2 DEF Entries
<1> HIDE DEF entry
<1>4. entries'[c] = Append(entries[c], entry)
  BY DEF IsLogged, entry
<1>5. entries[c] \in Seq(Entries) /\ Len(entries[c]) + 1 = asked[c]
  BY DEF IInv, ClientsAreKnown, EntriesAreTrue, IsLogged
<1>6. entries'[c] \in Seq(Entries) /\ Len(entries'[c]) = asked[c] /\ entries'[c][asked[c]] = entry
  BY <1>3, <1>4, <1>5
<1> QED BY <1>3, <1>6 DEF entry

LEMMA KnownStep == IInv /\ [Next]_vars => ClientsAreKnown'
<1> SUFFICES ASSUME IInv, [Next]_vars PROVE ClientsAreKnown'
  OBVIOUS
<1>1. rows \subseteq rows'
  BY RowsStep
<1>2. CASE UNCHANGED <<pc, call, requestID, reply, asked, entries, seen>>
  BY <1>1, <1>2 DEF IInv, ClientsAreKnown, OfClients
<1>3. ASSUME NEW c \in Clients, rows' = rows, Others(c),
             Asks(c) \/ Unanswered(c) \/ IsAnswered(c) \/ IsLogged(c)
      PROVE  ClientsAreKnown'
  <2>1. entries'[c] \in Seq(Entries) /\ seen'[c] \subseteq rows
    <3>1. CASE IsLogged(c)
      BY <3>1, NewEntry DEF IInv, IsLogged, ListsAreStored, ClientsAreKnown
    <3> QED BY <1>3, <3>1 DEF Asks, Unanswered, IsAnswered, IInv, ClientsAreKnown
  <2>2. pc'[c] # "idle" =>
          call'[c] \in Calls /\ requestID'[c] \in IDs /\ asked'[c] \in 1..MaxRequests
    <3>1. CASE Asks(c)
      <4>1. asked[c] + 1 \in 1..MaxRequests
        BY <3>1, BoundsAssumption DEF Asks, IInv, TypeOK
      <4> QED BY <3>1, <4>1 DEF Asks, IDs
    <3> QED BY <1>3, <3>1 DEF Unanswered, IsAnswered, IsLogged, IInv, ClientsAreKnown
  <2>3. /\ pc'[c] \in {"acquire", "read"} => call'[c].route \notin Probes
        /\ pc'[c] = "written" => reply'[c].status \in Int
    <3>1. CASE Asks(c)
      BY <3>1 DEF Asks
    <3> QED BY <1>3, <3>1 DEF Unanswered, IsAnswered, IsLogged, IInv, ClientsAreKnown
  <2>4. \A d \in Clients \ {c} :
          /\ entries'[d] \in Seq(Entries) /\ seen'[d] \subseteq rows
          /\ pc'[d] # "idle" =>
                call'[d] \in Calls /\ requestID'[d] \in IDs /\ asked'[d] \in 1..MaxRequests
          /\ pc'[d] \in {"acquire", "read"} => call'[d].route \notin Probes
          /\ pc'[d] = "written" => reply'[d].status \in Int
    BY <1>3 DEF Others, IInv, ClientsAreKnown
  <2>5. entries' \in [Clients -> Seq(Entries)] /\ seen' \in [Clients -> SUBSET rows']
    BY <1>3, <2>1, <2>4, Shapes
  <2> QED BY <2>2, <2>3, <2>4, <2>5, Shapes DEF ClientsAreKnown
<1> QED BY <1>2, <1>3, Steps

LEMMA AnswersStep == IInv /\ [Next]_vars => ListsAreStored' /\ DetailsAreTrue'
<1> SUFFICES ASSUME IInv, [Next]_vars PROVE ListsAreStored' /\ DetailsAreTrue'
  OBVIOUS
<1>1. rows \subseteq rows'
  BY RowsStep
<1>2. CASE UNCHANGED <<pc, call, requestID, reply, asked, entries, seen>>
  BY <1>1, <1>2 DEF IInv, ListsAreStored, DetailsAreTrue
<1>3. ASSUME NEW c \in Clients, rows' = rows, Others(c),
             Asks(c) \/ Unanswered(c) \/ IsAnswered(c) \/ IsLogged(c)
      PROVE  ListsAreStored' /\ DetailsAreTrue'
  <2> DEFINE Lists(d) ==
               pc[d] = "written" /\ call[d].route = "logs" /\ reply[d].data # Nil =>
                   reply[d].data.rows \subseteq rows
             Details(d) ==
               pc[d] \in {"written", "idle"} /\ call[d] # Nil /\ call[d].route = "detail" =>
                   /\ reply[d].status = 404 => \A row \in seen[d] : row.id # call[d].id
                   /\ reply[d].data # Nil =>
                         \E row \in rows : row.id = call[d].id /\ reply[d].data.rows = {row}
  <2>1. \A d \in Clients : Lists(d) /\ Details(d)
    BY DEF IInv, ListsAreStored, DetailsAreTrue
  <2>2. \A d \in Clients \ {c} : Lists(d)' /\ Details(d)'
    BY <1>3, <2>1 DEF Others
  <2>3. seen[c] \subseteq rows
    BY DEF IInv, ClientsAreKnown
  <2>4. Lists(c)' /\ Details(c)'
    <3>1. CASE Asks(c)
      BY <3>1 DEF Asks
    <3>2. CASE Unanswered(c)
      BY <1>3, <2>1, <3>2 DEF Unanswered
    <3>3. CASE IsAnswered(c)
      BY <1>3, <2>3, <3>3 DEF IsAnswered
    <3>4. CASE IsLogged(c)
      BY <1>3, <2>1, <3>4 DEF IsLogged
    <3> QED BY <1>3, <3>1, <3>2, <3>3, <3>4
  <2> QED BY <2>2, <2>4 DEF ListsAreStored, DetailsAreTrue
<1> QED BY <1>2, <1>3, Steps

LEMMA EntriesStep == IInv /\ [Next]_vars => EntriesAreTrue'
<1> SUFFICES ASSUME IInv, [Next]_vars PROVE EntriesAreTrue'
  OBVIOUS
<1> DEFINE Logged(d) ==
             pc[d] = "idle" =>
                /\ Len(entries[d]) = asked[d]
                /\ asked[d] > 0 =>
                      /\ entries[d][asked[d]].id = requestID[d]
                      /\ entries[d][asked[d]].status = reply[d].status
                      /\ entries[d][asked[d]].level = "info" => reply[d].data # Nil
           Due(d) == pc[d] # "idle" => Len(entries[d]) + 1 = asked[d]
<1>1. \A d \in Clients : Logged(d) /\ Due(d)
  BY DEF IInv, EntriesAreTrue, EveryAnswerIsLogged
<1>2. CASE UNCHANGED <<pc, call, requestID, reply, asked, entries, seen>>
  BY <1>2 DEF IInv, EntriesAreTrue, EveryAnswerIsLogged
<1>3. ASSUME NEW c \in Clients, Others(c),
             Asks(c) \/ Unanswered(c) \/ IsAnswered(c) \/ IsLogged(c)
      PROVE  EntriesAreTrue'
  <2>1. \A d \in Clients \ {c} : Logged(d)' /\ Due(d)'
    BY <1>1, <1>3 DEF Others
  <2>2. Logged(c)' /\ Due(c)'
    <3>1. CASE Asks(c)
      BY <1>1, <3>1 DEF Asks
    <3>2. CASE Unanswered(c)
      BY <1>1, <3>2 DEF Unanswered
    <3>3. CASE IsAnswered(c)
      BY <1>1, <3>3 DEF IsAnswered
    <3>4. CASE IsLogged(c)
      BY <3>4, NewEntry DEF IsLogged
    <3> QED BY <1>3, <3>1, <3>2, <3>3, <3>4
  <2> QED BY <2>1, <2>2 DEF EntriesAreTrue, EveryAnswerIsLogged
<1> QED BY <1>2, <1>3, Steps

-----------------------------------------------------------------------------
(* Failures.                                                               *)

\* What a client's own step makes of its answer while nothing has failed.
LEMMA AnsweredBecause ==
    ASSUME IInv, NEW c \in Clients, RequestStep(c), faults' = 0, pc'[c] = "written",
           reply'[c].status \in {200, 500}, reply'[c].data = Nil
    PROVE  /\ call[c].route \in {"logs", "detail"} /\ call' = call
           /\ \E row \in rows : ~HasFourDigitYear(Log(row).logged_at)
<1>1. faults \in Nat /\ (gone[c] => faults > 0)
  BY BoundsAssumption DEF IInv, TypeOK, HangUpsAreFaults
<1>2. ~HangUp(c) /\ ~ReadFails(c) /\ ~Panics(c)
  <2>1. ~Fault
    BY <1>1 DEF Fault
  <2>2. ~(gone[c] /\ UNCHANGED faults)
    BY <1>1
  <2> QED BY <2>1, <2>2 DEF HangUp, ReadFails, Panics
<1> USE DEF IInv, TypeOK, ClientsAreKnown, OfClients, Goto
<1>3. ~Arrive(c) /\ ~Ping(c) /\ ~Acquire(c) /\ ~Finish(c)
  BY DEF Arrive, Ping, Acquire, Finish
<1>4. ~LoadFlag(c)
  BY DEF LoadFlag, RespondWith, ErrorResponse, Response
<1>5. ~Handle(c)
  <2> SUFFICES ASSUME Handle(c) PROVE FALSE
    OBVIOUS
  <2>1. call[c] \in Calls /\ pc[c] = "handle"
    BY DEF Handle
  <2>2. CASE call[c].route \in Probes /\ RespondWith(c, Response(200, call[c].route))
    <3>1. reply'[c].data = call[c].route
      BY <2>2 DEF RespondWith, Response
    <3> QED BY <2>2, <3>1, NilAssumption DEF Data
  <2>3. CASE /\ StatusOfParameters(call[c]) # 0
             /\ RespondWith(c, ErrorResponse(StatusOfParameters(call[c])))
    <3>1. reply'[c].status = StatusOfParameters(call[c])
      BY <2>3 DEF RespondWith, ErrorResponse, Response
    <3>2. StatusOfParameters(call[c]) = 400
      BY <2>1, <2>3, NoOwnError
    <3> QED BY <3>1, <3>2
  <2>4. CASE Goto(c, "acquire")
    BY <2>4
  <2> QED BY <2>2, <2>3, <2>4 DEF Handle
<1>6. Read(c)
  BY <1>2, <1>3, <1>4, <1>5 DEF RequestStep, Runs, Waits
<1>7. PICK answer \in Responses(call[c], rows) : RespondWith(c, answer)
  BY <1>6 DEF Read
<1>8. reply'[c] = answer /\ call' = call
  BY <1>6, <1>7 DEF RespondWith, Read
<1>9. call[c].route \in {"logs", "detail", "levels", "services"}
  BY <1>6, ReadRoutes DEF Read
<1>10. rows \in SUBSET Rows /\ IsFiniteSet(rows)
  BY DEF RowsAreNumbered, RowsAreStored
<1>11. answer.data = Nil /\ answer.status # 404
  BY <1>8
<1>12. /\ call[c].route \in {"logs", "detail"}
       /\ \E row \in rows : ~HasFourDigitYear(Log(row).logged_at)
  <2> HIDE DEF IInv, TypeOK, ClientsAreKnown
  <2> QED BY <1>7, <1>9, <1>10, <1>11, OnlyFarRowsBreak
<1> QED BY <1>8, <1>12

LEMMA FailuresStep == IInv /\ [Next]_vars => HangUpsAreFaults' /\ OnlyFarTimesFail'
<1> SUFFICES ASSUME IInv, [Next]_vars PROVE HangUpsAreFaults' /\ OnlyFarTimesFail'
  OBVIOUS
<1>1. faults \in Nat /\ faults' \in Nat /\ faults' >= faults /\ rows \subseteq rows'
  <2>1. faults \in Nat
    BY BoundsAssumption DEF IInv, TypeOK
  <2>2. faults' = faults \/ faults' = faults + 1
    BY DEF Next, SetReady, WriterInserts, WriterEnds, Arrive, Runs, Waits, HangUp, ReadFails,
           Panics, LoadFlag, Handle, Read, Finish, Ping, Acquire, Fault, vars
  <2> QED BY <2>1, <2>2, RowsStep
<1>2. CASE UNCHANGED <<pc, call, gone, reply>>
  <2>1. HangUpsAreFaults'
    <3>1. faults > 0 => faults' > 0
      BY <1>1
    <3>2. gone \in [Clients -> BOOLEAN] /\ (\A c \in Clients : gone[c] => faults > 0) /\ gone' = gone
      BY <1>2 DEF IInv, HangUpsAreFaults
    <3>3. gone' \in [Clients -> BOOLEAN]
      BY <3>2
    <3>4. \A c \in Clients : gone'[c] => faults' > 0
      BY <3>1, <3>2, Zenon
    <3> QED BY <3>3, <3>4 DEF HangUpsAreFaults
  <2>2. faults' = 0 => faults = 0
    BY <1>1
  <2>3. OnlyFarTimesFail'
    <3> HIDE DEF IInv
    <3>1. OnlyFarTimesFail
      BY DEF IInv
    <3> QED BY <1>1, <1>2, <2>2, <3>1 DEF OnlyFarTimesFail
  <2> QED BY <2>1, <2>3
<1>3. ASSUME NEW c \in Clients, RequestStep(c)
      PROVE  HangUpsAreFaults' /\ OnlyFarTimesFail'
  <2>1. Others(c)
    BY <1>3, OthersStay
  <2>2. HangUpsAreFaults'
    <3>1. gone \in [Clients -> BOOLEAN] /\ \A d \in Clients : gone[d] => faults > 0
      BY DEF IInv, HangUpsAreFaults
    <3>2. \/ gone' = gone
          \/ gone' = [gone EXCEPT ![c] = FALSE]
          \/ gone' = [gone EXCEPT ![c] = TRUE] /\ faults' = faults + 1
      BY <1>3 DEF RequestStep, Arrive, Runs, Waits, HangUp, ReadFails, Panics, LoadFlag, Handle,
                  Read, Finish, Ping, Acquire, Fault
    <3>3. (faults > 0 => faults' > 0) /\ (faults' = faults + 1 => faults' > 0)
      BY <1>1
    <3>4. gone' \in [Clients -> BOOLEAN]
      BY <3>1, <3>2
    <3>5. \A d \in Clients \ {c} : gone'[d] = gone[d]
      BY <3>1, <3>2
    <3>6. gone'[c] = gone[c] \/ gone'[c] = FALSE \/ faults' > 0
      BY <3>1, <3>2, <3>3
    <3>7. ASSUME NEW d \in Clients, gone'[d] PROVE faults' > 0
      <4>1. CASE d # c
        <5>1. gone[d]
          BY <3>5, <3>7, <4>1
        <5> QED BY <3>1, <3>3, <5>1
      <4>2. CASE d = c
        <5>1. faults' > 0 \/ gone[c]
          BY <3>6, <3>7, <4>2
        <5> QED BY <3>1, <3>3, <5>1
      <4> QED BY <4>1, <4>2
    <3> QED BY <3>4, <3>7 DEF HangUpsAreFaults
  <2>3. ASSUME NEW d \in Clients, pc'[d] = "written", faults' = 0,
               reply'[d].status \in {200, 500}, reply'[d].data = Nil
        PROVE  /\ call'[d].route \in {"logs", "detail"}
               /\ \E row \in rows' : ~HasFourDigitYear(Log(row).logged_at)
    <3>1. CASE d = c
      BY <1>1, <1>3, <2>3, <3>1, AnsweredBecause
    <3>2. CASE d # c
      <4>1. pc[d] = "written" /\ faults = 0 /\ call'[d] = call[d] /\ reply'[d] = reply[d]
        BY <1>1, <2>1, <2>3, <3>2 DEF Others
      <4> QED BY <1>1, <2>3, <4>1 DEF IInv, OnlyFarTimesFail
    <3> QED BY <3>1, <3>2
  <2> QED BY <2>2, <2>3 DEF OnlyFarTimesFail
<1> QED BY <1>2, <1>3 DEF Next, RequestStep, SetReady, WriterInserts, WriterEnds, vars

-----------------------------------------------------------------------------
(* The theorems.                                                           *)

LEMMA InitInv == Init => IInv
<1> SUFFICES ASSUME Init PROVE IInv
  OBVIOUS
<1>1. TypeOK
  <2>1. 0 \in 0..MaxRequests /\ 0 \in 0..MaxFaults
    BY BoundsAssumption
  <2>2. \A c \in Clients : pc[c] = "idle" /\ conn # c
    BY OwnersAssumption DEF Init
  <2>3. ready \in BOOLEAN /\ conn = Nobody /\ conn # Writer /\ tx = {} /\ faults = 0
    BY OwnersAssumption DEF Init
  <2>4. pc \in [Clients -> Places] /\ asked \in [Clients -> 0..MaxRequests]
    BY <2>1 DEF Init, Places
  <2> QED BY <2>1, <2>2, <2>3, <2>4 DEF TypeOK
<1>2. << >> \in Seq(Entries) /\ Len(<< >>) = 0
  OBVIOUS
<1>3. ClientsAreKnown
  BY <1>2 DEF Init, ClientsAreKnown, OfClients
<1>4. RowsAreNumbered /\ WriterAddsNext
  BY InitialRowsNumbered DEF Init, RowsAreNumbered, WriterAddsNext, InitialRows
<1>5. RowsAreStored
  <2>1. \A i \in DOMAIN InitialEvents : i \in Nat /\ InitialEvents[i] \in Stored
    BY InitialEventsAssumption
  <2> QED BY <2>1 DEF Init, RowsAreStored, Rows
<1>6. HangUpsAreFaults /\ OnlyFarTimesFail
  BY DEF Init, HangUpsAreFaults, OnlyFarTimesFail
<1>7. ListsAreStored /\ DetailsAreTrue
  BY DEF Init, ListsAreStored, DetailsAreTrue
<1>8. EntriesAreTrue
  BY <1>2 DEF Init, EntriesAreTrue, EveryAnswerIsLogged
<1> QED BY <1>1, <1>3, <1>4, <1>5, <1>6, <1>7, <1>8 DEF IInv

LEMMA Invariant == Spec => []IInv
<1>1. IInv /\ [Next]_vars => IInv'
  BY TypeStep, KnownStep, RowsStep, AnswersStep, EntriesStep, FailuresStep DEF IInv
<1> QED BY InitInv, <1>1, PTL DEF Spec

(* The requests and the ingestion keep their shape: the connection is with *)
(* one of them at most, with the ingestion while it has a transaction open *)
(* and with a request exactly while it reads, panics and failures of a     *)
(* statement included.                                                     *)
THEOREM TypeCorrect == Spec => []TypeOK
<1>1. IInv => TypeOK
  BY DEF IInv
<1> QED BY <1>1, Invariant, PTL

(* A row that a client has got in a list is there when the client asks for *)
(* its detail, and is the row it was, for any number of clients and events *)
(* and whatever is ingested, rolled back or fails in between.              *)
THEOREM ListedRowsStay == Spec => []DetailIsWhatWasListed
<1>1. IInv => DetailIsWhatWasListed
  <2> SUFFICES ASSUME IInv, NEW c \in Clients, Done(c, "detail"),
                      NEW row \in seen[c], row.id = call[c].id
               PROVE  reply[c].status # 404 /\ (reply[c].data # Nil => reply[c].data.rows = {row})
    BY DEF DetailIsWhatWasListed
  <2>1. row \in rows
    BY DEF IInv, ClientsAreKnown
  <2>2. /\ reply[c].status # 404
        /\ reply[c].data # Nil =>
              \E r \in rows : r.id = call[c].id /\ reply[c].data.rows = {r}
    BY DEF IInv, DetailsAreTrue, Done
  <2> QED BY <2>1, <2>2 DEF IInv, RowsAreNumbered
<1> QED BY <1>1, Invariant, PTL

(* Every request that has ended has its entry in the access log, the last  *)
(* one of its client, with the request's own ID and the status answered,   *)
(* and no answer without data is logged as fine.                           *)
THEOREM AnswersAreLogged == Spec => []EveryAnswerIsLogged
<1>1. IInv => EveryAnswerIsLogged
  BY DEF IInv, EntriesAreTrue
<1> QED BY <1>1, Invariant, PTL

(* In every state of the table, the list and both statistics refuse the    *)
(* same filters, and count the same rows for those they accept, although   *)
(* each part of the code reads and builds the filter on its own.           *)
THEOREM CountsAgree == Spec => []StatsAgreeWithList
<1>1. IInv => StatsAgreeWithList
  <2> SUFFICES ASSUME IInv, NEW c \in Calls, NEW route \in {"levels", "services"}
               PROVE  /\ StatusOfParameters(LogsBy(c.q)) = StatusOfParameters(CountsOf(c.q, route))
                      /\ \A answer \in Responses(CountsOf(c.q, route), rows) :
                             answer.data.total = Cardinality(Matching(c.q, rows))
    BY DEF StatsAgreeWithList
  <2>1. c.q \in Requests
    BY CallsAssumption
  <2>2. IsFiniteSet(rows)
    BY DEF IInv, RowsAreNumbered
  <2> QED BY <2>1, <2>2, SameRefusals, CountAnswers
<1> QED BY <1>1, Invariant, PTL

(* As long as no statement fails, nothing panics and nobody hangs up, the  *)
(* only answers without data that are neither refusals nor a closed gate   *)
(* are those of lists and details, and only while a row is stored whose    *)
(* time has left the years 0000 to 9999, at either end.                    *)
THEOREM ReadsAreAnswered == Spec => []OnlyFarTimesFail
<1>1. IInv => OnlyFarTimesFail
  BY DEF IInv
<1> QED BY <1>1, Invariant, PTL

-----------------------------------------------------------------------------
(* The percentages of the level statistics.                                *)

\* The inductive invariant of LevelStats.
StatsTypeOK == counts \in [Ranks -> Nat]

LEMMA RanksAreNumbers ==
    IsFiniteSet(Ranks) /\ Ranks \subseteq Nat
<1>1. Levels \in Seq(STRING)
  BY LevelsAssumption
<1>2. Len(Levels) \in Nat /\ Ranks = 1..Len(Levels)
  BY <1>1 DEF Ranks
<1>3. IsFiniteSet(1..Len(Levels))
  BY <1>2, FS_Interval
<1> QED BY <1>2, <1>3

\* Rounding half up is off by half a unit at most.
LEMMA RoundedHalf ==
    ASSUME NEW c \in Nat, NEW t \in Nat \ {0}, NEW share, share = (2000 * c + t) \div (2 * t)
    PROVE  /\ share \in Nat
           /\ (2 * t) * share + (-2000) * c <= t /\ (-(2 * t)) * share + 2000 * c <= t
<1> DEFINE x == 2000 * c + t
           d == 2 * t
           p == x \div d
<1>1. x \in Nat /\ d \in Nat /\ d > 0
  OBVIOUS
<1>2. p \in Nat /\ d * p <= x /\ x < d * p + d
  <2> HIDE DEF x, d
  <2>1. x = d * (x \div d) + (x % d) /\ x % d \in 0..d - 1 /\ x \div d \in Nat
    BY <1>1
  <2> QED BY <1>1, <2>1
<1> HIDE DEF p
<1> DEFINE e == d * p
<1>3. e \in Nat
  <2> HIDE DEF d
  <2> QED BY <1>1, <1>2
<1>4. (-d) * p = -e
  <2> HIDE DEF d
  <2> QED BY <1>1, <1>2
<1>5. e <= 2000 * c + t /\ 2000 * c + t < e + 2 * t
  BY <1>2 DEF x, d
<1> HIDE DEF e
<1>6. e + (-2000) * c <= t /\ -e + 2000 * c <= t
  BY <1>3, <1>5
<1> QED BY <1>2, <1>4, <1>6 DEF e, p, x, d

\* Levels with the same count are in the order of their names.
LEMMA LevelsAreRanked ==
    ASSUME StatsTypeOK
    PROVE  LET n == Cardinality(Found)
           IN  /\ IsFiniteSet(Found) /\ n \in Nat
               /\ \A i \in 1..n : LevelAt(i) \in Found
               /\ \A i, j \in 1..n : LevelAt(i) = LevelAt(j) => i = j
               /\ \A l \in Found : \E i \in 1..n : LevelAt(i) = l
<1> DEFINE S == Found
           n == Cardinality(S)
           R == {p \in S \X S : ranked(p[1], p[2])}
           At(l) == Cardinality({k \in S : ranked(k, l)})
<1>1. IsFiniteSet(S)
  <2>1. S \in SUBSET Ranks
    BY DEF Found
  <2> HIDE DEF S
  <2> QED BY <2>1, RanksAreNumbers, FS_Subset
<1>2. \A l \in S : l \in Int /\ counts[l] \in Int
  BY RanksAreNumbers DEF StatsTypeOK, Found
<1>3. \A k, l \in S : <<k, l>> \in R <=> counts[k] > counts[l] \/ (counts[k] = counts[l] /\ k < l)
  BY DEF ranked
<1>4. StrictlyOrders(R, S)
  <2> HIDE DEF R, S
  <2> QED BY <1>2, <1>3 DEF StrictlyOrders
<1>5. \A l \in S : Precede(R, S, l) = {k \in S : ranked(k, l)}
  BY DEF Precede
<1> HIDE DEF R
<1>6. \A l \in S : Cardinality(Precede(R, S, l)) = At(l)
  BY <1>5
<1> HIDE DEF At, S
<1>7. /\ n \in Nat
      /\ \A l \in S : At(l) \in 0..n - 1
      /\ \A k, l \in S : At(k) = At(l) => k = l
      /\ \A i \in 0..n - 1 : \E l \in S : At(l) = i
  BY <1>1, <1>4, <1>6, RankFacts
<1>8. \A i : LevelAt(i) = CHOOSE l \in S : At(l) = i - 1
  BY DEF LevelAt, S, At
<1> HIDE DEF n
<1>9. \A i \in 1..n : LevelAt(i) \in S /\ At(LevelAt(i)) = i - 1
  <2> TAKE i \in 1..n
  <2>1. i - 1 \in 0..n - 1
    BY <1>7
  <2>2. \E l \in S : At(l) = i - 1
    BY <1>7, <2>1
  <2> QED BY <1>8, <2>2
<1>10. \A i, j \in 1..n : LevelAt(i) = LevelAt(j) => i = j
  BY <1>7, <1>9
<1>11. ASSUME NEW l \in S PROVE \E i \in 1..n : LevelAt(i) = l
  <2>1. At(l) + 1 \in 1..n /\ (At(l) + 1) - 1 = At(l)
    BY <1>7
  <2>2. LevelAt(At(l) + 1) = l
    BY <1>7, <1>9, <2>1
  <2> QED BY <2>1, <2>2
<1> QED BY <1>1, <1>7, <1>9, <1>10, <1>11 DEF S, n

Share == [l \in Ranks |-> calculatePercentage(counts[l], Total)]

\* The levels that occur have all the rows, and their shares all of Sum.
LEMMA WholeResult ==
    ASSUME StatsTypeOK
    PROVE  /\ IsFiniteSet(Found) /\ Len(Stats) = Cardinality(Found)
           /\ Total = SumOver(counts, Found) /\ Total \in Nat
           /\ \A l \in Found : counts[l] <= Total
           /\ (\A l \in Found : Share[l] \in Int) => Sum = SumOver(Share, Found)
<1> DEFINE n == Cardinality(Found)
           g == [i \in DOMAIN Stats |-> Stats[i].percentage]
           h == [i \in 1..n |-> LevelAt(i)]
<1>1. IsFiniteSet(Found) /\ n \in Nat
  BY LevelsAreRanked
<1>2. DOMAIN Stats = 1..n /\ \A i \in 1..n : Stats[i].percentage = calculatePercentage(counts[LevelAt(i)], Total)
  BY DEF Stats
<1>3. Len(Stats) = n
  <2>1. Stats = [i \in 1..n |-> Stats[i]]
    BY DEF Stats
  <2> HIDE DEF n
  <2> QED BY <1>1, <1>2, <2>1
<1>4. Total = SumOver(counts, Ranks)
  BY FoldIsSum DEF Total, StatsTypeOK
<1>5. IsFiniteSet(Ranks) /\ Found \in SUBSET Ranks /\ \A l \in Ranks : counts[l] \in Nat
  BY RanksAreNumbers DEF Found, StatsTypeOK
<1>6. Total \in Nat /\ \A l \in Ranks : counts[l] <= Total
  BY <1>4, <1>5, SumOfNaturals
<1>7. SumOver(counts, Ranks \ Found) = 0
  <2>1. IsFiniteSet(Ranks \ Found)
    BY <1>5, FS_Subset
  <2>2. \A l \in Ranks \ Found : counts[l] \in Nat /\ counts[l] = 0
    BY <1>5 DEF Found
  <2> QED BY <2>1, <2>2, SumOfNaturals
<1>8. Total = SumOver(counts, Found)
  <2>1. SumOver(counts, Ranks) = SumOver(counts, Found) + SumOver(counts, Ranks \ Found)
    BY <1>5, SumSplit
  <2>2. SumOver(counts, Found) \in Int
    BY <1>1, <1>5, SumType
  <2> QED BY <1>4, <1>7, <2>1, <2>2
<1>9. ASSUME \A l \in Found : Share[l] \in Int PROVE Sum = SumOver(Share, Found)
  <2>1. \A i \in 1..n : h[i] \in Found
    BY LevelsAreRanked
  <2>2. \A i \in 1..n : g[i] = Share[h[i]] /\ g[i] \in Int
    BY <1>2, <1>5, <1>9, <2>1 DEF Share
  <2>3. \A i, j \in 1..n : h[i] = h[j] => i = j
    BY LevelsAreRanked
  <2>4. {h[i] : i \in 1..n} = Found
    BY LevelsAreRanked
  <2>5. IsFiniteSet(1..n)
    BY <1>1, FS_Interval
  <2>6. Sum = FoldFunction(+, 0, g) /\ DOMAIN g = 1..n
    BY <1>2 DEF Sum
  <2> HIDE DEF g, h, n
  <2>8. Sum = SumOver(g, 1..n)
    BY <2>6, FoldIsSum
  <2> DEFINE P == 1..n
  <2>7. SumOver(Share, {h[i] : i \in P}) = SumOver(g, P)
    <3>1. \A i \in P : g[i] \in Int /\ Share[h[i]] = g[i]
      BY <2>2
    <3>2. \A i, j \in P : h[i] = h[j] => i = j
      BY <2>3
    <3>3. IsFiniteSet(P)
      BY <2>5
    <3> HIDE DEF P
    <3> QED BY <3>1, <3>2, <3>3, SumRenamed
  <2> QED BY <2>4, <2>7, <2>8
<1> QED BY <1>1, <1>3, <1>5, <1>6, <1>8, <1>9

\* The bound divided by the total.
LEMMA DividedBound ==
    ASSUME NEW t \in Nat \ {0}, NEW s \in Int, NEW n \in Nat,
           (2 * t) * s + (-2000) * t <= t * n, (-(2 * t)) * s + 2000 * t <= t * n
    PROVE  2 * (s - 1000) <= n /\ 2 * (1000 - s) <= n
<1>1. ASSUME NEW a \in Int, NEW b \in Int, t * a <= t * b PROVE a <= b
  <2> SUFFICES ASSUME ~(a <= b) PROVE FALSE
    OBVIOUS
  <2>1. PICK d \in Nat : a = b + 1 + d
    <3>1. a - b - 1 \in Nat /\ a = b + 1 + (a - b - 1)
      OBVIOUS
    <3> QED BY <3>1
  <2>2. t * a = t * b + t + t * d /\ t * d \in Nat /\ t * b \in Int
    BY <2>1
  <2> QED BY <1>1, <2>2
<1>2. t * (2 * (s - 1000)) <= t * n
  <2>1. t * (2 * (s - 1000)) = (2 * t) * s + (-2000) * t
    OBVIOUS
  <2> QED BY <2>1
<1>3. t * (2 * (1000 - s)) <= t * n
  <2>1. t * (2 * (1000 - s)) = (-(2 * t)) * s + 2000 * t
    OBVIOUS
  <2> QED BY <2>1
<1> QED BY <1>1, <1>2, <1>3

LEMMA RoundingIsAll == StatsTypeOK => RoundingOnly
<1> SUFFICES ASSUME StatsTypeOK, Stats # << >> PROVE 2 * Off <= Len(Stats)
  BY DEF RoundingOnly
<1> DEFINE n == Cardinality(Found)
           t == Total
           s == SumOver(Share, Found)
<1>1. /\ IsFiniteSet(Found) /\ n \in Nat /\ Len(Stats) = n
      /\ t = SumOver(counts, Found) /\ t \in Nat
      /\ \A l \in Found : counts[l] <= t
  BY WholeResult, LevelsAreRanked
<1>2. \A l \in Found : l \in Ranks /\ counts[l] \in Nat /\ counts[l] > 0
  BY DEF Found, StatsTypeOK
<1>3. t > 0
  <2>1. PICK l \in Found : TRUE
    <3>1. n # 0
      <4> SUFFICES ASSUME n = 0 PROVE Stats = << >>
        OBVIOUS
      <4>1. Stats = [i \in 1..0 |-> Stats[i]]
        BY DEF Stats
      <4> QED BY <4>1
    <3> QED BY <3>1, FS_EmptySet
  <2> QED BY <1>1, <1>2, <2>1
<1> HIDE DEF n, t
<1>4. \A l \in Found : /\ Share[l] \in Int /\ counts[l] \in Int
                       /\ (2 * t) * Share[l] + (-2000) * counts[l] <= t
                       /\ (-(2 * t)) * Share[l] + 2000 * counts[l] <= t
  <2> TAKE l \in Found
  <2>1. Share[l] = (2000 * counts[l] + t) \div (2 * t)
    BY <1>1, <1>2, <1>3 DEF Share, calculatePercentage, t
  <2> DEFINE c == counts[l]
             p == Share[l]
  <2>2. c \in Nat /\ t \in Nat \ {0} /\ p = (2000 * c + t) \div (2 * t)
    BY <1>1, <1>2, <1>3, <2>1
  <2> HIDE DEF c, p
  <2>3. p \in Nat /\ (2 * t) * p + (-2000) * c <= t /\ (-(2 * t)) * p + 2000 * c <= t
    BY <2>2, RoundedHalf
  <2> QED BY <2>2, <2>3 DEF c, p
<1>5. (2 * t) * s + (-2000) * t <= t * n
  <2>1. (2 * t) * SumOver(Share, Found) + (-2000) * SumOver(counts, Found) <= t * Cardinality(Found)
    <3> DEFINE a == 2 * t
               b == -2000
    <3>1. a \in Int /\ b \in Int /\ t \in Int
      BY <1>1
    <3>2. \A l \in Found : /\ Share[l] \in Int /\ counts[l] \in Int
                           /\ a * Share[l] + b * counts[l] <= t
      BY <1>4
    <3> HIDE DEF a, b
    <3>3. a * SumOver(Share, Found) + b * SumOver(counts, Found) <= t * Cardinality(Found)
      BY <1>1, <3>1, <3>2, SumBound
    <3> QED BY <3>3 DEF a, b
  <2> QED BY <1>1, <2>1 DEF n
<1>6. (-(2 * t)) * s + 2000 * t <= t * n
  <2>1. (-(2 * t)) * SumOver(Share, Found) + 2000 * SumOver(counts, Found) <= t * Cardinality(Found)
    <3> DEFINE a == -(2 * t)
               b == 2000
    <3>1. a \in Int /\ b \in Int /\ t \in Int
      BY <1>1
    <3>2. \A l \in Found : /\ Share[l] \in Int /\ counts[l] \in Int
                           /\ a * Share[l] + b * counts[l] <= t
      BY <1>4
    <3> HIDE DEF a, b
    <3>3. a * SumOver(Share, Found) + b * SumOver(counts, Found) <= t * Cardinality(Found)
      BY <1>1, <3>1, <3>2, SumBound
    <3> QED BY <3>3 DEF a, b
  <2> QED BY <1>1, <2>1 DEF n
<1>7. s \in Int /\ Sum = s
  BY <1>1, <1>4, SumType, WholeResult
<1> HIDE DEF s
<1>8. 2 * (s - 1000) <= n /\ 2 * (1000 - s) <= n
  <2>1. t \in Nat \ {0} /\ s \in Int /\ n \in Nat
    BY <1>1, <1>3, <1>7
  <2> QED BY <1>5, <1>6, <2>1, DividedBound
<1> QED BY <1>1, <1>7, <1>8 DEF Off

(* For any levels and any table, the percentages of a result that is not   *)
(* empty add up to 100 up to half a tenth for each level in it: rounding   *)
(* each on its own is all that is lost (stats_service.go,                  *)
(* calculatePercentage; log_stats.go, CountByLevel).                       *)
THEOREM SharesAddUp == StatsSpec => []RoundingOnly
<1>1. StatsInit => StatsTypeOK
  BY DEF StatsInit, StatsTypeOK
<1>2. StatsTypeOK /\ [StatsNext]_counts => StatsTypeOK'
  BY DEF StatsNext, Ingest, StatsTypeOK
<1> QED BY <1>1, <1>2, RoundingIsAll, PTL DEF StatsSpec

===============================================================================

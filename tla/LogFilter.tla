----------------------------- MODULE LogFilter -----------------------------
(***************************************************************************)
(* What a read of the public API asks for and what it selects: the         *)
(* parameters of the request (handler/query.go, handler/stats.go), the     *)
(* filter and the position they become (query_service.go,                  *)
(* stats_service.go), and the rows the filter stands for (log_query.go).   *)
(***************************************************************************)
EXTENDS IngestionService, SequencesExt

CONSTANTS
    DefaultPageSize,  \* DEFAULT_PAGE_SIZE
    MaxPageSize,      \* MAX_PAGE_SIZE
    MaxInt,           \* the largest int, of any width
    FirstInstant,     \* the first instant of the year 0000
    Instant1001,      \* the first instant of the year 1001
    LastInstant       \* the last instant of the year 9999

ASSUME PageSizesAssumption ==
    /\ MaxInt \in Nat
    /\ MaxPageSize \in 1..MaxInt /\ DefaultPageSize \in 1..MaxPageSize
ASSUME InstantsInOrder ==
    /\ {FirstInstant, Instant1001, LastInstant} \subseteq Int
    /\ FirstInstant < ZeroInstant /\ ZeroInstant < Instant1001 /\ Instant1001 <= LastInstant

\* The numbers a parameter of type *int holds; nil when it is not given.
OptionalInt == (-(MaxInt + 1)..MaxInt) \cup {Nil}

Texts == [word : STRING, padded : BOOLEAN, upper : BOOLEAN]
Times == [form : {"instant"}, instant : Int, zone : Int]

\* A list request.  walks is no parameter: it marks the readers that begin
\* with the first page and go on to the last.
Requests ==
    [ form : {"query", "malformed"}, page : OptionalInt, page_size : OptionalInt,
      container : Texts, service : Texts, level : Texts,
      start : Times \cup {Nil}, end : Times \cup {Nil}, walks : BOOLEAN ]

-----------------------------------------------------------------------------
(* Pagination: parseOptionalPositiveInt and resolvePagination.             *)

pageOf(q)     == IF q.page = Nil THEN 1 ELSE q.page
pageSizeOf(q) == IF q.page_size = Nil THEN DefaultPageSize ELSE q.page_size

\* Two's complement of the width of int.
Wrap(n) == ((n + MaxInt + 1) % (2 * (MaxInt + 1))) - (MaxInt + 1)

\* Seeded fault: the first page is taken for the second.
offsetFromZero(q) == Wrap(pageOf(q) * pageSizeOf(q))

offsetOf(q) == Wrap((pageOf(q) - 1) * pageSizeOf(q))

\* Seeded fault: the offset is not checked for overflow.
invalidPaginationUnchecked(q) ==
    \/ pageOf(q) <= 0 \/ pageOf(q) > MaxInt
    \/ pageSizeOf(q) <= 0 \/ pageSizeOf(q) > MaxPageSize

\* A page that no int holds is refused by the handler, which parses it.
invalidPagination(q) ==
    \/ pageOf(q) <= 0 \/ pageOf(q) > MaxInt
    \/ pageSizeOf(q) <= 0 \/ pageSizeOf(q) > MaxPageSize
    \/ pageOf(q) - 1 > MaxInt \div pageSizeOf(q)

badRange(q) == q.start # Nil /\ q.end # Nil /\ q.start.instant > q.end.instant

\* A query string that does not parse, an unknown or repeated name, a time
\* that is none.
malformed(q) == q.form = "malformed"

refused(q) == malformed(q) \/ invalidPagination(q) \/ badRange(q)

\* List takes a negative offset for an error of its caller.
statusBeforeRead(q) ==
    IF refused(q) THEN 400 ELSE IF offsetOf(q) < 0 THEN 500 ELSE 0

-----------------------------------------------------------------------------
(* Filters.                                                                *)

\* Seeded fault: a level the platform does not know is looked up as written.
queryLevelAsWritten(text) == ToUpper(TrimSpace(text))

\* Blank is no filter, and a level the platform does not know is UNKNOWN.
normalizeQueryLevel(text) ==
    IF IsBlank(text) THEN Plain("") ELSE normalizeLevel(text)

\* ListLogs
listFilter(q) ==
    [ container |-> TrimSpace(q.container), service |-> TrimSpace(q.service),
      level |-> normalizeQueryLevel(q.level), start |-> q.start, end |-> q.end ]

\* Seeded fault: the statistics look a level up as it is written.
buildStatsFilterAsWritten(q) ==
    [ container |-> TrimSpace(q.container), service |-> TrimSpace(q.service),
      level |-> ToUpper(TrimSpace(q.level)), start |-> q.start, end |-> q.end ]

\* The statistics build their filter in code of their own.
buildStatsFilter(q) ==
    [ container |-> TrimSpace(q.container), service |-> TrimSpace(q.service),
      level |-> normalizeQueryLevel(q.level), start |-> q.start, end |-> q.end ]

Log(row) == Prepared[row.event].log

\* Moved to UTC, a time with a zone may have left the years 0000 to 9999, at
\* either end.
HasFourDigitYear(instant) == FirstInstant <= instant /\ instant <= LastInstant

\* SQLite compares the stored texts: one before the year 0000 begins with
\* "-0001-", and one after the year 9999 with "10000-", which sorts behind the
\* year 1000 and before 1001.
TextRank(instant) ==
    CASE instant < FirstInstant -> 0
      [] FirstInstant <= instant /\ instant < Instant1001 -> 1
      [] instant > LastInstant -> 2
      [] Instant1001 <= instant /\ instant <= LastInstant -> 3

Earlier(i, j) ==
    \/ TextRank(i) < TextRank(j)
    \/ TextRank(i) = TextRank(j) /\ i < j

\* applyLogFilter: what is empty does not restrict.
Selects(filter, row) ==
    LET log == Log(row)
    IN  /\ IsEmpty(filter.container) \/ log.container_name = filter.container
        /\ IsEmpty(filter.service)   \/ log.service = filter.service
        /\ IsEmpty(filter.level)     \/ log.level = filter.level
        /\ filter.start = Nil \/ ~Earlier(log.logged_at, filter.start.instant)
        /\ filter.end = Nil   \/ ~Earlier(filter.end.instant, log.logged_at)

Matching(q, table) == {row \in table : Selects(listFilter(q), row)}

-----------------------------------------------------------------------------
(* LogRepository.List: ORDER BY logged_at DESC, id DESC LIMIT and OFFSET.  *)

Before(a, b) ==
    \/ Earlier(Log(b).logged_at, Log(a).logged_at)
    \/ Log(a).logged_at = Log(b).logged_at /\ a.id > b.id

\* The place of a row in the order.
Position(row, found) == Cardinality({k \in found : Before(k, row)}) + 1

Ordered(q, table) ==
    LET found == Matching(q, table)
    IN  [i \in 1..Cardinality(found) |-> (CHOOSE row \in found : Position(row, found) = i).id]

Slice(ids, offset, limit) ==
    SubSeq(ids, offset + 1, IF Len(ids) < offset + limit THEN Len(ids) ELSE offset + limit)

=============================================================================

--------------------------- MODULE EventVerifier ---------------------------
(***************************************************************************)
(* test/e2e/verify_events.go: the client of the public API that decides an *)
(* acceptance step.  It walks the pages of a time window while the pipeline*)
(* still stores events, keeps the events whose source_event_id has the     *)
(* prefix of the run, and compares their number with what was generated;   *)
(* it walks again, once a second, until the number is reached or the time  *)
(* is up.                                                                  *)
(*                                                                         *)
(* The window's rows are the table.  A page is answered from one state of  *)
(* it, as LogQueryProofs shows of the list.                                *)
(***************************************************************************)
EXTENDS Integers, FiniteSets

CONSTANTS
    Events,       \* what may be stored
    LoggedAt,     \* [Events -> the time the list is ordered by]
    Name,         \* [Events -> source_event_id]
    Prefixed,     \* the events whose name has cfg.Prefix
    Stream,       \* [Events -> source]
    Sound,        \* the events that have the metadata and the level of their source
    Wanted,       \* [source -> ExpectedStdout, ExpectedStderr or ExpectedFile]
    Expected,     \* cfg.Expected
    PageSize,
    MaxPages,     \* the walk is given up after them
    MaxUnanswered \* bound: queries without a usable answer

Sources == {"stdout", "stderr", "file"}

ASSUME EventsAssumption ==
    /\ Prefixed \subseteq Events /\ Sound \subseteq Events
    /\ LoggedAt \in [Events -> Nat]
    /\ \A e \in Sound : Stream[e] \in Sources
\* parseConfig.
ASSUME CountsAssumption ==
    /\ Wanted \in [Sources -> Nat]
    /\ Expected = Wanted["stdout"] + Wanted["stderr"] + Wanted["file"]
ASSUME SizesAssumption ==
    /\ PageSize \in Nat \ {0} /\ MaxPages \in Nat \ {0}
    /\ Expected \in Nat \ {0} /\ MaxUnanswered \in Nat

VARIABLES
    coming,       \* the events the pipeline has still to store
    table,        \* the rows of the window
    stage,        \* "fetch", "verify", "sleep", "passed" or "failed"
    why,          \* what failed: "time" or "events"
    page,
    total,        \* expectedTotal, -1 before the first page
    items,        \* the rows of the pages read
    late,         \* time.Now().After(deadline)
    unanswered

walk == <<page, total, items>>
verifierVars == <<coming, table, stage, why, walk, late, unanswered>>

VerifierInit ==
    /\ coming \in SUBSET Events /\ table = {}
    /\ stage = "fetch" /\ why = "none"
    /\ page = 1 /\ total = -1 /\ items = {}
    /\ late = FALSE /\ unanswered = 0

-----------------------------------------------------------------------------
(* The rows and the list.                                                  *)

Row == [id : Nat \ {0}, event : Events]

Before(a, b) ==
    \/ LoggedAt[a.event] > LoggedAt[b.event]
    \/ LoggedAt[a.event] = LoggedAt[b.event] /\ a.id > b.id

Rank(row, rows) == Cardinality({k \in rows : Before(k, row)})

\* The answer to a page: LIMIT and OFFSET of the ordered rows.
PageOf(rows, n) == {r \in rows : Rank(r, rows) \in (n - 1) * PageSize .. n * PageSize - 1}

\* An event is stored once.
Store(e) ==
    /\ e \in coming
    /\ coming' = coming \ {e}
    /\ table' = table \cup {[id |-> Cardinality(table) + 1, event |-> e]}
    /\ UNCHANGED <<stage, why, walk, late, unanswered>>

Deadline ==
    /\ ~late /\ late' = TRUE
    /\ UNCHANGED <<coming, table, stage, why, walk, unanswered>>

-----------------------------------------------------------------------------
(* fetchWindow.                                                            *)

\* waitForEvents after an error or an incomplete window.
RetryUntilLate ==
    /\ stage' = IF late THEN "failed" ELSE "sleep"
    /\ why' = IF late THEN "time" ELSE why
    /\ UNCHANGED <<coming, table, walk, late>>

\* No answer, another status than 200 or a body that is no page.
GetFails ==
    /\ stage = "fetch" /\ unanswered < MaxUnanswered
    /\ unanswered' = unanswered + 1
    /\ RetryUntilLate

Rows == PageOf(table, page)

TotalChanged == total # -1 /\ Cardinality(table) # total

\* seenIDs and verifyOrder: within a page the list itself gives the order.
OutOfOrder ==
    \E r \in Rows, i \in items : r.id = i.id \/ ~Before(i, r)

LastPage(t) == Cardinality(Rows) < PageSize \/ page * PageSize >= t

\* A page with others after it.
GetPage ==
    /\ stage = "fetch" /\ ~TotalChanged /\ ~OutOfOrder
    /\ ~LastPage(Cardinality(table)) /\ page < MaxPages
    /\ total' = Cardinality(table)
    /\ items' = items \cup Rows
    /\ page' = page + 1
    /\ UNCHANGED <<coming, table, stage, why, late, unanswered>>

\* The last page: as many records as total says.
GetLastPage ==
    /\ stage = "fetch" /\ ~TotalChanged /\ ~OutOfOrder
    /\ LastPage(Cardinality(table))
    /\ Cardinality(items \cup Rows) = Cardinality(table)
    /\ total' = Cardinality(table)
    /\ items' = items \cup Rows
    /\ stage' = "verify"
    /\ UNCHANGED <<coming, table, why, page, late, unanswered>>

\* Any other answer ends the walk with an error.
GetRefused ==
    /\ stage = "fetch"
    /\ \/ TotalChanged \/ OutOfOrder
       \/ LastPage(Cardinality(table)) /\ Cardinality(items \cup Rows) # Cardinality(table)
       \/ ~LastPage(Cardinality(table)) /\ page = MaxPages
    /\ RetryUntilLate
    /\ UNCHANGED unanswered

-----------------------------------------------------------------------------
(* verifyItems, of the rows with the prefix.                               *)

Ours(rows) == {r \in rows : r.event \in Prefixed}
Names(rows) == {Name[r.event] : r \in rows}
OfSource(rows, s) == {r \in rows : Stream[r.event] = s}

\* An error ends the program at once.
Wrong(rows) ==
    \/ Cardinality(rows) > Expected
    \/ \E r \in rows : r.event \notin Sound
    \/ /\ Cardinality(rows) = Expected
       /\ \/ Cardinality(Names(rows)) # Expected
          \/ \E s \in Sources : Cardinality(OfSource(rows, s)) # Wanted[s]

\* Seeded fault: the counts per source are compared before all are there.
VerifyWrongEarly ==
    /\ stage = "verify"
    /\ \/ Wrong(Ours(items))
       \/ \E s \in Sources : Cardinality(OfSource(Ours(items), s)) # Wanted[s]
    /\ stage' = "failed" /\ why' = "events"
    /\ UNCHANGED <<coming, table, walk, late, unanswered>>

VerifyWrong ==
    /\ stage = "verify" /\ Wrong(Ours(items))
    /\ stage' = "failed" /\ why' = "events"
    /\ UNCHANGED <<coming, table, walk, late, unanswered>>

VerifyIncomplete ==
    /\ stage = "verify" /\ ~Wrong(Ours(items)) /\ Cardinality(Ours(items)) < Expected
    /\ RetryUntilLate
    /\ UNCHANGED unanswered

\* Seeded fault: the counts per source are not compared.
VerifyTotalOnly ==
    /\ stage = "verify" /\ Cardinality(Ours(items)) = Expected
    /\ stage' = "passed"
    /\ UNCHANGED <<coming, table, why, walk, late, unanswered>>

VerifyPasses ==
    /\ stage = "verify" /\ ~Wrong(Ours(items)) /\ Cardinality(Ours(items)) = Expected
    /\ stage' = "passed"
    /\ UNCHANGED <<coming, table, why, walk, late, unanswered>>

\* Seeded fault: the next walk goes on with the total of the one before.
WalkAgainKeepingTotal ==
    /\ stage = "sleep" /\ stage' = "fetch"
    /\ page' = 1 /\ items' = {} /\ UNCHANGED total
    /\ UNCHANGED <<coming, table, why, late, unanswered>>

WalkAgain ==
    /\ stage = "sleep" /\ stage' = "fetch"
    /\ page' = 1 /\ total' = -1 /\ items' = {}
    /\ UNCHANGED <<coming, table, why, late, unanswered>>

-----------------------------------------------------------------------------
Verifier ==
    \/ GetPage \/ GetLastPage \/ GetRefused
    \/ VerifyWrong \/ VerifyIncomplete \/ VerifyPasses
    \/ WalkAgain

VerifierNext ==
    \/ \E e \in Events : Store(e)
    \/ Deadline
    \/ GetFails
    \/ Verifier

VerifierSpec == VerifierInit /\ [][VerifierNext]_verifierVars

\* The verifier runs and the pipeline delivers.
VerifierLiveSpec ==
    VerifierSpec /\ WF_verifierVars(Verifier) /\ WF_verifierVars(\E e \in Events : Store(e))

-----------------------------------------------------------------------------
Ended == stage \in {"passed", "failed"}

\* The rows of the table when it had n.
Snapshot(n) == {r \in table : r.id <= n}

\* Type correctness: rows are numbered from 1 in the order they came.
VerifierTypeOK ==
    /\ coming \subseteq Events
    /\ table \subseteq Row /\ IsFiniteSet(table)
    /\ {r.id : r \in table} = 1..Cardinality(table)
    /\ \A r, k \in table : r.id = k.id => r = k
    /\ stage \in {"fetch", "verify", "sleep", "passed", "failed"}
    /\ why \in {"none", "time", "events"}
    /\ page \in 1..MaxPages /\ total \in -1..Cardinality(table) /\ items \subseteq table
    /\ late \in BOOLEAN /\ unanswered \in 0..MaxUnanswered

\* The pages a walk puts together, while rows come in between, are the pages
\* of one state of the window: what is verified is the window as it was.
ItemsAreOneSnapshot ==
    /\ stage = "fetch" /\ total # -1 =>
         items = {r \in Snapshot(total) : Rank(r, Snapshot(total)) < (page - 1) * PageSize}
    /\ stage \in {"verify", "passed"} => items = Snapshot(total)

\* A step that passed is right: at one moment exactly the expected events
\* with the prefix were stored, each under its own name, whole, and as many
\* of each source as were generated.
PassIsTrue ==
    stage = "passed" =>
        \E n \in 0..Cardinality(table) :
            LET rows == Ours(Snapshot(n)) IN
            /\ Cardinality(rows) = Expected /\ Cardinality(Names(rows)) = Expected
            /\ \A r \in rows : r.event \in Sound
            /\ \A s \in Sources : Cardinality(OfSource(rows, s)) = Wanted[s]

\* A step that failed on its events is right, and waiting would not have
\* helped: whatever is stored later, the rows with the prefix are too many,
\* or one is unsound or has another's name, or a source has too many.
FailureIsReal ==
    (stage = "failed" /\ why = "events") =>
        LET rows == Ours(table) IN
        \/ Cardinality(rows) > Expected
        \/ \E r \in rows : r.event \notin Sound
        \/ \E r, k \in rows : r # k /\ Name[r.event] = Name[k.event]
        \/ \E s \in Sources : Cardinality(OfSource(rows, s)) > Wanted[s]

\* The events with the prefix that are or will be stored are those expected.
AllRight ==
    LET ours == (coming \cup {r.event : r \in table}) \cap Prefixed IN
    /\ Cardinality(ours) = Expected /\ ours \subseteq Sound
    /\ \A e, f \in ours : e # f => Name[e] # Name[f]
    /\ \A s \in Sources : Cardinality({e \in ours : Stream[e] = s}) = Wanted[s]

\* When the pipeline delivers what was generated and the time is not up
\* before, the verifier passes; in any case it ends after its time.
VerifierDecides ==
    /\ (AllRight /\ []~late) => <>(stage = "passed")
    /\ <>late => <>Ended

=============================================================================

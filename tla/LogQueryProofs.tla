--------------------------- MODULE LogQueryProofs ---------------------------
(***************************************************************************)
(* What the list query guarantees for any number of readers, any requests  *)
(* and events, and ints of any width.  The argument: a read that has begun *)
(* holds the connection, so the table cannot change between its count and  *)
(* its page; and the positions resolvePagination lets through are the ones *)
(* an int holds, so the page is read where it was asked for.               *)
(*                                                                         *)
(* A walk misses nothing because a row of its first count is either shown  *)
(* already or still ahead: new rows push it towards later pages only, and  *)
(* the next page starts where the last one ended.  The same push is what   *)
(* repeats rows: those already shown that lie ahead again are at most the  *)
(* matching rows that came in since the walk began.                        *)
(***************************************************************************)
EXTENDS LogQuery, FoldLemmas, FiniteSetTheorems, TLAPS

-----------------------------------------------------------------------------
(* The inductive invariant.                                                *)

\* What a reader may have asked for: a page after its first may be any.
Asked == [ form : {"query", "malformed"}, page : Int \cup {Nil}, page_size : OptionalInt,
           container : Texts, service : Texts, level : Texts,
           start : Times \cup {Nil}, end : Times \cup {Nil}, walks : BOOLEAN ]

Functions ==
    /\ query \in [Readers -> Asked \cup {Nil}]
    /\ total = [r \in Readers |-> total[r]]
    /\ page = [r \in Readers |-> page[r]]

\* Only a request whose parameters are in order gets to the table.
ReadsAreInOrder ==
    \A r \in Readers :
        /\ pc[r] # "idle" => query[r] \in Asked
        /\ pc[r] \in {"begin", "count", "find"} \/ Answered(r) => ~refused(query[r])

\* The count still holds when the page is read.
CountStands ==
    \A r \in Readers : pc[r] = "find" =>
        total[r] = Cardinality(Matching(query[r], rows)) /\ total[r] # 0

IInv ==
    /\ TypeOK
    /\ IsFiniteSet(rows)
    /\ Functions
    /\ ReadsAreInOrder
    /\ CountStands
    /\ NoInternalError

-----------------------------------------------------------------------------
(* Positions.                                                              *)

LEMMA WrapIsIdentity ==
    ASSUME NEW n \in 0..MaxInt
    PROVE  Wrap(n) = n
<1>1. MaxInt \in Nat
  BY PageSizesAssumption
<1>2. (n + MaxInt + 1) % (2 * (MaxInt + 1)) = n + MaxInt + 1
  <2>1. n + MaxInt + 1 \in 0..(2 * (MaxInt + 1) - 1)
    BY <1>1
  <2> DEFINE k == n + MaxInt + 1
             w == 2 * (MaxInt + 1)
  <2>2. k \in Nat /\ w \in Nat /\ k < w
    BY <1>1, <2>1
  <2> HIDE DEF k, w
  <2>3. k % w = k
    BY <2>2
  <2> QED BY <2>3 DEF k, w
<1> QED BY <1>1, <1>2 DEF Wrap

(* The check on the page number is exact: what it lets through does not    *)
(* overflow, whatever the width of int (query_service.go, resolvePagination).*)
LEMMA OffsetIsExact ==
    ASSUME NEW q \in Asked, ~refused(q)
    PROVE  /\ offsetOf(q) = (pageOf(q) - 1) * pageSizeOf(q)
           /\ offsetOf(q) \in 0..MaxInt
<1>1. /\ MaxInt \in Nat
      /\ pageOf(q) - 1 \in Nat /\ pageSizeOf(q) \in Nat /\ pageSizeOf(q) > 0
      /\ pageOf(q) - 1 <= MaxInt \div pageSizeOf(q)
  BY PageSizesAssumption DEF refused, invalidPagination, pageOf, pageSizeOf, Asked, OptionalInt
<1>2. (pageOf(q) - 1) * pageSizeOf(q) \in 0..MaxInt
  BY <1>1, ProductBound
<1> QED BY <1>2, WrapIsIdentity DEF offsetOf

LEMMA EarlyStatus ==
    ASSUME NEW q \in Asked
    PROVE  /\ statusBeforeRead(q) \in {0, 400}
           /\ statusBeforeRead(q) = 0 => ~refused(q)
BY OffsetIsExact, PageSizesAssumption DEF statusBeforeRead

LEMMA QueriesAreAsked == Queries \subseteq Asked
<1>1. OptionalInt \subseteq Int \cup {Nil}
  BY PageSizesAssumption DEF OptionalInt
<1> QED BY <1>1, QueriesAssumption DEF Requests, Asked

-----------------------------------------------------------------------------
(* The table.                                                              *)

LEMMA InitialRowsCounted ==
    /\ IsFiniteSet(InitialRows)
    /\ \A row \in InitialRows : row.event \in Events /\ row.id \in 1..Cardinality(InitialRows)
<1> DEFINE S == 1..Len(InitialEvents)
           f == [i \in S |-> [id |-> i, event |-> InitialEvents[i]]]
<1>1. /\ Len(InitialEvents) \in Nat /\ DOMAIN InitialEvents = S
      /\ \A i \in S : InitialEvents[i] \in Events
  BY InitialEventsAssumption
<1>2. IsFiniteSet(S) /\ Cardinality(S) = Len(InitialEvents)
  BY <1>1, FS_Interval
<1>3. f \in Bijection(S, InitialRows)
  <2>1. f \in [S -> InitialRows]
    BY <1>1 DEF InitialRows
  <2>2. \A i, j \in S : f[i] = f[j] => i = j
    OBVIOUS
  <2>3. \A row \in InitialRows : \E i \in S : f[i] = row
    BY <1>1 DEF InitialRows
  <2> QED BY <2>1, <2>2, <2>3 DEF Bijection, Injection, Surjection, IsInjective
<1>4. ExistsBijection(S, InitialRows)
  BY <1>3 DEF ExistsBijection
<1>5. IsFiniteSet(InitialRows) /\ Cardinality(InitialRows) = Len(InitialEvents)
  BY <1>2, <1>4, FS_Bijection
<1>6. \A row \in InitialRows : row.event \in Events /\ row.id \in S
  <2> TAKE row \in InitialRows
  <2>1. PICK i \in S : row = [id |-> i, event |-> InitialEvents[i]]
    BY <1>1 DEF InitialRows
  <2> QED BY <1>1, <2>1
<1> HIDE DEF f
<1> QED BY <1>5, <1>6

LEMMA Ingested ==
    ASSUME TypeOK, IsFiniteSet(rows), NEW e \in Events
    PROVE  LET more == rows \cup {RowFor(e, rows)}
           IN  /\ IsFiniteSet(more)
               /\ \A row \in more : row.event \in Events /\ row.id \in 1..Cardinality(more)
<1> DEFINE more == rows \cup {RowFor(e, rows)}
<1>1. Cardinality(rows) \in Nat
  BY FS_CardinalityType
<1>2. RowFor(e, rows) \notin rows
  BY <1>1 DEF TypeOK, RowFor
<1>3. IsFiniteSet(more) /\ Cardinality(more) = Cardinality(rows) + 1
  BY <1>2, FS_AddElement
<1>4. \A row \in more : row.event \in Events /\ row.id \in 1..(Cardinality(rows) + 1)
  BY <1>1 DEF TypeOK, RowFor
<1> QED BY <1>3, <1>4

-----------------------------------------------------------------------------
(* The invariant holds and is kept.                                        *)

LEMMA InitInv == Init => IInv
<1> SUFFICES ASSUME Init PROVE IInv
  OBVIOUS
<1>1. TypeOK
  BY InitialRowsCounted, MaxFaultsAssumption DEF Init, TypeOK
<1>2. IsFiniteSet(rows)
  BY InitialRowsCounted DEF Init
<1>3. Functions
  BY DEF Init, Functions
<1>4. ReadsAreInOrder /\ CountStands /\ NoInternalError
  BY DEF Init, ReadsAreInOrder, CountStands, NoInternalError, Answered
<1> QED BY <1>1, <1>2, <1>3, <1>4 DEF IInv

LEMMA StepInv == IInv /\ [Next]_vars => IInv'
<1> SUFFICES ASSUME IInv, [Next]_vars PROVE IInv'
  OBVIOUS
<1> USE DEF IInv
<1>1. CASE Ingest
  <2>1. PICK e \in Events : rows' = rows \cup {RowFor(e, rows)}
    BY <1>1 DEF Ingest
  <2>2. UNCHANGED <<conn, pc, query, status, total, page, walk, faults>> /\ conn = Nobody
    BY <1>1 DEF Ingest
  <2>3. TypeOK' /\ IsFiniteSet(rows)'
    BY <2>1, <2>2, Ingested DEF TypeOK
  <2>4. CountStands'
    BY <2>2, NobodyAssumption DEF CountStands, TypeOK
  <2>5. Functions' /\ ReadsAreInOrder' /\ NoInternalError'
    BY <2>2 DEF Functions, ReadsAreInOrder, NoInternalError, Answered
  <2> QED BY <2>3, <2>4, <2>5
<1>2. ASSUME NEW r \in Readers, Request(r) PROVE IInv'
  <2>1. PICK q \in Asked : query' = [query EXCEPT ![r] = q]
    BY <1>2, QueriesAreAsked DEF Request
  <2>2. /\ pc' = [pc EXCEPT ![r] = "resolve"]
        /\ UNCHANGED <<rows, conn, status, total, page, faults>>
    BY <1>2 DEF Request, Goto
  <2> QED BY <2>1, <2>2 DEF TypeOK, Functions, ReadsAreInOrder, CountStands, NoInternalError, Answered
<1>3. ASSUME NEW r \in Readers, Resolve(r) PROVE IInv'
  <2>1. /\ pc[r] = "resolve" /\ query[r] \in Asked
        /\ UNCHANGED <<rows, conn, query, total, page, faults>>
    BY <1>3 DEF Resolve, ReadsAreInOrder
  <2>2. CASE statusBeforeRead(query[r]) = 0
    <3>1. pc' = [pc EXCEPT ![r] = "begin"] /\ status' = status /\ ~refused(query[r])
      BY <1>3, <2>1, <2>2, EarlyStatus DEF Resolve, Goto
    <3> QED BY <2>1, <3>1 DEF TypeOK, Functions, ReadsAreInOrder, CountStands, NoInternalError, Answered
  <2>3. CASE statusBeforeRead(query[r]) # 0
    <3>1. pc' = [pc EXCEPT ![r] = "answered"] /\ status' = [status EXCEPT ![r] = 400]
      BY <1>3, <2>1, <2>3, EarlyStatus DEF Resolve, Goto
    <3> QED BY <2>1, <3>1 DEF TypeOK, Functions, ReadsAreInOrder, CountStands, NoInternalError, Answered
  <2> QED BY <2>2, <2>3
<1>4. ASSUME NEW r \in Readers, Begin(r) PROVE IInv'
  <2>1. /\ pc[r] = "begin" /\ conn = Nobody /\ conn' = r /\ pc' = [pc EXCEPT ![r] = "count"]
        /\ UNCHANGED <<rows, query, status, total, page, faults>>
    BY <1>4 DEF Begin, Goto
  <2> QED BY <2>1, NobodyAssumption
          DEF TypeOK, Functions, ReadsAreInOrder, CountStands, NoInternalError, Answered
<1>5. ASSUME NEW r \in Readers, Count(r) PROVE IInv'
  <2> DEFINE n == Cardinality(Matching(query[r], rows))
  <2>1. /\ pc[r] = "count" /\ conn = r /\ total' = [total EXCEPT ![r] = n]
        /\ UNCHANGED <<rows, query, faults>>
    BY <1>5 DEF Count, TypeOK
  <2>2. CASE n = 0
    <3>1. /\ pc' = [pc EXCEPT ![r] = "answered"] /\ status' = [status EXCEPT ![r] = 200]
          /\ page' = [page EXCEPT ![r] = << >>] /\ conn' = Nobody
      BY <1>5, <2>2 DEF Count, Answer, Goto
    <3> HIDE DEF n
    <3>2. TypeOK' /\ CountStands' /\ NoInternalError'
      BY <2>1, <3>1, NobodyAssumption DEF TypeOK, CountStands, NoInternalError
    <3>3. Functions'
      BY <2>1, <3>1 DEF Functions
    <3>4. ReadsAreInOrder'
      BY <2>1, <3>1 DEF TypeOK, ReadsAreInOrder, Answered
    <3> QED BY <2>1, <3>2, <3>3, <3>4
  <2>3. CASE n # 0
    <3>1. pc' = [pc EXCEPT ![r] = "find"] /\ UNCHANGED <<conn, page, status>>
      BY <1>5, <2>3 DEF Count, Goto
    <3>2. total'[r] = Cardinality(Matching(query[r], rows)) /\ total'[r] # 0
      BY <2>1, <2>3 DEF Functions
    <3> HIDE DEF n
    <3>3. TypeOK' /\ Functions' /\ ReadsAreInOrder' /\ NoInternalError'
      BY <2>1, <3>1 DEF TypeOK, Functions, ReadsAreInOrder, NoInternalError, Answered
    <3>4. CountStands'
      BY <2>1, <3>1, <3>2 DEF TypeOK, CountStands
    <3> QED BY <2>1, <3>3, <3>4
  <2> QED BY <2>2, <2>3
<1>6. ASSUME NEW r \in Readers, Find(r) PROVE IInv'
  <2>1. PICK ids : page' = [page EXCEPT ![r] = ids]
    BY <1>6 DEF Find, FindAndRelease, Answer
  <2>2. /\ pc[r] = "find" /\ conn = r /\ conn' = Nobody
        /\ pc' = [pc EXCEPT ![r] = "answered"] /\ status' = [status EXCEPT ![r] = 200]
        /\ UNCHANGED <<rows, query, total, faults>>
    BY <1>6 DEF Find, FindAndRelease, Answer, Goto, TypeOK
  <2>3. TypeOK' /\ CountStands' /\ NoInternalError'
    BY <2>2, NobodyAssumption DEF TypeOK, CountStands, NoInternalError
  <2>4. Functions'
    BY <2>1, <2>2 DEF Functions
  <2>5. ReadsAreInOrder'
    BY <2>2 DEF TypeOK, ReadsAreInOrder, Answered
  <2> QED BY <2>2, <2>3, <2>4, <2>5
<1>7. ASSUME NEW r \in Readers, ReadFails(r) PROVE IInv'
  <2>1. PICK s \in {500, 503} : status' = [status EXCEPT ![r] = s]
    BY <1>7 DEF ReadFails
  <2>2. /\ pc[r] \in {"begin", "count", "find"} /\ pc' = [pc EXCEPT ![r] = "answered"]
        /\ conn' = IF conn = r THEN Nobody ELSE conn
        /\ faults < MaxFaults /\ faults' = faults + 1
        /\ UNCHANGED <<rows, query, total, page>>
    BY <1>7 DEF ReadFails, Goto
  <2>3. TypeOK' /\ NoInternalError'
    BY <2>1, <2>2, MaxFaultsAssumption DEF TypeOK, NoInternalError
  <2> QED BY <2>1, <2>2, <2>3 DEF TypeOK, Functions, ReadsAreInOrder, CountStands, Answered
<1>8. ASSUME NEW r \in Readers, NextPage(r) PROVE IInv'
  <2>1. query[r] \in Asked /\ pageOf(query[r]) \in Int
    BY <1>8, PageSizesAssumption
       DEF NextPage, ReadsAreInOrder, pageOf, Asked
  <2>2. PICK q \in Asked : query' = [query EXCEPT ![r] = q]
    <3>1. query' = [query EXCEPT ![r] = [query[r] EXCEPT !.page = pageOf(query[r]) + 1]]
      BY <1>8 DEF NextPage
    <3>2. [query[r] EXCEPT !.page = pageOf(query[r]) + 1] \in Asked
      BY <2>1 DEF Asked
    <3> QED BY <3>1, <3>2
  <2>3. /\ pc' = [pc EXCEPT ![r] = "resolve"]
        /\ UNCHANGED <<rows, conn, status, total, page, faults>>
    BY <1>8 DEF NextPage, Goto
  <2> QED BY <2>2, <2>3 DEF TypeOK, Functions, ReadsAreInOrder, CountStands, NoInternalError, Answered
<1>9. CASE UNCHANGED vars
  BY <1>9 DEF vars, TypeOK, Functions, ReadsAreInOrder, CountStands, NoInternalError, Answered
<1> QED BY <1>1, <1>2, <1>3, <1>4, <1>5, <1>6, <1>7, <1>8, <1>9 DEF Next, Read

\* The invariant holds throughout (List from the parameters to the page).
LEMMA Invariance == Spec => []IInv
BY InitInv, StepInv, PTL DEF Spec

(* The read transactions take turns on the one connection (sqlite.go).     *)
THEOREM TypeCorrect == Spec => []TypeOK
<1>1. IInv => TypeOK
  BY DEF IInv
<1> QED BY <1>1, Invariance, PTL

(* Whatever page a client asks for, the service never hands the repository *)
(* a position it takes for an internal error (query_service.go, List).     *)
THEOREM PagesAreAccepted == Spec => []NoInternalError
<1>1. IInv => NoInternalError
  BY DEF IInv
<1> QED BY <1>1, Invariance, PTL

-----------------------------------------------------------------------------
(* The refinement.                                                         *)

\* A step that concerns one reader changes that reader's answer alone.
LEMMA OneAnswer ==
    ASSUME NEW r \in Readers,
           \A s \in Readers \ {r} : /\ pc'[s] = pc[s] /\ status'[s] = status[s]
                                    /\ total'[s] = total[s] /\ page'[s] = page[s]
    PROVE  answers' = [answers EXCEPT ![r] = AnswerTo(r)']
<1>1. \A s \in Readers \ {r} : AnswerTo(s)' = AnswerTo(s)
  <2> TAKE s \in Readers \ {r}
  <2>1. pc'[s] = pc[s] /\ status'[s] = status[s] /\ total'[s] = total[s] /\ page'[s] = page[s]
    OBVIOUS
  <2>2. Answered(s)' <=> Answered(s)
    BY <2>1 DEF Answered
  <2> QED BY <2>1, <2>2 DEF AnswerTo, Answered
<1>2. \A s \in Readers : answers'[s] = [answers EXCEPT ![r] = AnswerTo(r)'][s]
  BY <1>1 DEF answers
<1> QED BY <1>2 DEF answers

LEMMA InitRefines == Init => Snapshots!Init
<1> SUFFICES ASSUME Init PROVE Snapshots!Init
  OBVIOUS
<1>1. \A r \in Readers : AnswerTo(r) = [is |-> "idle"]
  BY DEF Init, AnswerTo
<1> QED BY <1>1 DEF Snapshots!Init, answers, Init

LEMMA StepRefines == IInv /\ [Next]_vars => [Snapshots!Next]_(Snapshots!vars)
<1> SUFFICES ASSUME IInv, [Next]_vars PROVE [Snapshots!Next]_(Snapshots!vars)
  OBVIOUS
<1> USE DEF IInv
<1>1. CASE Ingest
  <2>1. rows \subseteq rows' /\ UNCHANGED <<pc, query, status, total, page>>
    BY <1>1 DEF Ingest
  <2>2. answers' = answers
    BY <2>1 DEF answers, AnswerTo
  <2> QED BY <2>1, <2>2 DEF Snapshots!Next, Snapshots!Grow
<1>2. ASSUME NEW r \in Readers, Request(r) PROVE Snapshots!Ask(r)
  <2>1. PICK q : query' = [query EXCEPT ![r] = q]
    BY <1>2 DEF Request
  <2>2. pc[r] = "idle" /\ pc' = [pc EXCEPT ![r] = "resolve"] /\ UNCHANGED <<rows, status, total, page>>
    BY <1>2 DEF Request, Goto
  <2>3. AnswerTo(r) = [is |-> "idle"] /\ AnswerTo(r)' = [is |-> "waiting"]
    BY <2>2 DEF AnswerTo, TypeOK
  <2>4. answers' = [answers EXCEPT ![r] = AnswerTo(r)']
    BY <2>2, OneAnswer DEF TypeOK
  <2>5. query' = [query EXCEPT ![r] = query'[r]]
    BY <2>1 DEF Functions
  <2> QED BY <2>2, <2>3, <2>4, <2>5 DEF Snapshots!Ask, answers
<1>3. ASSUME NEW r \in Readers, Resolve(r) PROVE [Snapshots!Next]_(Snapshots!vars)
  <2>1. pc[r] = "resolve" /\ query[r] \in Asked /\ UNCHANGED <<rows, query, total, page>>
    BY <1>3 DEF Resolve, ReadsAreInOrder
  <2>2. CASE statusBeforeRead(query[r]) = 0
    <3>1. pc' = [pc EXCEPT ![r] = "begin"] /\ status' = status
      BY <1>3, <2>2 DEF Resolve, Goto
    <3>2. AnswerTo(r)' = AnswerTo(r)
      BY <2>1, <3>1 DEF AnswerTo, TypeOK
    <3>3. answers' = [answers EXCEPT ![r] = AnswerTo(r)']
      BY <2>1, <3>1, OneAnswer DEF TypeOK
    <3>4. answers' = answers
      BY <3>2, <3>3 DEF answers
    <3> QED BY <2>1, <3>4 DEF Snapshots!vars
  <2>3. CASE statusBeforeRead(query[r]) # 0
    <3>1. pc' = [pc EXCEPT ![r] = "answered"] /\ status' = [status EXCEPT ![r] = 400]
      BY <1>3, <2>1, <2>3, EarlyStatus DEF Resolve, Goto
    <3>2. AnswerTo(r) = [is |-> "waiting"] /\ AnswerTo(r)' = [is |-> "none"]
      BY <2>1, <3>1 DEF AnswerTo, TypeOK
    <3>3. answers' = [answers EXCEPT ![r] = AnswerTo(r)']
      BY <2>1, <3>1, OneAnswer DEF TypeOK
    <3>4. Snapshots!Refuse(r)
      BY <2>1, <3>2, <3>3 DEF Snapshots!Refuse, answers
    <3> QED BY <3>4 DEF Snapshots!Next
  <2> QED BY <2>2, <2>3
<1>4. ASSUME NEW r \in Readers, Begin(r) PROVE UNCHANGED Snapshots!vars
  <2>1. pc[r] = "begin" /\ pc' = [pc EXCEPT ![r] = "count"] /\ UNCHANGED <<rows, query, status, total, page>>
    BY <1>4 DEF Begin, Goto
  <2>2. AnswerTo(r)' = AnswerTo(r)
    BY <2>1 DEF AnswerTo, TypeOK
  <2>3. answers' = [answers EXCEPT ![r] = AnswerTo(r)']
    BY <2>1, OneAnswer DEF TypeOK
  <2>4. answers' = answers
    BY <2>2, <2>3 DEF answers
  <2> QED BY <2>1, <2>4 DEF Snapshots!vars
<1>5. ASSUME NEW r \in Readers, Count(r) PROVE [Snapshots!Next]_(Snapshots!vars)
  <2> DEFINE n == Cardinality(Matching(query[r], rows))
  <2>1. /\ pc[r] = "count" /\ ~refused(query[r]) /\ total' = [total EXCEPT ![r] = n]
        /\ UNCHANGED <<rows, query>>
    BY <1>5 DEF Count, ReadsAreInOrder
  <2>2. CASE n = 0
    <3>1. /\ pc' = [pc EXCEPT ![r] = "answered"] /\ status' = [status EXCEPT ![r] = 200]
          /\ page' = [page EXCEPT ![r] = << >>]
      BY <1>5, <2>2 DEF Count, Answer, Goto
    <3>2. AnswerTo(r) = [is |-> "waiting"]
      BY <2>1 DEF AnswerTo
    <3>3. /\ pc'[r] = "answered" /\ status'[r] = 200 /\ page'[r] = << >> /\ total'[r] = n
      BY <2>1, <3>1 DEF TypeOK, Functions
    <3>4. AnswerTo(r)' = [is |-> "page", total |-> n, page |-> << >>]
      BY <3>3 DEF AnswerTo
    <3>5. ListAnswer(query[r], rows) = [is |-> "page", total |-> n, page |-> << >>]
      BY <2>1, <2>2 DEF ListAnswer, PageOf
    <3>6. answers' = [answers EXCEPT ![r] = AnswerTo(r)']
      BY <2>1, <3>1, OneAnswer DEF TypeOK, Functions
    <3>7. Snapshots!Reply(r)
      BY <2>1, <3>2, <3>4, <3>5, <3>6 DEF Snapshots!Reply, answers
    <3> QED BY <3>7 DEF Snapshots!Next
  <2>3. CASE n # 0
    <3>1. pc' = [pc EXCEPT ![r] = "find"] /\ UNCHANGED <<page, status>>
      BY <1>5, <2>3 DEF Count, Goto
    <3>2. AnswerTo(r)' = AnswerTo(r)
      BY <2>1, <3>1 DEF AnswerTo, TypeOK
    <3>3. answers' = [answers EXCEPT ![r] = AnswerTo(r)']
      BY <2>1, <3>1, OneAnswer DEF TypeOK, Functions
    <3>4. answers' = answers
      BY <3>2, <3>3 DEF answers
    <3> QED BY <2>1, <3>4 DEF Snapshots!vars
  <2> QED BY <2>2, <2>3
<1>6. ASSUME NEW r \in Readers, Find(r) PROVE Snapshots!Reply(r)
  <2> DEFINE n   == Cardinality(Matching(query[r], rows))
             ids == Slice(Ordered(query[r], rows), offsetOf(query[r]), pageSizeOf(query[r]))
  <2>1. /\ pc[r] = "find" /\ query[r] \in Asked /\ ~refused(query[r])
        /\ total[r] = n /\ n # 0
        /\ pc' = [pc EXCEPT ![r] = "answered"] /\ status' = [status EXCEPT ![r] = 200]
        /\ page' = [page EXCEPT ![r] = ids] /\ UNCHANGED <<rows, query, total>>
    BY <1>6 DEF Find, FindAndRelease, Answer, Goto, ReadsAreInOrder, CountStands
  <2>2. offsetOf(query[r]) = (pageOf(query[r]) - 1) * pageSizeOf(query[r])
    BY <2>1, OffsetIsExact
  <2>3. ListAnswer(query[r], rows) = [is |-> "page", total |-> n, page |-> ids]
    BY <2>1, <2>2 DEF ListAnswer, PageOf
  <2>4. pc'[r] = "answered" /\ status'[r] = 200 /\ page'[r] = ids /\ total'[r] = n
    BY <2>1 DEF TypeOK, Functions
  <2> HIDE DEF n, ids
  <2>5. AnswerTo(r) = [is |-> "waiting"] /\ AnswerTo(r)' = [is |-> "page", total |-> n, page |-> ids]
    BY <2>1, <2>4 DEF AnswerTo
  <2>6. answers' = [answers EXCEPT ![r] = AnswerTo(r)']
    BY <2>1, OneAnswer DEF TypeOK, Functions
  <2> QED BY <2>1, <2>3, <2>5, <2>6 DEF Snapshots!Reply, answers
<1>7. ASSUME NEW r \in Readers, ReadFails(r) PROVE Snapshots!Refuse(r)
  <2>1. PICK s \in {500, 503} : status' = [status EXCEPT ![r] = s]
    BY <1>7 DEF ReadFails
  <2>2. /\ pc[r] \in {"begin", "count", "find"} /\ pc' = [pc EXCEPT ![r] = "answered"]
        /\ UNCHANGED <<rows, query, total, page>>
    BY <1>7 DEF ReadFails, Goto
  <2>3. AnswerTo(r) = [is |-> "waiting"] /\ AnswerTo(r)' = [is |-> "none"]
    BY <2>1, <2>2 DEF AnswerTo, TypeOK
  <2>4. answers' = [answers EXCEPT ![r] = AnswerTo(r)']
    BY <2>1, <2>2, OneAnswer DEF TypeOK
  <2> QED BY <2>2, <2>3, <2>4 DEF Snapshots!Refuse, answers
<1>8. ASSUME NEW r \in Readers, NextPage(r) PROVE Snapshots!Ask(r)
  <2>1. PICK q : query' = [query EXCEPT ![r] = q]
    <3>1. query' = [query EXCEPT ![r] = [query[r] EXCEPT !.page = pageOf(query[r]) + 1]]
      BY <1>8 DEF NextPage
    <3> QED BY <3>1
  <2>2. /\ pc[r] = "answered" /\ status[r] = 200 /\ pc' = [pc EXCEPT ![r] = "resolve"]
        /\ UNCHANGED <<rows, status, total, page>>
    BY <1>8 DEF NextPage, Goto
  <2>3. AnswerTo(r).is = "page" /\ AnswerTo(r)' = [is |-> "waiting"]
    BY <2>2 DEF AnswerTo, TypeOK
  <2>4. answers' = [answers EXCEPT ![r] = AnswerTo(r)']
    BY <2>2, OneAnswer DEF TypeOK
  <2>5. query' = [query EXCEPT ![r] = query'[r]]
    BY <2>1 DEF Functions
  <2>6. AnswerTo(r) # [is |-> "waiting"]
    BY <2>3
  <2> QED BY <2>2, <2>3, <2>4, <2>5, <2>6 DEF Snapshots!Ask, answers
<1>9. CASE UNCHANGED vars
  <2>1. UNCHANGED <<rows, query, answers>>
    BY <1>9 DEF vars, answers, AnswerTo
  <2> QED BY <2>1 DEF Snapshots!vars
<1> QED BY <1>1, <1>2, <1>3, <1>4, <1>5, <1>6, <1>7, <1>8, <1>9
        DEF Next, Read, Snapshots!Next

(* Every page with its total is the answer the whole table gives at one    *)
(* moment, at the position asked for, however the reads, the failures and  *)
(* the ingestion interleave (log_query.go, List).                          *)
THEOREM PagesAreSnapshots == Spec => ImplementsSnapshots
BY InitRefines, InitInv, StepInv, StepRefines, PTL DEF Spec, ImplementsSnapshots, Snapshots!Spec

-----------------------------------------------------------------------------
(* The order and the pages of a list.                                      *)

\* What the table holds.
StoredRow == [id : Nat, event : {e \in Events : Kind(e) = "stored"}]

IsTable(S) ==
    /\ S \subseteq StoredRow /\ IsFiniteSet(S)
    /\ \A a, b \in S : a.id = b.id => a = b

\* A stored event keeps the instant it was submitted with.
LEMMA StoredLog ==
    ASSUME NEW e \in Events, Kind(e) = "stored"
    PROVE  Prepared[e].log = NormalizedEvent(Input[e]) /\ Prepared[e].log.logged_at \in Int
<1>1. Prepared[e] = PrepareLog(Input[e])
  BY DEF Prepared
<1>2. Prepared[e].log = NormalizedEvent(Input[e])
  BY <1>1 DEF Kind, PrepareLog
<1> QED BY <1>2, InstantsAssumption DEF NormalizedEvent

LEMMA TablePart ==
    ASSUME NEW S, IsTable(S), NEW T \in SUBSET S
    PROVE  IsTable(T)
BY FS_Subset DEF IsTable

\* The order of the list is strict and total: the id decides between rows of
\* one time.
LEMMA BeforeOrders ==
    ASSUME NEW S, IsTable(S)
    PROVE  StrictlyOrders({p \in S \X S : Before(p[1], p[2])}, S)
<1> DEFINE at(x) == Log(x).logged_at
           R == {p \in S \X S : Before(p[1], p[2])}
<1>1. \A x \in S : at(x) \in Int /\ x.id \in Int
  BY StoredLog DEF IsTable, StoredRow, Log
<1>2. \A x, y \in S : <<x, y>> \in R <=> Before(x, y)
  OBVIOUS
<1>3. \A x, y \in S : Before(x, y) <=> Earlier(at(y), at(x)) \/ (at(x) = at(y) /\ x.id > y.id)
  BY DEF Before
<1>4. \A x, y \in S : x.id = y.id => x = y
  BY DEF IsTable
<1> HIDE DEF at, R
<1>5. \A i \in Int : TextRank(i) \in 0..3
  BY InstantsInOrder DEF TextRank
<1>6. \A i, j \in Int :
        Earlier(i, j) <=> TextRank(i) < TextRank(j) \/ (TextRank(i) = TextRank(j) /\ i < j)
  BY DEF Earlier
<1>7. \A i, j, k \in Int : Earlier(i, j) /\ Earlier(j, k) => Earlier(i, k)
  BY <1>5, <1>6
<1>8. \A i, j \in Int : ~Earlier(i, i) /\ (i = j \/ Earlier(i, j) \/ Earlier(j, i))
  BY <1>5, <1>6
<1>9. \A x \in S : ~Before(x, x)
  BY <1>1, <1>3, <1>8
<1>10. \A x, y, z \in S : Before(x, y) /\ Before(y, z) => Before(x, z)
  <2> TAKE x, y, z \in S
  <2>1. at(x) \in Int /\ at(y) \in Int /\ at(z) \in Int /\ x.id \in Int /\ y.id \in Int /\ z.id \in Int
    BY <1>1
  <2>2. Earlier(at(z), at(y)) /\ Earlier(at(y), at(x)) => Earlier(at(z), at(x))
    BY <1>7, <2>1
  <2> QED BY <1>3, <2>1, <2>2
<1>11. \A x, y \in S : x = y \/ Before(x, y) \/ Before(y, x)
  <2> TAKE x, y \in S
  <2>1. at(x) \in Int /\ at(y) \in Int /\ x.id \in Int /\ y.id \in Int
    BY <1>1
  <2>2. at(x) = at(y) \/ Earlier(at(y), at(x)) \/ Earlier(at(x), at(y))
    BY <1>8, <2>1
  <2>3. x.id > y.id \/ y.id > x.id \/ x.id = y.id
    BY <2>1
  <2> QED BY <1>3, <1>4, <2>2, <2>3
<1>12. StrictlyOrders(R, S)
  BY <1>2, <1>9, <1>10, <1>11 DEF StrictlyOrders
<1> QED BY <1>12 DEF R

\* Every row has a position of its own, and every position a row.
LEMMA PositionFacts ==
    ASSUME NEW S, IsTable(S)
    PROVE  /\ Cardinality(S) \in Nat
           /\ \A x \in S : Position(x, S) \in 1..Cardinality(S)
           /\ \A x, y \in S : Position(x, S) = Position(y, S) => x = y
           /\ \A i \in 1..Cardinality(S) : \E x \in S : Position(x, S) = i
<1> DEFINE R == {p \in S \X S : Before(p[1], p[2])}
           n == Cardinality(S)
<1>1. IsFiniteSet(S) /\ StrictlyOrders(R, S)
  BY BeforeOrders DEF IsTable
<1>2. \A x \in S : Position(x, S) = Cardinality(Precede(R, S, x)) + 1
  <2> TAKE x \in S
  <2>1. Precede(R, S, x) = {k \in S : Before(k, x)}
    BY DEF Precede
  <2> QED BY <2>1 DEF Position
<1> HIDE DEF R
<1>3. /\ Cardinality(S) \in Nat
      /\ \A x \in S : Cardinality(Precede(R, S, x)) \in 0..Cardinality(S) - 1
  BY <1>1, RankFacts
<1>4. \A x, y \in S : Cardinality(Precede(R, S, x)) = Cardinality(Precede(R, S, y)) => x = y
  BY <1>1, RankFacts
<1>5. \A i \in 0..Cardinality(S) - 1 : \E x \in S : Cardinality(Precede(R, S, x)) = i
  BY <1>1, RankFacts
<1>6. \A x \in S : Position(x, S) \in 1..Cardinality(S)
  BY <1>2, <1>3
<1>7. ASSUME NEW x \in S, NEW y \in S, Position(x, S) = Position(y, S) PROVE x = y
  <2>1. Cardinality(Precede(R, S, x)) = Cardinality(Precede(R, S, y))
    BY <1>2, <1>3, <1>7
  <2> QED BY <1>4, <2>1
<1>8. ASSUME NEW i \in 1..Cardinality(S) PROVE \E x \in S : Position(x, S) = i
  <2>1. i - 1 \in 0..Cardinality(S) - 1
    BY <1>3
  <2>2. PICK x \in S : Cardinality(Precede(R, S, x)) = i - 1
    BY <1>5, <2>1
  <2>3. Position(x, S) = i
    BY <1>2, <2>2
  <2> QED BY <2>3
<1> QED BY <1>3, <1>6, <1>7, <1>8

LEMMA OrderedFacts ==
    ASSUME NEW q, NEW table, IsTable(table)
    PROVE  LET M == Matching(q, table)
           IN  /\ Ordered(q, table) \in Seq(Nat) /\ Len(Ordered(q, table)) = Cardinality(M)
               /\ \A x \in M : Ordered(q, table)[Position(x, M)] = x.id
               /\ ToSet(Ordered(q, table)) = {x.id : x \in M}
<1> DEFINE M == Matching(q, table)
           n == Cardinality(M)
           at(i) == CHOOSE row \in M : Position(row, M) = i
           s == [i \in 1..n |-> at(i).id]
<1>1. IsTable(M)
  BY TablePart DEF Matching
<1>2. Ordered(q, table) = s
  BY DEF Ordered
<1> HIDE DEF M
<1>3. /\ n \in Nat
      /\ \A x \in M : Position(x, M) \in 1..n
      /\ \A x, y \in M : Position(x, M) = Position(y, M) => x = y
      /\ \A i \in 1..n : \E x \in M : Position(x, M) = i
  BY <1>1, PositionFacts
<1>4. \A i \in 1..n : at(i) \in M /\ Position(at(i), M) = i
  BY <1>3
<1>5. \A x \in M : x.id \in Nat
  BY <1>1 DEF IsTable, StoredRow
<1> HIDE DEF at
<1>6. s \in Seq(Nat) /\ Len(s) = n /\ DOMAIN s = 1..n
  BY <1>3, <1>4, <1>5
<1>7. \A x \in M : s[Position(x, M)] = x.id
  <2> TAKE x \in M
  <2>1. at(Position(x, M)) = x
    BY <1>3, <1>4
  <2> QED BY <1>3, <2>1
<1>8. ToSet(s) = {x.id : x \in M}
  <2>1. ToSet(s) = {s[i] : i \in 1..n}
    BY <1>6 DEF ToSet
  <2>2. \A i \in 1..n : s[i] = at(i).id
    OBVIOUS
  <2> HIDE DEF s
  <2>3. \A v \in ToSet(s) : v \in {x.id : x \in M}
    BY <1>4, <2>1, <2>2
  <2>4. \A x \in M : x.id \in ToSet(s)
    BY <1>3, <1>7, <2>1
  <2> QED BY <2>3, <2>4
<1> HIDE DEF s
<1> QED BY <1>2, <1>6, <1>7, <1>8 DEF M

\* The rows at the limit positions after offset.
OnPage(M, offset, limit) == {x \in M : offset < Position(x, M) /\ Position(x, M) <= offset + limit}

IdsOf(S) == {x.id : x \in S}

\* A page is the rows at its positions.
LEMMA PageFacts ==
    ASSUME NEW q, NEW table, IsTable(table), NEW offset \in Nat, NEW limit \in Nat
    PROVE  /\ Slice(Ordered(q, table), offset, limit) \in Seq(Nat)
           /\ Len(Slice(Ordered(q, table), offset, limit)) = Cardinality(OnPage(Matching(q, table), offset, limit))
           /\ IsFiniteSet(OnPage(Matching(q, table), offset, limit))
           /\ ToSet(Slice(Ordered(q, table), offset, limit)) = IdsOf(OnPage(Matching(q, table), offset, limit))
<1> DEFINE M == Matching(q, table)
           n == Cardinality(M)
           s == Ordered(q, table)
           last == IF n < offset + limit THEN n ELSE offset + limit
           N == {x \in M : offset < Position(x, M) /\ Position(x, M) <= offset + limit}
           ids == Slice(s, offset, limit)
           len == IF offset + 1 <= last THEN last - offset ELSE 0
<1>1. IsTable(M)
  BY TablePart DEF Matching
<1>2. /\ n \in Nat
      /\ \A x \in M : Position(x, M) \in 1..n
      /\ \A x, y \in M : Position(x, M) = Position(y, M) => x = y
      /\ \A i \in 1..n : \E x \in M : Position(x, M) = i
  BY <1>1, PositionFacts
<1>3. s \in Seq(Nat) /\ Len(s) = n /\ \A x \in M : s[Position(x, M)] = x.id
  BY OrderedFacts
<1>4. ids = SubSeq(s, offset + 1, last)
  BY <1>3 DEF Slice
<1> HIDE DEF M, s, ids
<1>5. last \in Int /\ last <= n /\ last <= offset + limit /\ len \in Nat
  BY <1>2
<1>6. \A i \in offset + 1..last : i \in 1..n
  BY <1>2
<1>7. \A i \in 1..n : s[i] \in Nat
  BY <1>3
<1>8. /\ ids \in Seq(Nat) /\ Len(ids) = len /\ DOMAIN ids = 1..len
      /\ \A i \in 1..len : ids[i] = s[offset + i]
  <2>1. ids = [i \in 1..len |-> s[offset + 1 + i - 1]]
    BY <1>2, <1>3, <1>4, <1>5
  <2>2. \A i \in 1..len : offset + 1 + i - 1 = offset + i /\ offset + i \in 1..n
    BY <1>2, <1>5
  <2> HIDE DEF len, last
  <2> QED BY <1>5, <1>7, <2>1, <2>2
<1>9. \A x \in N : Position(x, M) - offset \in 1..len
  BY <1>2, <1>5
<1>10. \A i \in 1..len : \E x \in N : Position(x, M) = offset + i
  <2> TAKE i \in 1..len
  <2>1. offset + i \in 1..n /\ offset < offset + i /\ offset + i <= offset + limit
    BY <1>2, <1>5
  <2> QED BY <1>2, <2>1
<1> DEFINE f == [x \in N |-> Position(x, M) - offset]
           D == 1..len
<1>11. IsFiniteSet(N) /\ IsFiniteSet(D) /\ Cardinality(D) = len
  <2>1. N \in SUBSET M /\ IsFiniteSet(M)
    BY <1>1 DEF IsTable
  <2>2. IsFiniteSet(N)
    BY <2>1, FS_Subset
  <2> HIDE DEF len
  <2>3. IsFiniteSet(1..len) /\ Cardinality(1..len) = IF 1 > len THEN 0 ELSE len - 1 + 1
    BY <1>5, FS_Interval
  <2> QED BY <1>5, <2>2, <2>3
<1>12. f \in Bijection(N, D)
  <2>1. f \in [N -> D]
    BY <1>9
  <2>2. \A x, y \in N : f[x] = f[y] => x = y
    <3> TAKE x, y \in N
    <3>1. Position(x, M) \in Int /\ Position(y, M) \in Int /\ x \in M /\ y \in M
      BY <1>2
    <3> QED BY <1>2, <3>1
  <2>3. \A i \in D : \E x \in N : f[x] = i
    <3> TAKE i \in D
    <3>1. PICK x \in N : Position(x, M) = offset + i
      BY <1>10
    <3>2. f[x] = i
      BY <3>1
    <3> QED BY <3>2
  <2> HIDE DEF f, N, D
  <2> QED BY <2>1, <2>2, <2>3 DEF Bijection, Injection, Surjection, IsInjective
<1>13. Cardinality(N) = len
  <2> HIDE DEF f, N, D, len
  <2> QED BY <1>11, <1>12, FS_Bijection DEF ExistsBijection
<1>14. ToSet(ids) = {x.id : x \in N}
  <2>1. ToSet(ids) = {ids[i] : i \in 1..len}
    BY <1>8 DEF ToSet
  <2>2. ASSUME NEW i \in 1..len PROVE ids[i] \in {x.id : x \in N}
    <3>1. PICK x \in N : Position(x, M) = offset + i
      BY <1>10
    <3>2. ids[i] = x.id
      BY <1>3, <1>8, <3>1
    <3> QED BY <3>2
  <2>3. ASSUME NEW x \in N PROVE x.id \in ToSet(ids)
    <3>1. Position(x, M) - offset \in 1..len /\ Position(x, M) \in Int
      BY <1>2, <1>9
    <3>2. ids[Position(x, M) - offset] = s[offset + (Position(x, M) - offset)]
      BY <1>8, <3>1
    <3>3. ids[Position(x, M) - offset] = x.id
      BY <1>3, <3>1, <3>2
    <3> HIDE DEF N, len
    <3> QED BY <2>1, <3>1, <3>3
  <2> HIDE DEF N, len
  <2> QED BY <2>1, <2>2, <2>3
<1> HIDE DEF N, len
<1>15. N = OnPage(M, offset, limit) /\ {x.id : x \in N} = IdsOf(N)
  BY DEF N, OnPage, IdsOf
<1> QED BY <1>8, <1>11, <1>13, <1>14, <1>15 DEF M, s, ids

-----------------------------------------------------------------------------
(* Seen rows that lie ahead.                                               *)

\* Seen rows that lie ahead of position d.
AheadOf(M, shown, d) == {x \in M : x.id \in shown /\ Position(x, M) > d}

LEMMA IdsCount ==
    ASSUME NEW S, IsTable(S)
    PROVE  /\ IsFiniteSet({x.id : x \in S})
           /\ Cardinality({x.id : x \in S}) = Cardinality(S) /\ Cardinality(S) \in Nat
<1> DEFINE I == {x.id : x \in S}
           f == [x \in S |-> x.id]
<1>1. f \in Bijection(S, I)
  <2>1. f \in [S -> I]
    OBVIOUS
  <2>2. \A x, y \in S : f[x] = f[y] => x = y
    BY DEF IsTable
  <2>3. \A i \in I : \E x \in S : f[x] = i
    OBVIOUS
  <2> HIDE DEF f, I
  <2> QED BY <2>1, <2>2, <2>3 DEF Bijection, Injection, Surjection, IsInjective
<1>2. IsFiniteSet(S)
  BY DEF IsTable
<1>3. Cardinality(S) \in Nat
  BY <1>2, FS_CardinalityType
<1> HIDE DEF f, I
<1>4. ExistsBijection(S, I)
  BY <1>1 DEF ExistsBijection
<1>5. IsFiniteSet(I) /\ Cardinality(I) = Cardinality(S)
  BY <1>2, <1>4, FS_Bijection
<1> QED BY <1>3, <1>5 DEF I

\* A new row moves those behind it by one.
LEMMA OneMoves ==
    ASSUME NEW M, NEW new, new \notin M, IsTable(M \cup {new})
    PROVE  \A x \in M : /\ Position(x, M) \in Int /\ Position(x, M \cup {new}) \in Int
                        /\ Position(x, M) <= Position(x, M \cup {new})
                        /\ Position(x, M \cup {new}) <= Position(x, M) + 1
<1> DEFINE more == M \cup {new}
<1>1. IsTable(M)
  BY TablePart
<1>2. IsFiniteSet(M)
  BY <1>1 DEF IsTable
<1> TAKE x \in M
<1> DEFINE B == {k \in M : Before(k, x)}
           C == {k \in more : Before(k, x)}
<1>3. IsFiniteSet(B) /\ Cardinality(B) \in Nat
  <2>1. B \in SUBSET M
    OBVIOUS
  <2>2. IsFiniteSet(B)
    BY <1>2, <2>1, FS_Subset
  <2> QED BY <2>2, FS_CardinalityType
<1>4. C = B \/ (C = B \cup {new} /\ new \notin B)
  OBVIOUS
<1>5. Position(x, M) = Cardinality(B) + 1 /\ Position(x, more) = Cardinality(C) + 1
  BY DEF Position
<1> HIDE DEF B, C
<1>6. Cardinality(C) = Cardinality(B) \/ Cardinality(C) = Cardinality(B) + 1
  BY <1>3, <1>4, FS_AddElement
<1> QED BY <1>3, <1>5, <1>6

\* So at most one row that was seen comes to lie ahead again.
LEMMA OneComesBack ==
    ASSUME NEW M, NEW new, new \notin M, IsTable(M \cup {new}), NEW shown, new.id \notin shown,
           NEW d \in Int
    PROVE  /\ Cardinality(AheadOf(M, shown, d)) \in Nat
           /\ Cardinality(AheadOf(M \cup {new}, shown, d)) \in Nat
           /\ Cardinality(AheadOf(M \cup {new}, shown, d)) <= Cardinality(AheadOf(M, shown, d)) + 1
<1> DEFINE more == M \cup {new}
           A == AheadOf(M, shown, d)
           B == AheadOf(more, shown, d)
<1>1. IsTable(M) /\ IsFiniteSet(M)
  BY TablePart DEF IsTable
<1>2. A \in SUBSET M /\ B \in SUBSET M
  BY DEF AheadOf
<1>3. \A x \in B : x \in A \/ Position(x, M) = d
  <2> TAKE x \in B
  <2>1. x \in M /\ x.id \in shown /\ Position(x, more) > d
    BY <1>2 DEF AheadOf
  <2>2. /\ Position(x, M) \in Int /\ Position(x, more) \in Int
        /\ Position(x, more) <= Position(x, M) + 1
    BY <2>1, OneMoves
  <2>3. Position(x, M) > d \/ Position(x, M) = d
    BY <2>1, <2>2
  <2> QED BY <2>1, <2>3 DEF AheadOf
<1> HIDE DEF A, B
<1>4. /\ IsFiniteSet(A) /\ Cardinality(A) \in Nat
      /\ IsFiniteSet(B) /\ Cardinality(B) \in Nat
  <2>1. IsFiniteSet(A) /\ IsFiniteSet(B)
    BY <1>1, <1>2, FS_Subset
  <2> QED BY <2>1, FS_CardinalityType
<1>5. CASE B \in SUBSET A
  <2>1. Cardinality(B) <= Cardinality(A)
    BY <1>4, <1>5, FS_Subset
  <2>2. Cardinality(B) <= Cardinality(A) + 1
    BY <1>4, <2>1
  <2> QED BY <1>4, <2>2 DEF A, B
<1>6. CASE B \notin SUBSET A
  <2>1. PICK x \in B : x \notin A
    BY <1>6
  <2>2. \A y \in B : y \in A \/ y = x
    BY <1>1, <1>2, <1>3, <2>1, PositionFacts
  <2>3. B \in SUBSET (A \cup {x})
    BY <2>2
  <2>4. IsFiniteSet(A \cup {x}) /\ Cardinality(A \cup {x}) = Cardinality(A) + 1
    BY <1>4, <2>1, FS_AddElement
  <2>5. Cardinality(B) <= Cardinality(A) + 1
    BY <2>3, <2>4, FS_Subset
  <2> QED BY <1>4, <2>5 DEF A, B
<1> QED BY <1>5, <1>6

\* A page repeats the rows on it that were seen, which then lie ahead no more.
LEMMA PageRepeats ==
    ASSUME NEW M, IsTable(M), NEW shown, IsFiniteSet(shown), NEW d \in Int, NEW size \in Nat,
           NEW more, more = shown \cup IdsOf(OnPage(M, d, size))
    PROVE  /\ Cardinality(OnPage(M, d, size)) + Cardinality(shown) + Cardinality(AheadOf(M, more, d + size))
                = Cardinality(more) + Cardinality(AheadOf(M, shown, d))
           /\ Cardinality(OnPage(M, d, size)) \in Nat /\ Cardinality(shown) \in Nat /\ Cardinality(more) \in Nat
           /\ Cardinality(AheadOf(M, more, d + size)) \in Nat
           /\ Cardinality(AheadOf(M, shown, d)) \in Nat
<1> DEFINE N == {x \in M : d < Position(x, M) /\ Position(x, M) <= d + size}
           NS == {x \in N : x.id \in shown}
           I == {x.id : x \in N}
           J == {x.id : x \in NS}
           A == AheadOf(M, shown, d)
           B == AheadOf(M, more, d + size)
<1>1. /\ \A x \in M : Position(x, M) \in Int
      /\ \A x, y \in M : x.id = y.id => x = y
      /\ IsFiniteSet(M)
  BY PositionFacts DEF IsTable
<1>0. N = OnPage(M, d, size) /\ I = IdsOf(N) /\ more = shown \cup I
  BY DEF OnPage, IdsOf
<1>2. N \in SUBSET M /\ NS \in SUBSET M /\ NS \in SUBSET A /\ A \in SUBSET M /\ B \in SUBSET M
  BY DEF AheadOf
<1>3. B = A \ NS
  <2>1. ASSUME NEW x \in B PROVE x \in A \ NS
    <3>1. x \in M /\ Position(x, M) > d + size /\ Position(x, M) \in Int
      BY <1>1, <1>2, <2>1 DEF AheadOf
    <3>2. x \notin N /\ Position(x, M) > d
      BY <3>1
    <3>3. x.id \in shown
      <4>1. x.id \in shown \/ \E y \in N : y.id = x.id
        BY <1>0, <2>1 DEF AheadOf
      <4> QED BY <1>1, <1>2, <3>1, <3>2, <4>1
    <3> QED BY <3>1, <3>2, <3>3 DEF AheadOf
  <2>2. ASSUME NEW x \in A \ NS PROVE x \in B
    <3>1. x \in M /\ Position(x, M) > d /\ x.id \in shown /\ Position(x, M) \in Int
      BY <1>1, <1>2, <2>2 DEF AheadOf
    <3>2. x \notin N
      BY <2>2, <3>1
    <3>3. Position(x, M) > d + size
      BY <3>1, <3>2
    <3> QED BY <1>0, <3>1, <3>3 DEF AheadOf
  <2> QED BY <2>1, <2>2
<1>4. shown \cap I = J
  OBVIOUS
<1>5. IsTable(N) /\ IsTable(NS)
  BY <1>2, TablePart
<1>6. /\ IsFiniteSet(I) /\ Cardinality(I) = Cardinality(N) /\ Cardinality(N) \in Nat
      /\ Cardinality(J) = Cardinality(NS) /\ Cardinality(NS) \in Nat
  <2> HIDE DEF N, NS
  <2> QED BY <1>5, IdsCount
<1>7. IsFiniteSet(NS) /\ NS \cap A = NS
  BY <1>2, <1>5 DEF IsTable
<1> HIDE DEF N, NS, I, J, A, B
<1>8. IsFiniteSet(A) /\ IsFiniteSet(B)
  BY <1>1, <1>2, FS_Subset
<1>9. Cardinality(A) \in Nat /\ Cardinality(B) \in Nat /\ Cardinality(shown) \in Nat
  BY <1>8, FS_CardinalityType
<1>10. Cardinality(B) = Cardinality(A) - Cardinality(NS)
  <2>1. Cardinality(A \ NS) = Cardinality(A) - Cardinality(A \cap NS)
    BY <1>8, FS_Difference
  <2>2. A \cap NS = NS
    BY <1>7
  <2> QED BY <1>3, <2>1, <2>2
<1>11. /\ IsFiniteSet(more)
       /\ Cardinality(more) = Cardinality(shown) + Cardinality(I) - Cardinality(shown \cap I)
  BY <1>0, <1>6, FS_Union
<1>12. Cardinality(more) \in Nat
  BY <1>11, FS_CardinalityType
<1>13. Cardinality(N) + Cardinality(shown) + Cardinality(B) = Cardinality(more) + Cardinality(A)
  <2>1. Cardinality(more) = Cardinality(shown) + Cardinality(N) - Cardinality(NS)
    BY <1>4, <1>6, <1>11
  <2> QED BY <1>6, <1>9, <1>10, <1>12, <2>1
<1> QED BY <1>0, <1>6, <1>9, <1>11, <1>12, <1>13 DEF A, B

\* So the balance of rows shown twice and rows that came is kept.
LEMMA RepeatsBalance ==
    ASSUME NEW M, IsTable(M), NEW shown, IsFiniteSet(shown), NEW d \in Int, NEW size \in Nat,
           NEW len \in Nat, NEW come \in Nat,
           NEW more, more = shown \cup IdsOf(OnPage(M, d, size)),
           len + Cardinality(AheadOf(M, shown, d)) <= Cardinality(shown) + come
    PROVE  len + Cardinality(OnPage(M, d, size)) + Cardinality(AheadOf(M, more, d + size))
             <= Cardinality(more) + come
<1> DEFINE n == Cardinality(OnPage(M, d, size))
           before == Cardinality(AheadOf(M, shown, d))
           after == Cardinality(AheadOf(M, more, d + size))
<1>1. /\ n + Cardinality(shown) + after = Cardinality(more) + before
      /\ n \in Nat /\ Cardinality(shown) \in Nat /\ Cardinality(more) \in Nat
      /\ after \in Nat /\ before \in Nat
  BY PageRepeats
<1>2. len + before <= Cardinality(shown) + come
  OBVIOUS
<1> HIDE DEF n, before, after
<1>3. len + n + after <= Cardinality(more) + come
  BY <1>1, <1>2
<1> QED BY <1>3 DEF n, after

-----------------------------------------------------------------------------
(* Walks.  The invariant of a walk counts the rows that were seen and lie  *)
(* ahead again: only a row that came meanwhile puts one there, and only    *)
(* reading it once more takes it away.                                     *)

\* The pages answered, the positions they cover, the rows they showed.
Pages(r)    == IF Answered(r) THEN pageOf(query[r]) ELSE pageOf(query[r]) - 1
Covered(r)  == Pages(r) * pageSizeOf(query[r])
Shown(r)    == ToSet(walk[r].ids)
Selected(r) == Matching(query[r], rows)
NewRows(r)  == Matching(query[r], rows \ walk[r].from)

Repeats(r) ==
    Len(walk[r].ids) + Cardinality(AheadOf(Selected(r), Shown(r), Covered(r)))
        <= Cardinality(Shown(r)) + Cardinality(NewRows(r))

\* What was there and now lies within the pages answered has been seen.
NothingBehind(r) ==
    query[r].walks =>
        \A x \in Matching(query[r], walk[r].from) :
            Position(x, Selected(r)) <= Covered(r) => x.id \in Shown(r)

\* At the end of the walk it is all of them, and stays so.
AllAtTheEnd(r) ==
    Answered(r) /\ query[r].walks /\ Seen(r) >= total[r] =>
        \A x \in Matching(query[r], walk[r].from) : x.id \in Shown(r)

WalkStands(r) ==
    IF pc[r] = "idle" THEN walk[r].ids = << >>
    ELSE Repeats(r) /\ NothingBehind(r) /\ AllAtTheEnd(r)

WalkTypes ==
    /\ IsTable(rows)
    /\ walk \in [Readers -> [ids : Seq(Nat), from : SUBSET StoredRow]]
    /\ \A r \in Readers : walk[r].from \subseteq rows /\ Shown(r) \subseteq 1..Cardinality(rows)

WInv == WalkTypes /\ \A r \in Readers : WalkStands(r)

LEMMA WalkNumbers ==
    ASSUME IInv, WInv, NEW r \in Readers
    PROVE  /\ IsFiniteSet(Shown(r)) /\ Cardinality(Shown(r)) \in Nat /\ Len(walk[r].ids) \in Nat
           /\ IsTable(Selected(r)) /\ IsTable(NewRows(r)) /\ Cardinality(NewRows(r)) \in Nat
           /\ pc[r] # "idle" => /\ query[r] \in Asked /\ pageOf(query[r]) \in Int
                                /\ pageSizeOf(query[r]) \in Int /\ Covered(r) \in Int
<1>1. IsTable(rows) /\ IsFiniteSet(rows) /\ Cardinality(rows) \in Nat
  BY FS_CardinalityType DEF WInv, WalkTypes, IsTable
<1>2. IsFiniteSet(Shown(r))
  <2>1. Shown(r) \in SUBSET (1..Cardinality(rows)) /\ IsFiniteSet(1..Cardinality(rows))
    BY <1>1, FS_Interval DEF WInv, WalkTypes
  <2> QED BY <2>1, FS_Subset
<1>3. Cardinality(Shown(r)) \in Nat
  BY <1>2, FS_CardinalityType
<1>4. Len(walk[r].ids) \in Nat
  BY DEF WInv, WalkTypes
<1>5. IsTable(Selected(r)) /\ IsTable(NewRows(r))
  <2>1. Selected(r) \in SUBSET rows /\ NewRows(r) \in SUBSET rows
    BY DEF Selected, NewRows, Matching
  <2> QED BY <1>1, <2>1, TablePart
<1>6. Cardinality(NewRows(r)) \in Nat
  BY <1>5, FS_CardinalityType DEF IsTable
<1>7. ASSUME pc[r] # "idle"
      PROVE  /\ query[r] \in Asked /\ pageOf(query[r]) \in Int
             /\ pageSizeOf(query[r]) \in Int /\ Covered(r) \in Int
  <2>1. query[r] \in Asked
    BY <1>7 DEF IInv, ReadsAreInOrder
  <2>2. MaxInt \in Int /\ DefaultPageSize \in Int
    BY PageSizesAssumption
  <2>3. pageOf(query[r]) \in Int
    BY <2>1 DEF Asked, pageOf
  <2>4. pageSizeOf(query[r]) \in Int
    BY <2>1, <2>2 DEF Asked, OptionalInt, pageSizeOf
  <2>5. Pages(r) \in Int
    BY <2>3 DEF Pages
  <2>6. Covered(r) \in Int
    BY <2>4, <2>5 DEF Covered
  <2> QED BY <2>1, <2>3, <2>4, <2>6
<1> QED BY <1>2, <1>3, <1>4, <1>5, <1>6, <1>7

\* A step that is not about a reader leaves the reader's walk alone.
LEMMA OtherWalk ==
    ASSUME NEW r \in Readers, WalkStands(r), rows' = rows, pc'[r] = pc[r], query'[r] = query[r],
           status'[r] = status[r], total'[r] = total[r], walk'[r] = walk[r]
    PROVE  WalkStands(r)'
<1>1. Answered(r)' <=> Answered(r)
  BY DEF Answered
<1>2. Covered(r)' = Covered(r) /\ Shown(r)' = Shown(r) /\ Selected(r)' = Selected(r) /\ NewRows(r)' = NewRows(r)
  BY <1>1 DEF Covered, Pages, Shown, Selected, NewRows
<1>3. Repeats(r)' <=> Repeats(r)
  BY <1>2 DEF Repeats
<1>4. NothingBehind(r)' <=> NothingBehind(r)
  BY <1>2 DEF NothingBehind
<1>5. AllAtTheEnd(r)' <=> AllAtTheEnd(r)
  BY <1>1, <1>2 DEF AllAtTheEnd, Seen
<1> QED BY <1>3, <1>4, <1>5 DEF WalkStands

\* A step that answers no page covers no more than before.
LEMMA NoPageYet ==
    ASSUME NEW r \in Readers, WalkStands(r), pc[r] # "idle", pc'[r] # "idle",
           rows' = rows, walk'[r] = walk[r], ~Answered(r)',
           query'[r].walks = query[r].walks, listFilter(query'[r]) = listFilter(query[r]),
           Covered(r)' = Covered(r)
    PROVE  WalkStands(r)'
<1>1. \A S : Matching(query'[r], S) = Matching(query[r], S)
  BY DEF Matching
<1>2. Shown(r)' = Shown(r) /\ Selected(r)' = Selected(r) /\ NewRows(r)' = NewRows(r)
  BY <1>1 DEF Shown, Selected, NewRows
<1>3. Repeats(r)'
  BY <1>2 DEF Repeats, WalkStands
<1>4. NothingBehind(r)'
  BY <1>1, <1>2 DEF NothingBehind, WalkStands
<1>5. AllAtTheEnd(r)'
  BY DEF AllAtTheEnd
<1> QED BY <1>3, <1>4, <1>5 DEF WalkStands

\* Nothing in the table and nothing in the walk but the walk of one reader.
LEMMA OneWalk ==
    ASSUME WInv, NEW r \in Readers, rows' = rows,
           walk' \in [Readers -> [ids : Seq(Nat), from : SUBSET StoredRow]],
           \A s \in Readers \ {r} : /\ pc'[s] = pc[s] /\ query'[s] = query[s] /\ status'[s] = status[s]
                                    /\ total'[s] = total[s] /\ walk'[s] = walk[s],
           walk'[r].from \subseteq rows, Shown(r)' \subseteq 1..Cardinality(rows),
           WalkStands(r)'
    PROVE  WInv'
<1>1. \A s \in Readers : WalkStands(s)'
  BY OtherWalk DEF WInv
<1>2. \A s \in Readers : walk'[s].from \subseteq rows' /\ Shown(s)' \subseteq 1..Cardinality(rows')
  BY DEF WInv, WalkTypes, Shown
<1>3. WalkTypes'
  BY <1>2 DEF WInv, WalkTypes
<1> QED BY <1>1, <1>3 DEF WInv

LEMMA InitWalks == Init => WInv
<1> SUFFICES ASSUME Init PROVE WInv
  OBVIOUS
<1>1. /\ rows = InitialRows /\ walk = [r \in Readers |-> [ids |-> << >>, from |-> {}]]
      /\ \A r \in Readers : pc[r] = "idle"
  BY DEF Init
<1>2. IsTable(rows)
  <2>1. IsFiniteSet(rows)
    BY <1>1, InitialRowsCounted
  <2>2. rows \subseteq StoredRow
    BY <1>1, InitialEventsAssumption DEF InitialRows, StoredRow
  <2>3. \A a, b \in rows : a.id = b.id => a = b
    BY <1>1 DEF InitialRows
  <2> QED BY <2>1, <2>2, <2>3 DEF IsTable
<1>3. \A r \in Readers : walk[r].ids = << >> /\ walk[r].from = {}
  BY <1>1
<1>4. \A r \in Readers : Shown(r) = {}
  BY <1>3 DEF Shown, ToSet
<1>5. walk \in [Readers -> [ids : Seq(Nat), from : SUBSET StoredRow]]
  <2>1. << >> \in Seq(Nat)
    OBVIOUS
  <2> QED BY <1>1, <2>1
<1> QED BY <1>1, <1>2, <1>3, <1>4, <1>5 DEF WInv, WalkTypes, WalkStands

LEMMA IngestKeepsWalks == IInv /\ WInv /\ Ingest => WInv'
<1> SUFFICES ASSUME IInv, WInv, Ingest PROVE WInv'
  OBVIOUS
<1>1. PICK e \in Events : Kind(e) = "stored" /\ rows' = rows \cup {RowFor(e, rows)}
  BY DEF Ingest
<1> DEFINE new == RowFor(e, rows)
<1>0. rows' = rows \cup {new}
  BY <1>1
<1>2. UNCHANGED <<pc, query, status, total, walk>>
  BY DEF Ingest
<1>3. IsTable(rows) /\ IsFiniteSet(rows) /\ Cardinality(rows) \in Nat /\ new.id = Cardinality(rows) + 1
  BY FS_CardinalityType DEF WInv, WalkTypes, IsTable, RowFor
<1>4. new \notin rows /\ \A x \in rows : x.id # new.id
  BY <1>3 DEF IInv, TypeOK
<1>5. IsFiniteSet(rows') /\ Cardinality(rows') = Cardinality(rows) + 1
  BY <1>1, <1>3, <1>4, FS_AddElement
<1>6. IsTable(rows')
  <2>1. new \in StoredRow
    BY <1>1, <1>3 DEF StoredRow, RowFor
  <2> HIDE DEF new
  <2>2. \A a, b \in rows : a.id = b.id => a = b
    BY <1>3 DEF IsTable
  <2>3. \A a, b \in rows' : a.id = b.id => a = b
    BY <1>0, <1>4, <2>2
  <2>4. rows' \subseteq StoredRow
    BY <1>0, <1>3, <2>1 DEF IsTable
  <2> QED BY <1>5, <2>3, <2>4 DEF IsTable
<1> HIDE DEF new
<1>7. ASSUME NEW r \in Readers PROVE walk'[r].from \subseteq rows' /\ Shown(r)' \subseteq 1..Cardinality(rows')
  <2>1. walk[r].from \subseteq rows /\ Shown(r) \subseteq 1..Cardinality(rows)
    BY DEF WInv, WalkTypes
  <2>2. walk'[r].from \subseteq rows'
    BY <1>1, <1>2, <2>1
  <2>3. Shown(r)' \subseteq 1..Cardinality(rows')
    BY <1>2, <1>3, <1>5, <2>1 DEF Shown
  <2> QED BY <2>2, <2>3
<1>8. WalkTypes'
  BY <1>2, <1>6, <1>7 DEF WInv, WalkTypes
<1>9. ASSUME NEW r \in Readers, pc[r] # "idle" PROVE WalkStands(r)'
  <2> DEFINE M == Selected(r)
             q == query[r]
             d == Covered(r)
  <2>1. /\ Answered(r)' <=> Answered(r)
        /\ Covered(r)' = d /\ Shown(r)' = Shown(r) /\ Seen(r)' = Seen(r)
    BY <1>2 DEF Answered, Covered, Pages, Shown, Seen
  <2>2. Repeats(r) /\ NothingBehind(r) /\ AllAtTheEnd(r)
    BY <1>9 DEF WInv, WalkStands
  <2>3. d \in Int /\ new.id \notin Shown(r) /\ walk[r].from \subseteq rows
    BY <1>3, <1>9, WalkNumbers DEF WInv, WalkTypes
  <2>4. AllAtTheEnd(r)'
    BY <1>2, <2>1, <2>2 DEF AllAtTheEnd
  <2>5. CASE Selects(listFilter(q), new)
    <3>1. /\ Selected(r)' = M \cup {new} /\ NewRows(r)' = NewRows(r) \cup {new}
          /\ new \notin M /\ new \notin NewRows(r) /\ M \subseteq rows
      <4>1. \A S : Matching(q, S \cup {new}) = Matching(q, S) \cup {new}
        BY <2>5 DEF Matching
      <4>2. rows' \ walk[r].from = (rows \ walk[r].from) \cup {new}
        BY <1>0, <1>4, <2>3
      <4>3. M \subseteq rows /\ NewRows(r) \subseteq rows
        BY DEF Selected, NewRows, Matching
      <4> QED BY <1>0, <1>2, <1>4, <4>1, <4>2, <4>3 DEF Selected, NewRows
    <3>2. IsTable(M \cup {new})
      <4>1. M \cup {new} \in SUBSET rows'
        BY <1>0, <3>1
      <4> QED BY <1>6, <4>1, TablePart
    <3>3. /\ Cardinality(AheadOf(M, Shown(r), d)) \in Nat
          /\ Cardinality(AheadOf(M \cup {new}, Shown(r), d)) \in Nat
          /\ Cardinality(AheadOf(M \cup {new}, Shown(r), d)) <= Cardinality(AheadOf(M, Shown(r), d)) + 1
      <4> HIDE DEF M, d
      <4> QED BY <2>3, <3>1, <3>2, OneComesBack
    <3>4. Cardinality(NewRows(r)') = Cardinality(NewRows(r)) + 1 /\ Cardinality(NewRows(r)) \in Nat
      BY <3>1, WalkNumbers, FS_AddElement DEF IsTable
    <3>5. Repeats(r)'
      <4>1. Len(walk[r].ids) \in Nat /\ Cardinality(Shown(r)) \in Nat
        BY WalkNumbers
      <4>2. Len(walk[r].ids) + Cardinality(AheadOf(M, Shown(r), d))
              <= Cardinality(Shown(r)) + Cardinality(NewRows(r))
        BY <2>2 DEF Repeats
      <4> HIDE DEF M, d
      <4>3. Len(walk[r].ids) + Cardinality(AheadOf(M \cup {new}, Shown(r), d))
              <= Cardinality(Shown(r)) + Cardinality(NewRows(r)')
        BY <3>3, <3>4, <4>1, <4>2
      <4> QED BY <1>2, <2>1, <3>1, <4>3 DEF Repeats
    <3>6. NothingBehind(r)'
      <4> SUFFICES ASSUME q.walks, NEW x \in Matching(q, walk[r].from),
                          Position(x, M \cup {new}) <= d
                   PROVE  x.id \in Shown(r)
        BY <1>2, <2>1, <3>1 DEF NothingBehind
      <4>1. x \in M
        BY <2>3 DEF Selected, Matching
      <4>2. /\ Position(x, M) \in Int /\ Position(x, M \cup {new}) \in Int
            /\ Position(x, M) <= Position(x, M \cup {new})
        <5> HIDE DEF M
        <5> QED BY <3>1, <3>2, <4>1, OneMoves
      <4>3. Position(x, M) <= d
        <5> HIDE DEF M, d
        <5> QED BY <2>3, <4>2
      <4> QED BY <2>2, <4>3 DEF NothingBehind
    <3> QED BY <1>2, <1>9, <2>4, <3>5, <3>6 DEF WalkStands
  <2>6. CASE ~Selects(listFilter(q), new)
    <3>1. Selected(r)' = M /\ NewRows(r)' = NewRows(r)
      <4>1. \A S : Matching(q, S \cup {new}) = Matching(q, S)
        BY <2>6 DEF Matching
      <4>2. rows' \ walk[r].from = (rows \ walk[r].from) \cup {new}
        BY <1>0, <1>4, <2>3
      <4> QED BY <1>0, <1>2, <4>1, <4>2 DEF Selected, NewRows
    <3>2. Repeats(r)'
      BY <1>2, <2>1, <2>2, <3>1 DEF Repeats
    <3>3. NothingBehind(r)'
      BY <1>2, <2>1, <2>2, <3>1 DEF NothingBehind
    <3> QED BY <1>2, <1>9, <2>4, <3>2, <3>3 DEF WalkStands
  <2> QED BY <2>5, <2>6
<1>10. ASSUME NEW r \in Readers, pc[r] = "idle" PROVE WalkStands(r)'
  BY <1>2, <1>10 DEF WInv, WalkStands
<1> QED BY <1>8, <1>9, <1>10 DEF WInv

LEMMA InSequence == ASSUME NEW S, NEW s \in Seq(S) PROVE ToSet(s) = {s[i] : i \in 1..Len(s)}
<1>1. DOMAIN s = 1..Len(s)
  OBVIOUS
<1> QED BY <1>1 DEF ToSet

LEMMA ShownAppended ==
    ASSUME NEW s \in Seq(Nat), NEW t \in Seq(Nat)
    PROVE  s \o t \in Seq(Nat) /\ Len(s \o t) = Len(s) + Len(t) /\ ToSet(s \o t) = ToSet(s) \cup ToSet(t)
<1>1. s \o t \in Seq(Nat) /\ Len(s \o t) = Len(s) + Len(t) /\ Len(s) \in Nat /\ Len(t) \in Nat
  OBVIOUS
<1>2. \A i \in 1..Len(s) + Len(t) : (s \o t)[i] = IF i <= Len(s) THEN s[i] ELSE t[i - Len(s)]
  OBVIOUS
<1>3. /\ ToSet(s) = {s[i] : i \in 1..Len(s)} /\ ToSet(t) = {t[i] : i \in 1..Len(t)}
      /\ ToSet(s \o t) = {(s \o t)[i] : i \in 1..Len(s) + Len(t)}
  BY <1>1, InSequence
<1>4. ASSUME NEW v \in ToSet(s \o t) PROVE v \in ToSet(s) \cup ToSet(t)
  <2>1. PICK i \in 1..Len(s) + Len(t) : v = (s \o t)[i]
    BY <1>3
  <2>2. CASE i <= Len(s)
    <3>1. i \in 1..Len(s) /\ v = s[i]
      BY <1>1, <1>2, <2>1, <2>2
    <3> QED BY <1>3, <3>1
  <2>3. CASE ~(i <= Len(s))
    <3>1. i - Len(s) \in 1..Len(t) /\ v = t[i - Len(s)]
      BY <1>1, <1>2, <2>1, <2>3
    <3> QED BY <1>3, <3>1
  <2> QED BY <2>2, <2>3
<1>5. ASSUME NEW v \in ToSet(s) PROVE v \in ToSet(s \o t)
  <2>1. PICK i \in 1..Len(s) : v = s[i]
    BY <1>3
  <2>2. i \in 1..Len(s) + Len(t) /\ (s \o t)[i] = v
    BY <1>1, <1>2, <2>1
  <2> QED BY <1>3, <2>2
<1>6. ASSUME NEW v \in ToSet(t) PROVE v \in ToSet(s \o t)
  <2>1. PICK i \in 1..Len(t) : v = t[i]
    BY <1>3
  <2>2. Len(s) + i \in 1..Len(s) + Len(t) /\ ~(Len(s) + i <= Len(s)) /\ (Len(s) + i) - Len(s) = i
    BY <1>1, <2>1
  <2>3. (s \o t)[Len(s) + i] = v
    BY <1>2, <2>1, <2>2
  <2> QED BY <1>3, <2>2, <2>3
<1> QED BY <1>1, <1>4, <1>5, <1>6

\* The rows of the page a reader is about to get.
PageRows(r) == OnPage(Selected(r), Covered(r), pageSizeOf(query[r]))

\* An answer with the rows of its page continues the walk.
LEMMA PageContinuesWalk ==
    ASSUME IInv, WInv, NEW r \in Readers, pc[r] # "idle", ~Answered(r),
           pageSizeOf(query[r]) \in Nat, NEW ids \in Seq(Nat),
           Len(ids) = Cardinality(PageRows(r)), ToSet(ids) = IdsOf(PageRows(r)),
           rows' = rows, query'[r] = query[r], Answered(r)',
           walk'[r] = [walk[r] EXCEPT !.ids = walk[r].ids \o ids],
           total'[r] = Cardinality(Selected(r))
    PROVE  WalkStands(r)' /\ Shown(r)' \subseteq 1..Cardinality(rows)
<1> DEFINE M == Selected(r)
           d == Covered(r)
           size == pageSizeOf(query[r])
           N == OnPage(M, d, size)
           more == Shown(r) \cup IdsOf(N)
<1>1. /\ IsFiniteSet(Shown(r)) /\ Cardinality(Shown(r)) \in Nat /\ Len(walk[r].ids) \in Nat
      /\ IsTable(M) /\ Cardinality(NewRows(r)) \in Nat
      /\ d \in Int /\ pageOf(query[r]) \in Int /\ size \in Nat
  BY WalkNumbers
<1>2. Repeats(r) /\ NothingBehind(r)
  BY DEF WInv, WalkStands
<1>3. Covered(r)' = d + size /\ Seen(r)' = d + size
  <2> DEFINE p == pageOf(query[r])
  <2>1. Covered(r)' = p * size /\ d = (p - 1) * size /\ Seen(r)' = p * size
    BY DEF Covered, Pages, Seen
  <2>2. p * size = (p - 1) * size + size
    <3>1. p \in Int /\ size \in Int
      BY <1>1
    <3> HIDE DEF p, size
    <3> QED BY <3>1
  <2> QED BY <2>1, <2>2
<1>4. /\ walk[r] \in [ids : Seq(Nat), from : SUBSET StoredRow]
      /\ walk'[r].ids = walk[r].ids \o ids /\ walk'[r].from = walk[r].from
  BY DEF WInv, WalkTypes
<1>5. Len(walk'[r].ids) = Len(walk[r].ids) + Cardinality(N) /\ Shown(r)' = more
  <2>1. N = PageRows(r)
    BY DEF PageRows
  <2> HIDE DEF N
  <2> QED BY <1>4, <2>1, ShownAppended DEF Shown
<1>6. Selected(r)' = M /\ NewRows(r)' = NewRows(r)
  BY <1>4 DEF Selected, NewRows
<1>9. Repeats(r)'
  <2>1. Len(walk[r].ids) + Cardinality(AheadOf(M, Shown(r), d))
          <= Cardinality(Shown(r)) + Cardinality(NewRows(r))
    BY <1>2 DEF Repeats
  <2>2. Len(walk[r].ids) + Cardinality(N) + Cardinality(AheadOf(M, more, d + size))
          <= Cardinality(more) + Cardinality(NewRows(r))
    <3>1. more = Shown(r) \cup IdsOf(OnPage(M, d, size))
      OBVIOUS
    <3> HIDE DEF M, d, size, more
    <3> QED BY <1>1, <2>1, <3>1, RepeatsBalance
  <2> HIDE DEF M, N, d, size, more
  <2> QED BY <1>3, <1>5, <1>6, <2>2 DEF Repeats
<1>10. \A x \in M : Position(x, M) \in 1..Cardinality(M) /\ Cardinality(M) \in Nat
  <2> HIDE DEF M
  <2> QED BY <1>1, PositionFacts
<1>11. ASSUME query[r].walks, NEW x \in Matching(query[r], walk[r].from), Position(x, M) <= d + size
       PROVE  x.id \in more
  <2>1. x \in M
    BY DEF WInv, WalkTypes, Selected, Matching
  <2>2. CASE Position(x, M) <= d
    BY <1>2, <1>11, <2>2 DEF NothingBehind
  <2>3. CASE d < Position(x, M)
    BY <1>11, <2>1, <2>3 DEF OnPage, IdsOf
  <2>4. Position(x, M) \in Int
    BY <1>10, <2>1
  <2> HIDE DEF d, M, more
  <2> QED BY <1>1, <2>2, <2>3, <2>4
<1>12. NothingBehind(r)'
  BY <1>3, <1>4, <1>5, <1>6, <1>11 DEF NothingBehind
<1>13. AllAtTheEnd(r)'
  <2> SUFFICES ASSUME query[r].walks, d + size >= Cardinality(M), NEW x \in Matching(query[r], walk[r].from)
               PROVE  x.id \in more
    BY <1>3, <1>4, <1>5 DEF AllAtTheEnd
  <2>1. x \in M
    BY DEF WInv, WalkTypes, Selected, Matching
  <2>2. Position(x, M) <= d + size
    <3>1. Position(x, M) \in 1..Cardinality(M) /\ Cardinality(M) \in Nat
      BY <1>10, <2>1
    <3> HIDE DEF M, d, size
    <3> QED BY <1>1, <3>1
  <2> QED BY <1>11, <2>2
<1>14. Shown(r)' \subseteq 1..Cardinality(rows)
  <2>1. Shown(r) \subseteq 1..Cardinality(rows)
    BY DEF WInv, WalkTypes
  <2>2. IdsOf(N) \subseteq 1..Cardinality(rows)
    <3>1. N \subseteq rows /\ \A x \in rows : x.id \in 1..Cardinality(rows)
      BY DEF OnPage, Selected, Matching, IInv, TypeOK
    <3> HIDE DEF N
    <3> QED BY <3>1 DEF IdsOf
  <2> QED BY <1>5, <2>1, <2>2
<1>15. pc'[r] # "idle"
  BY DEF Answered
<1> QED BY <1>9, <1>12, <1>13, <1>14, <1>15 DEF WalkStands

LEMMA RequestStartsWalk == \A r \in Readers : IInv /\ WInv /\ Request(r) => WInv'
<1> SUFFICES ASSUME NEW r \in Readers, IInv, WInv, Request(r) PROVE WInv'
  OBVIOUS
<1>1. PICK q \in Queries : query' = [query EXCEPT ![r] = q]
  BY DEF Request
<1>2. /\ pc' = [pc EXCEPT ![r] = "resolve"] /\ walk' = [walk EXCEPT ![r] = [ids |-> << >>, from |-> rows]]
      /\ UNCHANGED <<rows, status, total>>
  BY DEF Request, Goto
<1>3. IsTable(rows) /\ walk \in [Readers -> [ids : Seq(Nat), from : SUBSET StoredRow]]
  BY DEF WInv, WalkTypes
<1>4. walk' \in [Readers -> [ids : Seq(Nat), from : SUBSET StoredRow]]
  <2>1. [ids |-> << >>, from |-> rows] \in [ids : Seq(Nat), from : SUBSET StoredRow]
    BY <1>3 DEF IsTable
  <2> QED BY <1>2, <1>3, <2>1
<1>5. /\ walk'[r] = [ids |-> << >>, from |-> rows] /\ query'[r] = q
      /\ pc'[r] = "resolve" /\ q \in Asked
  BY <1>1, <1>2, <1>3, QueriesAreAsked DEF IInv, TypeOK, Functions
<1>6. walk'[r].ids = << >> /\ walk'[r].from = rows /\ ~Answered(r)'
  BY <1>5 DEF Answered
<1>7. Shown(r)' = {}
  BY <1>6 DEF Shown, ToSet
<1>8. IsTable(Matching(q, rows))
  BY <1>3, TablePart DEF Matching
<1>9. Repeats(r)'
  <2>1. NewRows(r)' = {}
    BY <1>2, <1>6 DEF NewRows, Matching
  <2>2. AheadOf(Selected(r)', {}, Covered(r)') = {}
    BY DEF AheadOf
  <2>3. Len(<< >>) = 0 /\ Cardinality({}) = 0
    BY FS_EmptySet
  <2>4. Len(walk'[r].ids) = 0 /\ Cardinality(Shown(r)') = 0 /\ Cardinality(NewRows(r)') = 0
    BY <1>6, <1>7, <2>1, <2>3
  <2>5. Cardinality(AheadOf(Selected(r)', Shown(r)', Covered(r)')) = 0
    BY <1>7, <2>2, <2>3
  <2>6. Len(walk'[r].ids) + Cardinality(AheadOf(Selected(r)', Shown(r)', Covered(r)'))
          <= Cardinality(Shown(r)') + Cardinality(NewRows(r)')
    BY <2>4, <2>5
  <2> QED BY <2>6 DEF Repeats
<1>10. NothingBehind(r)'
  <2> SUFFICES ASSUME q.walks, NEW x \in Matching(q, rows), Position(x, Matching(q, rows)) <= Covered(r)'
               PROVE  FALSE
    BY <1>2, <1>5, <1>6 DEF NothingBehind, Selected
  <2>1. Covered(r)' = (pageOf(q) - 1) * pageSizeOf(q)
    BY <1>5, <1>6 DEF Covered, Pages
  <2>2. pageOf(q) = 1
    BY QueriesAssumption
  <2>3. pageSizeOf(q) \in Int
    BY <1>5, PageSizesAssumption DEF Asked, OptionalInt, pageSizeOf
  <2>4. Covered(r)' = 0
    BY <2>1, <2>2, <2>3
  <2>5. Position(x, Matching(q, rows)) \in 1..Cardinality(Matching(q, rows))
    BY <1>8, PositionFacts
  <2> QED BY <2>4, <2>5
<1>11. WalkStands(r)'
  BY <1>5, <1>6, <1>9, <1>10 DEF WalkStands, AllAtTheEnd
<1>12. \A s \in Readers \ {r} : /\ pc'[s] = pc[s] /\ query'[s] = query[s] /\ status'[s] = status[s]
                                /\ total'[s] = total[s] /\ walk'[s] = walk[s]
  BY <1>1, <1>2, <1>3 DEF IInv, TypeOK, Functions
<1> QED BY <1>2, <1>4, <1>6, <1>7, <1>11, <1>12, OneWalk

\* The steps of a reader that answer no page.
LEMMA WaitingKeepsWalks ==
    ASSUME IInv, WInv, NEW r \in Readers, pc[r] # "idle", rows' = rows, walk' = walk, query' = query,
           ~Answered(r), ~Answered(r)', pc'[r] # "idle",
           \A s \in Readers \ {r} : pc'[s] = pc[s] /\ status'[s] = status[s] /\ total'[s] = total[s]
    PROVE  WInv'
<1>1. Covered(r)' = Covered(r)
  BY DEF Covered, Pages
<1>2. WalkStands(r)'
  BY <1>1, NoPageYet DEF WInv
<1>3. walk \in [Readers -> [ids : Seq(Nat), from : SUBSET StoredRow]]
  BY DEF WInv, WalkTypes
<1>4. walk'[r].from \subseteq rows /\ Shown(r)' \subseteq 1..Cardinality(rows)
  BY DEF WInv, WalkTypes, Shown
<1> QED BY <1>2, <1>3, <1>4, OneWalk

\* An answered page.
LEMMA AnswerKeepsWalks ==
    ASSUME IInv, WInv, NEW r \in Readers, pc[r] \in {"count", "find"}, NEW ids \in Seq(Nat),
           Len(ids) = Cardinality(PageRows(r)), ToSet(ids) = IdsOf(PageRows(r)),
           Answer(r, ids), rows' = rows, query' = query, total'[r] = Cardinality(Selected(r)),
           \A s \in Readers \ {r} : total'[s] = total[s]
    PROVE  WInv'
<1>1. /\ pc' = [pc EXCEPT ![r] = "answered"] /\ status' = [status EXCEPT ![r] = 200]
      /\ walk' = [walk EXCEPT ![r].ids = walk[r].ids \o ids]
  BY DEF Answer, Goto
<1>2. walk \in [Readers -> [ids : Seq(Nat), from : SUBSET StoredRow]] /\ walk[r].from \subseteq rows
  BY DEF WInv, WalkTypes
<1>3. walk'[r] = [walk[r] EXCEPT !.ids = walk[r].ids \o ids]
  BY <1>1, <1>2
<1>4. walk' \in [Readers -> [ids : Seq(Nat), from : SUBSET StoredRow]]
  <2>1. walk[r].ids \o ids \in Seq(Nat)
    BY <1>2, ShownAppended
  <2>2. [walk[r] EXCEPT !.ids = walk[r].ids \o ids] \in [ids : Seq(Nat), from : SUBSET StoredRow]
    BY <1>2, <2>1
  <2>3. walk' = [walk EXCEPT ![r] = [walk[r] EXCEPT !.ids = walk[r].ids \o ids]]
    BY <1>1
  <2> QED BY <1>2, <2>2, <2>3
<1>5. Answered(r)' /\ ~Answered(r)
  BY <1>1 DEF Answered, IInv, TypeOK
<1>6. query[r] \in Asked /\ ~refused(query[r])
  BY DEF IInv, ReadsAreInOrder
<1>7. pageSizeOf(query[r]) \in Nat
  BY <1>6, PageSizesAssumption DEF refused, invalidPagination, Asked, OptionalInt, pageSizeOf
<1>8. WalkStands(r)' /\ Shown(r)' \subseteq 1..Cardinality(rows)
  BY <1>3, <1>5, <1>7, PageContinuesWalk
<1>9. walk'[r].from \subseteq rows
  BY <1>2, <1>3
<1>10. \A s \in Readers \ {r} : /\ pc'[s] = pc[s] /\ query'[s] = query[s] /\ status'[s] = status[s]
                                /\ total'[s] = total[s] /\ walk'[s] = walk[s]
  BY <1>1, <1>2 DEF IInv, TypeOK
<1> QED BY <1>4, <1>8, <1>9, <1>10, OneWalk

LEMMA StepKeepsWalks == IInv /\ WInv /\ [Next]_vars => WInv'
<1> SUFFICES ASSUME IInv, WInv, [Next]_vars PROVE WInv'
  OBVIOUS
<1>0. pc \in [Readers -> {"idle", "resolve", "begin", "count", "find", "answered"}]
      /\ status \in [Readers -> {0, 200, 400, 500, 503}] /\ total = [r \in Readers |-> total[r]]
  BY DEF IInv, TypeOK, Functions
<1>1. CASE Ingest
  BY <1>1, IngestKeepsWalks
<1>2. ASSUME NEW r \in Readers, Request(r) PROVE WInv'
  BY <1>2, RequestStartsWalk
<1>3. ASSUME NEW r \in Readers, Resolve(r) PROVE WInv'
  <2>1. pc[r] = "resolve" /\ query[r] \in Asked /\ UNCHANGED <<rows, query, total, walk>>
    BY <1>3 DEF Resolve, IInv, ReadsAreInOrder
  <2>2. CASE statusBeforeRead(query[r]) = 0
    <3>1. pc' = [pc EXCEPT ![r] = "begin"] /\ status' = status
      BY <1>3, <2>2 DEF Resolve, Goto
    <3> QED BY <1>0, <2>1, <3>1, WaitingKeepsWalks DEF Answered
  <2>3. CASE statusBeforeRead(query[r]) # 0
    <3>1. pc' = [pc EXCEPT ![r] = "answered"] /\ status' = [status EXCEPT ![r] = 400]
      BY <1>3, <2>1, <2>3, EarlyStatus DEF Resolve, Goto
    <3> QED BY <1>0, <2>1, <3>1, WaitingKeepsWalks DEF Answered
  <2> QED BY <2>2, <2>3
<1>4. ASSUME NEW r \in Readers, Begin(r) PROVE WInv'
  <2>1. /\ pc[r] = "begin" /\ pc' = [pc EXCEPT ![r] = "count"]
        /\ UNCHANGED <<rows, query, status, total, walk>>
    BY <1>4 DEF Begin, Goto
  <2> QED BY <1>0, <2>1, WaitingKeepsWalks DEF Answered
<1>5. ASSUME NEW r \in Readers, Count(r) PROVE WInv'
  <2> DEFINE n == Cardinality(Matching(query[r], rows))
  <2>1. pc[r] = "count" /\ total' = [total EXCEPT ![r] = n] /\ UNCHANGED <<rows, query>>
    BY <1>5 DEF Count
  <2>2. total'[r] = n /\ \A s \in Readers \ {r} : total'[s] = total[s]
    BY <1>0, <2>1
  <2>3. CASE n = 0
    <3>1. Answer(r, << >>)
      BY <1>5, <2>3 DEF Count
    <3>2. Selected(r) = {}
      <4>1. IsFiniteSet(Selected(r)) /\ Cardinality(Selected(r)) = 0
        BY <2>3, WalkNumbers DEF IsTable, Selected
      <4> QED BY <4>1, FS_EmptySet
    <3>3. PageRows(r) = {}
      BY <3>2 DEF PageRows, OnPage
    <3>4. << >> \in Seq(Nat) /\ Len(<< >>) = Cardinality(PageRows(r)) /\ ToSet(<< >>) = IdsOf(PageRows(r))
      BY <3>3, FS_EmptySet DEF ToSet, IdsOf
    <3> QED BY <2>1, <2>2, <3>1, <3>4, AnswerKeepsWalks DEF Selected
  <2>4. CASE n # 0
    <3>1. pc' = [pc EXCEPT ![r] = "find"] /\ UNCHANGED <<walk, status>>
      BY <1>5, <2>4 DEF Count, Goto
    <3> QED BY <1>0, <2>1, <2>2, <3>1, WaitingKeepsWalks DEF Answered
  <2> QED BY <2>3, <2>4
<1>6. ASSUME NEW r \in Readers, Find(r) PROVE WInv'
  <2> DEFINE q == query[r]
             ids == Slice(Ordered(q, rows), offsetOf(q), pageSizeOf(q))
  <2>1. /\ pc[r] = "find" /\ Answer(r, ids) /\ UNCHANGED <<rows, query, total>>
        /\ q \in Asked /\ ~refused(q) /\ total[r] = Cardinality(Selected(r))
    BY <1>6 DEF Find, FindAndRelease, IInv, ReadsAreInOrder, CountStands, Selected
  <2>2. offsetOf(q) = (pageOf(q) - 1) * pageSizeOf(q) /\ offsetOf(q) \in Nat
    BY <2>1, OffsetIsExact, PageSizesAssumption
  <2>3. pageSizeOf(q) \in Nat
    BY <2>1, PageSizesAssumption DEF refused, invalidPagination, Asked, OptionalInt, pageSizeOf
  <2>4. Covered(r) = offsetOf(q)
    BY <2>1, <2>2 DEF Covered, Pages, Answered
  <2>5. IsTable(rows)
    BY DEF WInv, WalkTypes
  <2> HIDE DEF q
  <2>6. PageRows(r) = OnPage(Matching(q, rows), offsetOf(q), pageSizeOf(q))
    BY <2>4 DEF PageRows, Selected, q
  <2>8. /\ ids \in Seq(Nat) /\ Len(ids) = Cardinality(PageRows(r))
        /\ ToSet(ids) = IdsOf(PageRows(r))
    BY <2>2, <2>3, <2>5, <2>6, PageFacts
  <2> HIDE DEF ids
  <2> QED BY <2>1, <2>8, AnswerKeepsWalks DEF q
<1>7. ASSUME NEW r \in Readers, ReadFails(r) PROVE WInv'
  <2>1. PICK s \in {500, 503} : status' = [status EXCEPT ![r] = s]
    BY <1>7 DEF ReadFails
  <2>2. /\ pc[r] \in {"begin", "count", "find"} /\ pc' = [pc EXCEPT ![r] = "answered"]
        /\ UNCHANGED <<rows, query, total, walk>>
    BY <1>7 DEF ReadFails, Goto
  <2> QED BY <1>0, <2>1, <2>2, WaitingKeepsWalks DEF Answered
<1>8. ASSUME NEW r \in Readers, NextPage(r) PROVE WInv'
  <2> DEFINE q == query[r]
             p == pageOf(q)
  <2>1. /\ Answered(r) /\ pc' = [pc EXCEPT ![r] = "resolve"]
        /\ query' = [query EXCEPT ![r] = [q EXCEPT !.page = p + 1]]
        /\ UNCHANGED <<rows, status, total, walk>>
    BY <1>8 DEF NextPage, Goto, Answered
  <2>2. q \in Asked /\ p \in Int /\ pageSizeOf(q) \in Int
    BY <2>1, WalkNumbers DEF Answered
  <2>3. query'[r] = [q EXCEPT !.page = p + 1] /\ \A s \in Readers \ {r} : query'[s] = query[s]
    BY <2>1 DEF IInv, Functions
  <2>4. /\ query'[r].walks = q.walks /\ query'[r].page_size = q.page_size /\ query'[r].page = p + 1
        /\ listFilter(query'[r]) = listFilter(q)
    BY <2>2, <2>3 DEF Asked, listFilter
  <2>5. pageOf(query'[r]) = p + 1 /\ pageSizeOf(query'[r]) = pageSizeOf(q)
    <3>1. p + 1 # Nil
      BY <2>2, NilAssumption
    <3> QED BY <2>4, <3>1 DEF pageOf, pageSizeOf
  <2>6. ~Answered(r)' /\ pc'[r] = "resolve" /\ pc[r] # "idle"
    BY <1>0, <2>1 DEF Answered
  <2>7. Covered(r)' = Covered(r)
    <3>1. Pages(r)' = pageOf(query'[r]) - 1
      BY <2>6 DEF Pages
    <3>2. Pages(r) = p
      BY <2>1 DEF Pages
    <3>3. Pages(r)' = (p + 1) - 1
      BY <2>5, <3>1
    <3>4. (p + 1) - 1 = p
      <4> HIDE DEF p
      <4> QED BY <2>2
    <3>5. Pages(r)' = Pages(r) /\ pageSizeOf(query'[r]) = pageSizeOf(query[r])
      BY <2>5, <3>2, <3>3, <3>4, Zenon
    <3> QED BY <3>5 DEF Covered
  <2>8. WalkStands(r)'
    BY <2>1, <2>4, <2>6, <2>7, NoPageYet DEF WInv
  <2>9. /\ walk' \in [Readers -> [ids : Seq(Nat), from : SUBSET StoredRow]]
        /\ walk'[r].from \subseteq rows /\ Shown(r)' \subseteq 1..Cardinality(rows)
    BY <2>1 DEF WInv, WalkTypes, Shown
  <2>10. \A s \in Readers \ {r} : /\ pc'[s] = pc[s] /\ query'[s] = query[s] /\ status'[s] = status[s]
                                  /\ total'[s] = total[s] /\ walk'[s] = walk[s]
    BY <1>0, <2>1, <2>3
  <2> QED BY <2>1, <2>8, <2>9, <2>10, OneWalk
<1>9. CASE UNCHANGED vars
  <2>1. UNCHANGED <<rows, pc, query, status, total, walk>>
    BY <1>9 DEF vars
  <2>2. \A r \in Readers : WalkStands(r)'
    BY <2>1, OtherWalk DEF WInv
  <2> QED BY <2>1, <2>2 DEF WInv, WalkTypes, Shown
<1> QED BY <1>1, <1>2, <1>3, <1>4, <1>5, <1>6, <1>7, <1>8, <1>9 DEF Next, Read

LEMMA WalksStand == Spec => []WInv
BY InitInv, StepInv, InitWalks, StepKeepsWalks, PTL DEF Spec

(* Paging misses nothing: a client that goes from the first page to the    *)
(* last sees every row that matched when it began, whatever is ingested    *)
(* meanwhile (log_query.go, ORDER BY with LIMIT and OFFSET).               *)
THEOREM WalksMissNothing == Spec => []NothingIsMissed
<1>1. IInv /\ WInv => NothingIsMissed
  <2> SUFFICES ASSUME IInv, WInv, NEW r \in Readers, Walked(r)
               PROVE  ToSet(Ordered(query[r], walk[r].from)) \subseteq ToSet(walk[r].ids)
    BY DEF NothingIsMissed
  <2>1. \A x \in Matching(query[r], walk[r].from) : x.id \in Shown(r)
    BY DEF Walked, Answered, WInv, WalkStands, AllAtTheEnd
  <2>2. IsTable(walk[r].from)
    BY TablePart DEF WInv, WalkTypes
  <2>3. ToSet(Ordered(query[r], walk[r].from)) = {x.id : x \in Matching(query[r], walk[r].from)}
    BY <2>2, OrderedFacts
  <2> QED BY <2>1, <2>3 DEF Shown
<1> QED BY <1>1, Invariance, WalksStand, PTL

(* A walk shows no more rows twice than came in behind its back (the ids   *)
(* in ORDER BY keep the others in their places).                           *)
THEOREM RepeatsAreShifts == Spec => []OnlyShiftedAreRepeated
<1>1. IInv /\ WInv => OnlyShiftedAreRepeated
  <2> SUFFICES ASSUME IInv, WInv, NEW r \in Readers, walk[r].ids # << >>
               PROVE  Len(walk[r].ids) - Cardinality(ToSet(walk[r].ids))
                        <= Cardinality(Matching(query[r], rows \ walk[r].from))
    BY DEF OnlyShiftedAreRepeated
  <2> DEFINE A == AheadOf(Selected(r), Shown(r), Covered(r))
  <2>1. Repeats(r)
    BY DEF WInv, WalkStands
  <2>2. /\ Cardinality(Shown(r)) \in Nat /\ Len(walk[r].ids) \in Nat
        /\ IsTable(Selected(r)) /\ Cardinality(NewRows(r)) \in Nat
    BY WalkNumbers
  <2>3. Cardinality(A) \in Nat
    <3>1. A \in SUBSET Selected(r)
      BY DEF AheadOf
    <3>2. IsFiniteSet(A)
      BY <2>2, <3>1, FS_Subset DEF IsTable
    <3> QED BY <3>2, FS_CardinalityType
  <2>4. Len(walk[r].ids) + Cardinality(A) <= Cardinality(Shown(r)) + Cardinality(NewRows(r))
    BY <2>1 DEF Repeats
  <2> HIDE DEF A
  <2>5. Len(walk[r].ids) - Cardinality(Shown(r)) <= Cardinality(NewRows(r))
    BY <2>2, <2>3, <2>4
  <2> QED BY <2>5 DEF Shown, NewRows
<1> QED BY <1>1, Invariance, WalksStand, PTL

(* A stored event is found under the words it was submitted with (the      *)
(* filters of query_service.go against normalize.go).                      *)
THEOREM SubmissionsAreFound == Spec => []SubmittedIsFound
<1>1. WInv => SubmittedIsFound
  <2> SUFFICES ASSUME WInv, NEW row \in rows
               PROVE  LET q == WordsOf(Input[row.event])
                      IN  ~refused(q) /\ Selects(listFilter(q), row)
    BY DEF SubmittedIsFound
  <2> DEFINE input == Input[row.event]
             q == WordsOf(input)
             log == NormalizedEvent(input)
  <2>1. row.event \in Events /\ Kind(row.event) = "stored"
    BY DEF WInv, WalkTypes, IsTable, StoredRow
  <2>2. Log(row) = log /\ input.logged_at.instant \in Int
    BY <2>1, StoredLog, InstantsAssumption DEF Log
  <2>3. ~refused(q)
    <3>1. MaxInt \in Nat /\ DefaultPageSize \in 1..MaxPageSize /\ MaxPageSize \in 1..MaxInt
      BY PageSizesAssumption
    <3>2. pageOf(q) = 1 /\ pageSizeOf(q) = DefaultPageSize
      BY DEF WordsOf, pageOf, pageSizeOf
    <3>3. 1 - 1 <= MaxInt \div DefaultPageSize
      BY <3>1
    <3>4. ~invalidPagination(q)
      BY <3>1, <3>2, <3>3 DEF invalidPagination
    <3>5. ~malformed(q) /\ ~badRange(q)
      BY <2>2 DEF malformed, badRange, WordsOf
    <3> QED BY <3>4, <3>5 DEF refused
  <2>4. Selects(listFilter(q), row)
    <3> DEFINE i == input.logged_at.instant
               f == listFilter(q)
    <3>1. /\ f.container = log.container_name /\ f.service = log.service
          /\ f.start = input.logged_at /\ f.end = input.logged_at
      BY DEF listFilter, WordsOf, NormalizedEvent
    <3>2. IsEmpty(f.level) \/ log.level = f.level
      BY DEF listFilter, WordsOf, NormalizedEvent, normalizeQueryLevel, IsEmpty, Plain, Text
    <3>3. ~Earlier(i, i)
      <4>1. TextRank(i) \in 0..3
        BY <2>2, InstantsInOrder DEF TextRank
      <4> QED BY <2>2, <4>1 DEF Earlier
    <3>4. log.logged_at = i
      BY DEF NormalizedEvent
    <3>5. /\ f.container = Log(row).container_name /\ f.service = Log(row).service
          /\ f.start.instant = i /\ f.end.instant = i /\ Log(row).logged_at = i
          /\ (IsEmpty(f.level) \/ Log(row).level = f.level)
      BY <2>2, <3>1, <3>2, <3>4
    <3> HIDE DEF i, f
    <3>6. Selects(f, row)
      BY <3>3, <3>5 DEF Selects
    <3> QED BY <3>6 DEF f
  <2> QED BY <2>3, <2>4
<1> QED BY <1>1, WalksStand, PTL

=============================================================================

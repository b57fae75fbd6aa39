------------------------- MODULE IngestionApiProofs -------------------------
(***************************************************************************)
(* What IngestionApi guarantees for any number of requests, any events and *)
(* calls, and any bounds.  The argument: the connection has one owner, so  *)
(* what a transaction has inserted stays disjoint from the table until it  *)
(* commits; a commit therefore adds each key once and, together with the   *)
(* table, all keys of its call; and only a commit, or a call without valid *)
(* events, decides on a success.                                           *)
(*                                                                         *)
(* The last part is about the key itself, for any two deliveries of any    *)
(* texts: trimming and folding keep of a field exactly what the identity   *)
(* of an event depends on, so two stored deliveries share an event_id when *)
(* and only when they are one event, and a respelled delivery passes and   *)
(* fails the same checks.                                                  *)
(***************************************************************************)
EXTENDS IngestionApi, EventResubmission, FoldLemmas,
        FiniteSetTheorems, WellFoundedInduction, TLAPS

-----------------------------------------------------------------------------
(* The inductive invariant.                                                *)

\* Whoever is inside a transaction holds the connection, and nobody else.
OneOwner == \A r \in Requests : pc[r] \in {"insert", "commit"} <=> conn = r

\* What the open transaction holds.
TxHolds ==
    /\ conn = Nobody => tx = {}
    /\ \A r \in Requests : /\ pc[r] = "insert" => tx = {}
                           /\ pc[r] = "commit" => tx = FreshRows(r)

\* Only a request that was made is handled.
CallIsMade == \A r \in Requests : pc[r] # "idle" => call[r] \in Calls

\* Every row comes from a call that has committed all of its keys and that,
\* if it is answered at all, is answered with a success.
RowsAreExplained ==
    \A row \in rows :
        /\ pc[row.request] \in {"respond", "answered", "lost"}
        /\ KeysOf(call[row.request].events) \subseteq KeysIn(rows)
        /\ Replied(row.request) => Confirmed(row.request)

IInv ==
    /\ TypeOK
    /\ OneOwner
    /\ TxHolds
    /\ CallIsMade
    /\ RowsAreExplained
    /\ NoDuplicateEventID
    /\ ConfirmedIsStored

-----------------------------------------------------------------------------
(* Facts about the operators.                                              *)

LEMMA LeastElement ==
    ASSUME NEW S \in SUBSET Nat, S # {}
    PROVE  \E m \in S : \A k \in S : m <= k
<1>1. IsWellFoundedOn(OpToRel(<, Nat), Nat)
  BY NatLessThanWellFounded, Zenon DEF OpToRel
<1>2. \E m \in S : \A k \in S : ~(<<k, m>> \in OpToRel(<, Nat))
  BY <1>1, WFMin, Zenon DEF OpToRel
<1>3. PICK m \in S : \A k \in S : ~(k < m)
  BY <1>2 DEF OpToRel
<1>4. QED BY <1>3

LEMMA CallType ==
    ASSUME NEW c \in Calls
    PROVE  /\ c.events \in Seq(Events)
           /\ c.endpoint \in {"one", "bulk"}
           /\ Len(c.events) \in Nat
           /\ DOMAIN c.events = 1..Len(c.events)
           /\ \A i \in DOMAIN c.events : c.events[i] \in Events
           /\ Valid(c.events) \subseteq Nat
BY CallsAssumption DEF Valid

LEMMA CountsType ==
    ASSUME NEW c \in Calls
    PROVE  /\ IsFiniteSet(Valid(c.events))
           /\ Cardinality(Valid(c.events)) \in Nat
           /\ Cardinality(Rejected(c.events)) \in Nat
<1>1. IsFiniteSet(1..Len(c.events))
  BY CallType, FS_Interval
<1>2. IsFiniteSet(Valid(c.events)) /\ IsFiniteSet(Rejected(c.events))
  BY <1>1, CallType, FS_Subset DEF Valid, Rejected
<1>3. QED BY <1>2, FS_CardinalityType

\* The rows an insert adds are new, are different from each other, and with
\* the table they cover the call.
LEMMA FreshRowsCover ==
    ASSUME NEW r \in Requests, call[r] \in Calls
    PROVE  /\ \A row \in FreshRows(r) : /\ row.request = r
                                        /\ row.event \in Events
                                        /\ row.event_id = Key(row.event)
                                        /\ row.event_id \notin KeysIn(rows)
           /\ \A a, b \in FreshRows(r) : a.event_id = b.event_id => a = b
           /\ KeysOf(call[r].events) \subseteq KeysIn(rows \cup FreshRows(r))
<1> DEFINE events == call[r].events
           F == Fresh(events, rows)
<1>1. F \subseteq Valid(events) /\ Valid(events) \subseteq DOMAIN events /\ Valid(events) \subseteq Nat
  BY CallType DEF Fresh, Valid
<1>2. \A i \in F : /\ Row(r, i).request = r
                   /\ Row(r, i).event = events[i]
                   /\ Row(r, i).event_id = Key(events[i])
                   /\ events[i] \in Events
                   /\ Key(events[i]) \notin KeysIn(rows)
  BY <1>1, CallType DEF Row, Fresh
<1>3. \A i, j \in F : Key(events[i]) = Key(events[j]) => i = j
  BY <1>1 DEF Fresh
<1>4. ASSUME NEW i \in Valid(events), Key(events[i]) \notin KeysIn(rows)
      PROVE  \E j \in F : Key(events[j]) = Key(events[i])
  <2> DEFINE Same == {j \in Valid(events) : Key(events[j]) = Key(events[i])}
  <2>1. Same \in SUBSET Nat /\ Same # {}
    BY <1>1, <1>4
  <2>2. PICK m \in Same : \A k \in Same : m <= k
    <3> HIDE DEF Same
    <3> QED BY <2>1, LeastElement
  <2>3. m \in F
    BY <1>1, <1>4, <2>2 DEF Fresh
  <2>4. QED BY <2>2, <2>3
<1>5. KeysOf(events) \subseteq KeysIn(rows \cup FreshRows(r))
  BY <1>2, <1>4 DEF KeysOf, KeysIn, FreshRows
<1>6. QED BY <1>2, <1>3, <1>5 DEF FreshRows

LEMMA FreshRowsCount ==
    ASSUME NEW r \in Requests, call[r] \in Calls
    PROVE  Cardinality(FreshRows(r)) \in Nat
<1> DEFINE F == Fresh(call[r].events, rows)
           f == [i \in F |-> Row(r, i)]
<1>1. IsFiniteSet(F)
  BY CountsType, FS_Subset DEF Fresh
<1>2. f \in Surjection(F, FreshRows(r))
  BY DEF FreshRows, Surjection
<1>3. QED BY <1>1, <1>2, FS_Surjection, FS_CardinalityType

-----------------------------------------------------------------------------
(* Each conjunct of the invariant survives every step.                     *)

LEMMA StatusType ==
    ASSUME NEW c \in Calls, NEW n \in Nat
    PROVE  /\ StoredReply(c, n) \in Replies
           /\ StoredReply(c, n).status \in Success
           /\ RefusedAs(c) # 0 =>
                  Failure(RefusedAs(c)) \in Replies /\ Failure(RefusedAs(c)).status \notin Success
           /\ \A status \in {500, 503} :
                  Failure(status) \in Replies /\ Failure(status).status \notin Success
<1>1. Cardinality(Valid(c.events)) \in Nat /\ Cardinality(Rejected(c.events)) \in Nat
      /\ Len(c.events) \in Nat
  BY CountsType, CallType
<1>2. StoredReply(c, n) \in Replies /\ StoredReply(c, n).status \in Success
  BY <1>1 DEF StoredReply, Reply, Replies, Success
<1>3. RefusedAs(c) \in {0, 400, 413}
  BY DEF RefusedAs
<1>4. QED BY <1>2, <1>3 DEF Failure, Reply, Replies, Success

LEMMA StorageStatusType ==
    ASSUME NEW code \in SQLiteCodes PROVE StorageStatus(code) \in {500, 503}
BY CodesAssumption DEF StorageStatus, isTemporarySQLiteError

LEMMA TypeOKStep == IInv /\ [Next]_vars => TypeOK'
<1> SUFFICES ASSUME IInv, [Next]_vars PROVE TypeOK'
  OBVIOUS
<1>0. TypeOK /\ TxHolds /\ CallIsMade
  BY DEF IInv
<1>1. ASSUME NEW r \in Requests, Submit(r) PROVE TypeOK'
  BY <1>0, <1>1 DEF TypeOK, Submit, Goto, process
<1>2. ASSUME NEW r \in Requests, ClientGivesUp(r) PROVE TypeOK'
  BY <1>0, <1>2 DEF TypeOK, ClientGivesUp, process
<1>3. ASSUME NEW r \in Requests, LoadFlag(r) PROVE TypeOK'
  <2>1. Failure(503) \in Replies
    BY DEF Failure, Reply, Replies
  <2>2. QED BY <1>0, <1>3, <2>1 DEF TypeOK, LoadFlag, RespondWith, Goto, process
<1>4. ASSUME NEW r \in Requests, Ping(r) PROVE TypeOK'
  BY <1>0, <1>4 DEF TypeOK, Ping, Goto, process
<1>5. ASSUME NEW r \in Requests, Handle(r) PROVE TypeOK'
  <2>1. call[r] \in Calls
    BY <1>0, <1>5 DEF CallIsMade, Handle
  <2>2. /\ RefusedAs(call[r]) # 0 => Failure(RefusedAs(call[r])) \in Replies
        /\ Failure(500) \in Replies
        /\ StoredReply(call[r], 0) \in Replies
    BY <2>1, StatusType
  <2>3. QED BY <1>0, <1>5, <2>2 DEF TypeOK, Handle, RespondWith, Goto, process
<1>6. ASSUME NEW r \in Requests, Begin(r) PROVE TypeOK'
  BY <1>0, <1>6 DEF TypeOK, Begin, Goto, process
<1>7. ASSUME NEW r \in Requests, Insert(r) PROVE TypeOK'
  <2>1. call[r] \in Calls
    BY <1>0, <1>7 DEF CallIsMade, Insert
  <2>2. \A row \in FreshRows(r) :
            row.event \in Events /\ row.request \in Requests /\ row.event_id = Key(row.event)
    BY <2>1, FreshRowsCover
  <2>3. QED BY <1>0, <1>7, <2>2 DEF TypeOK, Insert, Goto, process
<1>8. ASSUME NEW r \in Requests, Commit(r) PROVE TypeOK'
  <2>1. call[r] \in Calls /\ tx = FreshRows(r)
    BY <1>0, <1>8 DEF CallIsMade, TxHolds, Commit
  <2>2. StoredReply(call[r], Cardinality(tx)) \in Replies
    BY <2>1, FreshRowsCount, StatusType
  <2>3. QED BY <1>0, <1>8, <2>2 DEF TypeOK, Commit, RespondWith, Goto, process
<1>9. ASSUME NEW r \in Requests, Respond(r) PROVE TypeOK'
  BY <1>0, <1>9 DEF TypeOK, Respond, Goto, process
<1>10. ASSUME NEW r \in Requests, StorageFails(r) PROVE TypeOK'
  <2>1. \A code \in SQLiteCodes : Failure(StorageStatus(code)) \in Replies
    BY StorageStatusType DEF Failure, Reply, Replies
  <2>2. Failure(503) \in Replies
    BY DEF Failure, Reply, Replies
  <2>3. QED BY <1>0, <1>10, <2>1, <2>2, BoundsAssumption
            DEF TypeOK, StorageFails, GiveBack, RespondWith, Goto, process
<1>11. ASSUME NEW r \in Requests, NoticeCancel(r) PROVE TypeOK'
  <2>1. Failure(500) \in Replies /\ Failure(503) \in Replies
    BY DEF Failure, Reply, Replies
  <2>2. QED BY <1>0, <1>11, <2>1 DEF TypeOK, NoticeCancel, GiveBack, RespondWith, Goto, process
<1>12. CASE Listen \/ SetReady \/ CloseGate \/ Drain \/ Drained
  <2>1. CASE Listen
    BY <1>0, <2>1 DEF TypeOK, Listen
  <2>2. CASE SetReady
    BY <1>0, <2>2 DEF TypeOK, SetReady
  <2>3. CASE CloseGate
    <3>1. stops' \in 0..MaxStops
      BY <1>0, <2>3, BoundsAssumption DEF TypeOK, CloseGate
    <3>2. QED BY <1>0, <2>3, <3>1 DEF TypeOK, CloseGate
  <2>4. CASE Drain
    BY <1>0, <2>4 DEF TypeOK, Drain
  <2>5. CASE Drained
    BY <1>0, <2>5 DEF TypeOK, Drained
  <2>6. QED BY <1>12, <2>1, <2>2, <2>3, <2>4, <2>5
<1>13. CASE DrainTimeout
  BY <1>0, <1>13 DEF TypeOK, DrainTimeout, InFlight
<1>14. CASE Exit \/ Crash
  <2>1. stops' \in 0..MaxStops
    BY <1>0, <1>14, BoundsAssumption DEF TypeOK, Exit, Crash
  <2>2. LoseProcess
    BY <1>14 DEF Exit, Crash
  <2>3. QED BY <1>0, <2>1, <2>2 DEF TypeOK, LoseProcess
<1>15. CASE UNCHANGED vars
  BY <1>0, <1>15 DEF TypeOK, vars
<1>16. QED
  BY <1>1, <1>2, <1>3, <1>4, <1>5, <1>6, <1>7, <1>8, <1>9, <1>10, <1>11, <1>12, <1>13,
     <1>14, <1>15 DEF Next, ProcessStep, RequestStep, HandlerStep

LEMMA OneOwnerStep == IInv /\ [Next]_vars => OneOwner'
<1> SUFFICES ASSUME IInv, [Next]_vars PROVE OneOwner'
  OBVIOUS
<1>0. TypeOK /\ OneOwner /\ Nobody \notin Requests
  BY NobodyAssumption DEF IInv
<1>1. ASSUME NEW q \in Requests, Submit(q) PROVE OneOwner'
  BY <1>0, <1>1 DEF OneOwner, TypeOK, Submit, Goto
<1>2. ASSUME NEW q \in Requests, ClientGivesUp(q) PROVE OneOwner'
  BY <1>0, <1>2 DEF OneOwner, TypeOK, ClientGivesUp
<1>3. ASSUME NEW q \in Requests, LoadFlag(q) PROVE OneOwner'
  BY <1>0, <1>3 DEF OneOwner, TypeOK, LoadFlag, Goto, RespondWith
<1>4. ASSUME NEW q \in Requests, Ping(q) PROVE OneOwner'
  BY <1>0, <1>4 DEF OneOwner, TypeOK, Ping, Goto
<1>5. ASSUME NEW q \in Requests, Handle(q) PROVE OneOwner'
  BY <1>0, <1>5 DEF OneOwner, TypeOK, Handle, Goto, RespondWith
<1>6. ASSUME NEW q \in Requests, Begin(q) PROVE OneOwner'
  BY <1>0, <1>6 DEF OneOwner, TypeOK, Begin, Goto
<1>7. ASSUME NEW q \in Requests, Insert(q) PROVE OneOwner'
  BY <1>0, <1>7 DEF OneOwner, TypeOK, Insert, Goto
<1>8. ASSUME NEW q \in Requests, Commit(q) PROVE OneOwner'
  BY <1>0, <1>8 DEF OneOwner, TypeOK, Commit, Goto, RespondWith
<1>9. ASSUME NEW q \in Requests, Respond(q) PROVE OneOwner'
  BY <1>0, <1>9 DEF OneOwner, TypeOK, Respond, Goto
<1>10. ASSUME NEW q \in Requests, StorageFails(q) PROVE OneOwner'
  BY <1>0, <1>10 DEF OneOwner, TypeOK, StorageFails, Goto, RespondWith, GiveBack
<1>11. ASSUME NEW q \in Requests, NoticeCancel(q) PROVE OneOwner'
  BY <1>0, <1>11 DEF OneOwner, TypeOK, NoticeCancel, Goto, RespondWith, GiveBack
<1>12. CASE Listen \/ SetReady \/ CloseGate \/ Drain \/ Drained \/ DrainTimeout
  BY <1>0, <1>12 DEF OneOwner, TypeOK, Listen, SetReady, CloseGate, Drain, Drained, DrainTimeout
<1>13. CASE Exit \/ Crash
  BY <1>0, <1>13 DEF OneOwner, TypeOK, Exit, Crash, LoseProcess, InFlight
<1>14. CASE UNCHANGED vars
  BY <1>0, <1>14 DEF OneOwner, TypeOK, vars
<1>15. QED
  BY <1>1, <1>2, <1>3, <1>4, <1>5, <1>6, <1>7, <1>8, <1>9, <1>10, <1>11, <1>12, <1>13, <1>14
     DEF Next, ProcessStep, RequestStep, HandlerStep

LEMMA CallIsMadeStep == IInv /\ [Next]_vars => CallIsMade'
<1> SUFFICES ASSUME IInv, [Next]_vars PROVE CallIsMade'
  OBVIOUS
<1>0. TypeOK /\ CallIsMade
  BY DEF IInv
<1>1. ASSUME NEW q \in Requests, Submit(q) PROVE CallIsMade'
  BY <1>0, <1>1 DEF CallIsMade, TypeOK, Submit, Goto
<1>2. ASSUME NEW q \in Requests, ClientGivesUp(q) PROVE CallIsMade'
  BY <1>0, <1>2 DEF CallIsMade, TypeOK, ClientGivesUp
<1>3. ASSUME NEW q \in Requests, LoadFlag(q) PROVE CallIsMade'
  BY <1>0, <1>3 DEF CallIsMade, TypeOK, LoadFlag, Goto, RespondWith
<1>4. ASSUME NEW q \in Requests, Ping(q) PROVE CallIsMade'
  BY <1>0, <1>4 DEF CallIsMade, TypeOK, Ping, Goto
<1>5. ASSUME NEW q \in Requests, Handle(q) PROVE CallIsMade'
  BY <1>0, <1>5 DEF CallIsMade, TypeOK, Handle, Goto, RespondWith
<1>6. ASSUME NEW q \in Requests, Begin(q) PROVE CallIsMade'
  BY <1>0, <1>6 DEF CallIsMade, TypeOK, Begin, Goto
<1>7. ASSUME NEW q \in Requests, Insert(q) PROVE CallIsMade'
  BY <1>0, <1>7 DEF CallIsMade, TypeOK, Insert, Goto
<1>8. ASSUME NEW q \in Requests, Commit(q) PROVE CallIsMade'
  BY <1>0, <1>8 DEF CallIsMade, TypeOK, Commit, Goto, RespondWith
<1>9. ASSUME NEW q \in Requests, Respond(q) PROVE CallIsMade'
  BY <1>0, <1>9 DEF CallIsMade, TypeOK, Respond, Goto
<1>10. ASSUME NEW q \in Requests, StorageFails(q) PROVE CallIsMade'
  BY <1>0, <1>10 DEF CallIsMade, TypeOK, StorageFails, Goto, RespondWith, GiveBack
<1>11. ASSUME NEW q \in Requests, NoticeCancel(q) PROVE CallIsMade'
  BY <1>0, <1>11 DEF CallIsMade, TypeOK, NoticeCancel, Goto, RespondWith, GiveBack
<1>12. CASE Listen \/ SetReady \/ CloseGate \/ Drain \/ Drained \/ DrainTimeout
  BY <1>0, <1>12 DEF CallIsMade, TypeOK, Listen, SetReady, CloseGate, Drain, Drained, DrainTimeout
<1>13. CASE Exit \/ Crash
  BY <1>0, <1>13 DEF CallIsMade, TypeOK, Exit, Crash, LoseProcess, InFlight
<1>14. CASE UNCHANGED vars
  BY <1>0, <1>14 DEF CallIsMade, TypeOK, vars
<1>15. QED
  BY <1>1, <1>2, <1>3, <1>4, <1>5, <1>6, <1>7, <1>8, <1>9, <1>10, <1>11, <1>12, <1>13, <1>14
     DEF Next, ProcessStep, RequestStep, HandlerStep

LEMMA TxHoldsStep == IInv /\ [Next]_vars => TxHolds'
<1> SUFFICES ASSUME IInv, [Next]_vars PROVE TxHolds'
  OBVIOUS
<1>0. TypeOK /\ OneOwner /\ TxHolds /\ Nobody \notin Requests
  BY NobodyAssumption DEF IInv
<1>1. ASSUME NEW q \in Requests, Submit(q) PROVE TxHolds'
  BY <1>0, <1>1 DEF TxHolds, OneOwner, TypeOK, FreshRows, Row, Submit, Goto
<1>2. ASSUME NEW q \in Requests, ClientGivesUp(q) PROVE TxHolds'
  BY <1>0, <1>2 DEF TxHolds, OneOwner, TypeOK, FreshRows, Row, ClientGivesUp
<1>3. ASSUME NEW q \in Requests, LoadFlag(q) PROVE TxHolds'
  BY <1>0, <1>3 DEF TxHolds, OneOwner, TypeOK, FreshRows, Row, LoadFlag, Goto, RespondWith
<1>4. ASSUME NEW q \in Requests, Ping(q) PROVE TxHolds'
  BY <1>0, <1>4 DEF TxHolds, OneOwner, TypeOK, FreshRows, Row, Ping, Goto
<1>5. ASSUME NEW q \in Requests, Handle(q) PROVE TxHolds'
  BY <1>0, <1>5 DEF TxHolds, OneOwner, TypeOK, FreshRows, Row, Handle, Goto, RespondWith
<1>6. ASSUME NEW q \in Requests, Begin(q) PROVE TxHolds'
  BY <1>0, <1>6 DEF TxHolds, OneOwner, TypeOK, FreshRows, Row, Begin, Goto
<1>7. ASSUME NEW q \in Requests, Insert(q) PROVE TxHolds'
  BY <1>0, <1>7 DEF TxHolds, OneOwner, TypeOK, FreshRows, Row, Insert, Goto
<1>8. ASSUME NEW q \in Requests, Commit(q) PROVE TxHolds'
  BY <1>0, <1>8 DEF TxHolds, OneOwner, TypeOK, FreshRows, Row, Commit, Goto, RespondWith
<1>9. ASSUME NEW q \in Requests, Respond(q) PROVE TxHolds'
  BY <1>0, <1>9 DEF TxHolds, OneOwner, TypeOK, FreshRows, Row, Respond, Goto
<1>10. ASSUME NEW q \in Requests, StorageFails(q) PROVE TxHolds'
  BY <1>0, <1>10 DEF TxHolds, OneOwner, TypeOK, FreshRows, Row, StorageFails, Goto, RespondWith, GiveBack
<1>11. ASSUME NEW q \in Requests, NoticeCancel(q) PROVE TxHolds'
  BY <1>0, <1>11 DEF TxHolds, OneOwner, TypeOK, FreshRows, Row, NoticeCancel, Goto, RespondWith, GiveBack
<1>12. CASE Listen \/ SetReady \/ CloseGate \/ Drain \/ Drained \/ DrainTimeout
  BY <1>0, <1>12 DEF TxHolds, OneOwner, TypeOK, FreshRows, Row, Listen, SetReady, CloseGate, Drain, Drained, DrainTimeout
<1>13. CASE Exit \/ Crash
  BY <1>0, <1>13 DEF TxHolds, OneOwner, TypeOK, FreshRows, Row, Exit, Crash, LoseProcess, InFlight
<1>14. CASE UNCHANGED vars
  BY <1>0, <1>14 DEF TxHolds, OneOwner, TypeOK, FreshRows, Row, vars
<1>15. QED
  BY <1>1, <1>2, <1>3, <1>4, <1>5, <1>6, <1>7, <1>8, <1>9, <1>10, <1>11, <1>12, <1>13, <1>14
     DEF Next, ProcessStep, RequestStep, HandlerStep

(* What a settled request is, it stays.                                    *)

Settled(r) == pc[r] \in {"respond", "answered", "lost"}

LEMMA SettledStays ==
    ASSUME IInv, [Next]_vars, NEW r \in Requests, Settled(r)
    PROVE  /\ Settled(r)'
           /\ call'[r] = call[r]
           /\ reply'[r] = reply[r]
           /\ Replied(r)' => Replied(r)
<1> DEFINE Stays == /\ Settled(r)'
                    /\ call'[r] = call[r]
                    /\ reply'[r] = reply[r]
                    /\ Replied(r)' => Replied(r)
<1>0. TypeOK /\ pc[r] \in {"respond", "answered", "lost"}
  BY DEF IInv, Settled
<1>1. ASSUME NEW q \in Requests, Submit(q) PROVE Stays
  BY <1>0, <1>1 DEF TypeOK, Settled, Replied, Submit, Goto
<1>2. ASSUME NEW q \in Requests, ClientGivesUp(q) PROVE Stays
  BY <1>0, <1>2 DEF TypeOK, Settled, Replied, ClientGivesUp
<1>3. ASSUME NEW q \in Requests, LoadFlag(q) PROVE Stays
  BY <1>0, <1>3 DEF TypeOK, Settled, Replied, LoadFlag, Goto, RespondWith
<1>4. ASSUME NEW q \in Requests, Ping(q) PROVE Stays
  BY <1>0, <1>4 DEF TypeOK, Settled, Replied, Ping, Goto
<1>5. ASSUME NEW q \in Requests, Handle(q) PROVE Stays
  BY <1>0, <1>5 DEF TypeOK, Settled, Replied, Handle, Goto, RespondWith
<1>6. ASSUME NEW q \in Requests, Begin(q) PROVE Stays
  BY <1>0, <1>6 DEF TypeOK, Settled, Replied, Begin, Goto
<1>7. ASSUME NEW q \in Requests, Insert(q) PROVE Stays
  BY <1>0, <1>7 DEF TypeOK, Settled, Replied, Insert, Goto
<1>8. ASSUME NEW q \in Requests, Commit(q) PROVE Stays
  BY <1>0, <1>8 DEF TypeOK, Settled, Replied, Commit, Goto, RespondWith
<1>9. ASSUME NEW q \in Requests, Respond(q) PROVE Stays
  BY <1>0, <1>9 DEF TypeOK, Settled, Replied, Respond, Goto
<1>10. ASSUME NEW q \in Requests, StorageFails(q) PROVE Stays
  BY <1>0, <1>10 DEF TypeOK, Settled, Replied, StorageFails, Goto, RespondWith, GiveBack
<1>11. ASSUME NEW q \in Requests, NoticeCancel(q) PROVE Stays
  BY <1>0, <1>11 DEF TypeOK, Settled, Replied, NoticeCancel, Goto, RespondWith, GiveBack
<1>12. CASE Listen \/ SetReady \/ CloseGate \/ Drain \/ Drained \/ DrainTimeout
  BY <1>0, <1>12 DEF TypeOK, Settled, Replied, Listen, SetReady, CloseGate, Drain, Drained, DrainTimeout
<1>13. CASE Exit \/ Crash
  BY <1>0, <1>13 DEF TypeOK, Settled, Replied, Exit, Crash, LoseProcess, InFlight
<1>14. CASE UNCHANGED vars
  BY <1>0, <1>14 DEF TypeOK, Settled, Replied, vars
<1>15. QED
  BY <1>1, <1>2, <1>3, <1>4, <1>5, <1>6, <1>7, <1>8, <1>9, <1>10, <1>11, <1>12, <1>13, <1>14
     DEF Next, ProcessStep, RequestStep, HandlerStep

LEMMA RowsGrow == [Next]_vars => rows' = rows \/ \E r \in Requests : Commit(r)
<1> SUFFICES ASSUME [Next]_vars PROVE rows' = rows \/ \E r \in Requests : Commit(r)
  OBVIOUS
<1>1. CASE UNCHANGED vars
  BY <1>1 DEF vars
<1>2. CASE ProcessStep
  BY <1>2 DEF ProcessStep, Listen, SetReady, CloseGate, Drain, Drained, DrainTimeout,
              Exit, Crash, LoseProcess
<1>3. ASSUME NEW r \in Requests, RequestStep(r)
      PROVE  rows' = rows \/ Commit(r)
  BY <1>3 DEF RequestStep, HandlerStep, Submit, ClientGivesUp, LoadFlag, Ping, Handle, Begin,
              Insert, Respond, StorageFails, NoticeCancel, GiveBack
<1>4. QED BY <1>1, <1>2, <1>3 DEF Next

\* What a commit does, in the terms of the invariant.
LEMMA CommitFacts ==
    ASSUME IInv, NEW r \in Requests, Commit(r)
    PROVE  /\ call[r] \in Calls /\ call' = call
           /\ rows' = rows \cup FreshRows(r)
           /\ KeysOf(call[r].events) \subseteq KeysIn(rows')
           /\ pc'[r] = "respond"
           /\ reply'[r].status \in Success
<1>1. call[r] \in Calls /\ tx = FreshRows(r)
  BY DEF IInv, CallIsMade, TxHolds, Commit
<1>2. rows' = rows \cup FreshRows(r) /\ call' = call
  BY <1>1 DEF Commit
<1>3. KeysOf(call[r].events) \subseteq KeysIn(rows')
  BY <1>1, <1>2, FreshRowsCover
<1>4. StoredReply(call[r], Cardinality(tx)).status \in Success
  BY <1>1, FreshRowsCount, StatusType
<1>5. pc'[r] = "respond" /\ reply'[r] = StoredReply(call[r], Cardinality(tx))
  BY DEF IInv, TypeOK, Commit, RespondWith, Goto
<1>6. QED BY <1>1, <1>2, <1>3, <1>4, <1>5

LEMMA RowsAreExplainedStep == IInv /\ [Next]_vars => RowsAreExplained'
<1> SUFFICES ASSUME IInv, [Next]_vars,
                    NEW row \in rows'
             PROVE  /\ Settled(row.request)'
                    /\ KeysOf(call'[row.request].events) \subseteq KeysIn(rows')
                    /\ Replied(row.request)' => Confirmed(row.request)'
  BY DEF RowsAreExplained, Settled
<1>1. KeysIn(rows) \subseteq KeysIn(rows')
  BY RowsGrow, CommitFacts DEF KeysIn
<1>2. CASE row \in rows
  <2>1. row.request \in Requests
    BY <1>2 DEF IInv, TypeOK
  <2>2. /\ Settled(row.request)
        /\ KeysOf(call[row.request].events) \subseteq KeysIn(rows)
        /\ Replied(row.request) => Confirmed(row.request)
    BY <1>2 DEF IInv, RowsAreExplained, Settled
  <2>3. /\ Settled(row.request)'
        /\ call'[row.request] = call[row.request]
        /\ reply'[row.request] = reply[row.request]
        /\ Replied(row.request)' => Replied(row.request)
    BY <2>1, <2>2, SettledStays
  <2>4. QED BY <1>1, <2>2, <2>3 DEF Confirmed
<1>3. CASE row \notin rows
  <2>1. PICK r \in Requests : Commit(r)
    BY <1>3, RowsGrow
  <2>2. row.request = r
    BY <1>3, <2>1, CommitFacts, FreshRowsCover
  <2>3. QED BY <2>1, <2>2, CommitFacts DEF Settled, Confirmed
<1>4. QED BY <1>2, <1>3

LEMMA NoDuplicateStep == IInv /\ [Next]_vars => NoDuplicateEventID'
<1> SUFFICES ASSUME IInv, [Next]_vars PROVE NoDuplicateEventID'
  OBVIOUS
<1>0. NoDuplicateEventID
  BY DEF IInv
<1>1. CASE rows' = rows
  BY <1>0, <1>1 DEF NoDuplicateEventID
<1>2. ASSUME NEW r \in Requests, Commit(r) PROVE NoDuplicateEventID'
  <2>1. call[r] \in Calls /\ rows' = rows \cup FreshRows(r)
    BY <1>2, CommitFacts
  <2>2. /\ \A row \in FreshRows(r) : row.event_id \notin KeysIn(rows)
        /\ \A a, b \in FreshRows(r) : a.event_id = b.event_id => a = b
    BY <2>1, FreshRowsCover
  <2>3. QED BY <1>0, <2>1, <2>2 DEF NoDuplicateEventID, KeysIn
<1>3. QED BY <1>1, <1>2, RowsGrow

\* A request that gets a success without having been settled before has
\* either just committed, or had nothing valid to store.
LEMMA NewConfirmation ==
    ASSUME IInv, [Next]_vars, NEW r \in Requests, ~Settled(r), Confirmed(r)'
    PROVE  KeysOf(call'[r].events) \subseteq KeysIn(rows')
<1> DEFINE Goal == KeysOf(call'[r].events) \subseteq KeysIn(rows')
<1>0. TypeOK /\ CallIsMade /\ pc[r] \notin {"respond", "answered", "lost"}
      /\ pc'[r] \in {"respond", "answered"} /\ reply'[r].status \in Success
  BY DEF IInv, Settled, Confirmed, Replied
<1>1. ASSUME NEW q \in Requests, Handle(q) PROVE Goal
  <2>1. r = q
    BY <1>0, <1>1 DEF TypeOK, Handle, RespondWith, Goto
  <2>2. call[r] \in Calls
    BY <1>0, <1>1, <2>1 DEF CallIsMade, Handle
  <2>3. /\ RefusedAs(call[r]) # 0 => Failure(RefusedAs(call[r])).status \notin Success
        /\ Failure(500).status \notin Success
    BY <2>2, StatusType
  <2>4. Valid(call[r].events) = {}
    BY <1>0, <1>1, <2>1, <2>3 DEF TypeOK, Handle, RespondWith, Goto
  <2>5. call' = call
    BY <1>1 DEF Handle
  <2>6. QED BY <2>4, <2>5 DEF KeysOf
<1>2. ASSUME NEW q \in Requests, Commit(q) PROVE Goal
  <2>1. r = q
    BY <1>0, <1>2 DEF TypeOK, Commit, RespondWith, Goto
  <2>2. QED BY <1>2, <2>1, CommitFacts
<1>3. ASSUME NEW q \in Requests,
             LoadFlag(q) \/ StorageFails(q) \/ NoticeCancel(q)
      PROVE  Goal
  <2>1. Failure(500).status \notin Success /\ Failure(503).status \notin Success
        /\ \A code \in SQLiteCodes : Failure(StorageStatus(code)).status \notin Success
    BY StorageStatusType DEF Failure, Reply, Success
  <2>2. CASE LoadFlag(q)
    BY <1>0, <2>1, <2>2 DEF TypeOK, LoadFlag, RespondWith, Goto
  <2>3. CASE StorageFails(q)
    BY <1>0, <2>1, <2>3 DEF TypeOK, StorageFails, RespondWith, Goto
  <2>4. CASE NoticeCancel(q)
    BY <1>0, <2>1, <2>4 DEF TypeOK, NoticeCancel, RespondWith, Goto
  <2>5. QED BY <1>3, <2>2, <2>3, <2>4
<1>4. ASSUME NEW q \in Requests,
             \/ Submit(q) \/ ClientGivesUp(q) \/ Ping(q) \/ Begin(q) \/ Insert(q) \/ Respond(q)
      PROVE  Goal
  BY <1>0, <1>4 DEF TypeOK, Submit, ClientGivesUp, Ping, Begin, Insert, Respond, Goto
<1>5. CASE ProcessStep \/ UNCHANGED vars
  BY <1>0, <1>5 DEF TypeOK, ProcessStep, Listen, SetReady, CloseGate, Drain, Drained,
                    DrainTimeout, Exit, Crash, LoseProcess, vars
<1>6. QED
  BY <1>1, <1>2, <1>3, <1>4, <1>5 DEF Next, RequestStep, HandlerStep

LEMMA ConfirmedIsStoredStep == IInv /\ [Next]_vars => ConfirmedIsStored'
<1> SUFFICES ASSUME IInv, [Next]_vars, NEW r \in Requests, Confirmed(r)'
             PROVE  KeysOf(call'[r].events) \subseteq KeysIn(rows')
  BY DEF ConfirmedIsStored
<1>1. CASE Settled(r)
  <2>1. Confirmed(r) /\ call'[r] = call[r]
    BY <1>1, SettledStays DEF Confirmed
  <2>2. KeysOf(call[r].events) \subseteq KeysIn(rows)
    BY <2>1 DEF IInv, ConfirmedIsStored
  <2>3. KeysIn(rows) \subseteq KeysIn(rows')
    BY RowsGrow, CommitFacts DEF KeysIn
  <2>4. QED BY <2>1, <2>2, <2>3
<1>2. CASE ~Settled(r)
  BY <1>2, NewConfirmation
<1>3. QED BY <1>1, <1>2

-----------------------------------------------------------------------------
(* The theorems.                                                           *)

LEMMA IInvInit == Init => IInv
<1> SUFFICES ASSUME Init PROVE IInv
  OBVIOUS
<1>1. TypeOK
  <2>1. 0 \in 0..MaxFaults /\ 0 \in 0..MaxStops
    BY BoundsAssumption
  <2>2. QED BY <2>1 DEF Init, TypeOK
<1>2. OneOwner /\ TxHolds /\ CallIsMade
  BY NobodyAssumption DEF Init, OneOwner, TxHolds, CallIsMade
<1>3. RowsAreExplained /\ NoDuplicateEventID /\ ConfirmedIsStored
  BY DEF Init, RowsAreExplained, NoDuplicateEventID, ConfirmedIsStored, Confirmed, Replied
<1>4. QED BY <1>1, <1>2, <1>3 DEF IInv

(* The inductive invariant holds of every behaviour of the ingestion API.  *)
THEOREM Invariance == Spec => []IInv
<1>1. IInv /\ [Next]_vars => IInv'
  BY TypeOKStep, OneOwnerStep, TxHoldsStep, CallIsMadeStep, RowsAreExplainedStep,
     NoDuplicateStep, ConfirmedIsStoredStep DEF IInv
<1>2. QED BY <1>1, IInvInit, PTL DEF Spec

(* Every variable of IngestionApi keeps its type.                          *)
THEOREM TypeCorrect == Spec => []TypeOK
<1>1. IInv => TypeOK
  BY DEF IInv
<1>2. QED BY <1>1, Invariance, PTL

(* However many requests compete, repeat events or are cut off, no event   *)
(* is stored twice: InsertBatch behind ComputeEventID is idempotent.       *)
THEOREM NoDuplicates == Spec => []NoDuplicateEventID
<1>1. IInv => NoDuplicateEventID
  BY DEF IInv
<1>2. QED BY <1>1, Invariance, PTL

(* A 2xx of IngestOne or IngestBatch is never untrue: every valid event of *)
(* the call is in the table.                                               *)
THEOREM ConfirmationIsTrue == Spec => []ConfirmedIsStored
<1>1. IInv => ConfirmedIsStored
  BY DEF IInv
<1>2. QED BY <1>1, Invariance, PTL

(* A batch is in the table whole or not at all (InsertBatch).              *)
THEOREM Atomicity == Spec => []BatchIsAtomic
<1>1. IInv => BatchIsAtomic
  BY DEF IInv, RowsAreExplained, BatchIsAtomic, RowsOf
<1>2. QED BY <1>1, Invariance, PTL

(* An error response is never sent for a call that stored something (the   *)
(* error returns of IngestOne and IngestBatch behind InsertBatch).         *)
THEOREM ErrorsAreHonest == Spec => []ErrorStoresNothing
<1>1. IInv => ErrorStoresNothing
  BY DEF IInv, RowsAreExplained, ErrorStoresNothing, RowsOf
<1>2. QED BY <1>1, Invariance, PTL

(* A committed row is never changed or removed.                            *)
THEOREM RowsAreForGood == Spec => FirstWriteWins
<1>1. [Next]_vars => [rows \subseteq rows']_vars
  BY RowsGrow DEF Commit
<1>2. QED BY <1>1, PTL DEF Spec, FirstWriteWins

-----------------------------------------------------------------------------
(* The API implements IdempotentStore.                                     *)

LEMMA StoreInitialised == Init => Store!StoreInit
<1> SUFFICES ASSUME Init PROVE Store!StoreInit
  OBVIOUS
<1>1. KeysIn(rows) = {} /\ \A r \in Requests : KeysIn(RowsOf(r)) = {}
  BY DEF Init, KeysIn, RowsOf
<1>2. \A r \in Requests : Wanted(r) = {} /\ Verdict(r) = "none"
  BY DEF Init, Wanted, Verdict
<1>3. QED BY <1>1, <1>2 DEF Store!StoreInit

\* A step that leaves the table, the calls and the verdicts alone.
LEMMA StoreStutters ==
    ASSUME rows' = rows, call' = call, \A r \in Requests : Verdict(r)' = Verdict(r)
    PROVE  UNCHANGED Store!storeVars
BY DEF Store!storeVars, KeysIn, RowsOf, Wanted

\* Moves between the places where a caller is still waiting.
Waiting == {"arrived", "ping", "handle", "acquire", "insert", "commit", "respond"}

LEMMA VerdictWaiting ==
    ASSUME NEW r \in Requests
    PROVE  /\ pc[r] \in Waiting => Verdict(r) = "pending"
           /\ pc[r] = "idle" => Verdict(r) = "none"
           /\ pc[r] = "lost" => Verdict(r) = "unknown"
           /\ pc[r] = "answered" => Verdict(r) = IF Confirmed(r) THEN "confirmed" ELSE "refused"
BY DEF Verdict, Waiting

LEMMA VerdictWaitingNext ==
    ASSUME NEW r \in Requests
    PROVE  /\ pc'[r] \in Waiting => Verdict(r)' = "pending"
           /\ pc'[r] = "idle" => Verdict(r)' = "none"
           /\ pc'[r] = "lost" => Verdict(r)' = "unknown"
           /\ pc'[r] = "answered" => Verdict(r)' = IF Confirmed(r)' THEN "confirmed" ELSE "refused"
BY DEF Verdict, Waiting

\* The verdict of a request that does not move and keeps its reply.
LEMMA VerdictKept ==
    ASSUME NEW r \in Requests, pc'[r] = pc[r], reply'[r] = reply[r]
    PROVE  Verdict(r)' = Verdict(r)
BY DEF Verdict, Confirmed, Replied

LEMMA KeysOfType ==
    ASSUME NEW c \in Calls
    PROVE  KeysOf(c.events) \subseteq {Key(e) : e \in {x \in Events : Kind(x) = "stored"}}
BY CallType DEF KeysOf, Valid

LEMMA SubmitAsks ==
    ASSUME IInv, NEW r \in Requests, Submit(r)
    PROVE  \E K \in SUBSET {Key(e) : e \in {x \in Events : Kind(x) = "stored"}} : Store!Ask(r, K)
<1>1. PICK c \in Calls : call' = [call EXCEPT ![r] = c]
  BY DEF Submit
<1>2. pc[r] = "idle" /\ pc' = [pc EXCEPT ![r] = "arrived"] /\ reply' = reply /\ rows' = rows
  BY DEF Submit, Goto
<1>3. \A q \in Requests : Verdict(q)' = IF q = r THEN "pending" ELSE Verdict(q)
  BY <1>2, VerdictWaitingNext, VerdictKept DEF IInv, TypeOK, Waiting
<1>4. Wanted(r)' = KeysOf(c.events) /\ \A q \in Requests : q # r => Wanted(q)' = Wanted(q)
  BY <1>1, CallsAssumption DEF IInv, TypeOK, Wanted
<1>5. Verdict(r) = "none"
  BY <1>2, VerdictWaiting
<1>6. Store!Ask(r, KeysOf(c.events))
  BY <1>2, <1>3, <1>4, <1>5 DEF Store!Ask, KeysIn, RowsOf
<1>7. QED BY <1>6, KeysOfType

LEMMA CommitTakes ==
    ASSUME IInv, NEW r \in Requests, Commit(r)
    PROVE  Store!Take(r)
<1> DEFINE K == KeysOf(call[r].events)
<1>1. call[r] \in Calls /\ call' = call /\ rows' = rows \cup FreshRows(r) /\ pc'[r] = "respond"
  BY CommitFacts
<1>2. /\ \A row \in FreshRows(r) : row.request = r /\ row.event_id \notin KeysIn(rows)
      /\ K \subseteq KeysIn(rows \cup FreshRows(r))
  BY <1>1, FreshRowsCover
<1>3. KeysIn(FreshRows(r)) \subseteq K
  BY DEF KeysIn, FreshRows, Fresh, KeysOf, Row
<1>4. KeysIn(rows') = KeysIn(rows) \cup K
  BY <1>1, <1>2, <1>3 DEF KeysIn
<1>5. KeysIn(FreshRows(r)) = K \ KeysIn(rows)
  BY <1>2, <1>3 DEF KeysIn
<1>6. RowsOf(r) = {}
  BY DEF IInv, RowsAreExplained, RowsOf, Commit
<1>7. RowsOf(r)' = FreshRows(r) /\ \A q \in Requests : q # r => RowsOf(q)' = RowsOf(q)
  BY <1>1, <1>2, <1>6 DEF RowsOf
<1>8. \A q \in Requests : Wanted(q)' = Wanted(q)
  BY <1>1 DEF Wanted
<1>9. Wanted(r) = K
  BY <1>1, CallsAssumption DEF Wanted
<1>10. \A q \in Requests : q # r => pc'[q] = pc[q] /\ reply'[q] = reply[q]
  BY DEF IInv, TypeOK, Commit, RespondWith, Goto
<1>11. Verdict(r) = "pending" /\ Verdict(r)' = "pending"
  BY <1>1, VerdictWaiting, VerdictWaitingNext DEF Commit, Waiting
<1>12. \A q \in Requests : Verdict(q)' = Verdict(q)
  BY <1>10, <1>11, VerdictKept
<1>13. KeysIn(RowsOf(r)) = {}
  BY <1>6 DEF KeysIn
<1>14. QED
  BY <1>4, <1>5, <1>7, <1>8, <1>9, <1>11, <1>12, <1>13 DEF Store!Take

LEMMA RespondTells ==
    ASSUME IInv, NEW r \in Requests, Respond(r)
    PROVE  Store!Confirm(r) \/ Store!Refuse(r) \/ Store!Lose({r})
<1>1. pc[r] = "respond" /\ reply' = reply /\ rows' = rows /\ call' = call
  BY DEF Respond
<1>2. pc' = [pc EXCEPT ![r] = IF gone[r] THEN "lost" ELSE "answered"]
  BY DEF Respond, Goto
<1>3. Verdict(r) = "pending"
  BY <1>1, VerdictWaiting DEF Waiting
<1>4. \A q \in Requests : q # r => Verdict(q)' = Verdict(q)
  BY <1>1, <1>2, VerdictKept DEF IInv, TypeOK
<1>5. /\ KeysIn(rows') = KeysIn(rows)
      /\ \A q \in Requests : Wanted(q)' = Wanted(q) /\ KeysIn(RowsOf(q))' = KeysIn(RowsOf(q))
  BY <1>1 DEF KeysIn, Wanted, RowsOf
<1>6. CASE gone[r]
  <2>1. Verdict(r)' = "unknown"
    BY <1>2, <1>6, VerdictWaitingNext DEF IInv, TypeOK
  <2>2. QED BY <1>3, <1>4, <1>5, <2>1 DEF Store!Lose
<1>7. CASE ~gone[r]
  <2>1. Confirmed(r)' = Confirmed(r)
    BY <1>1, <1>2, <1>7 DEF IInv, TypeOK, Confirmed, Replied
  <2>2. Verdict(r)' = IF Confirmed(r) THEN "confirmed" ELSE "refused"
    BY <1>2, <1>7, <2>1, VerdictWaitingNext DEF IInv, TypeOK
  <2>3. CASE Confirmed(r)
    <3>1. Wanted(r) \subseteq KeysIn(rows)
      BY <2>3 DEF IInv, ConfirmedIsStored, Wanted
    <3>2. QED BY <1>3, <1>4, <1>5, <2>2, <2>3, <3>1 DEF Store!Confirm
  <2>4. CASE ~Confirmed(r)
    <3>1. KeysIn(RowsOf(r)) = {}
      BY <1>1, <2>4 DEF IInv, RowsAreExplained, RowsOf, Replied, KeysIn
    <3>2. QED BY <1>3, <1>4, <1>5, <2>2, <2>4, <3>1 DEF Store!Refuse
  <2>5. QED BY <2>3, <2>4
<1>8. QED BY <1>6, <1>7

LEMMA LoseProcessLoses ==
    ASSUME IInv, LoseProcess
    PROVE  Store!Lose({r \in Requests : InFlight(r)})
<1>1. /\ \A r \in Requests : pc'[r] = IF InFlight(r) THEN "lost" ELSE pc[r]
      /\ reply' = reply /\ rows' = rows /\ call' = call
  BY DEF LoseProcess
<1>2. \A r \in Requests : InFlight(r) => Verdict(r) = "pending" /\ Verdict(r)' = "unknown"
  BY <1>1, VerdictWaiting, VerdictWaitingNext DEF InFlight, Waiting
<1>3. \A r \in Requests : ~InFlight(r) => Verdict(r)' = Verdict(r)
  BY <1>1, VerdictKept
<1>4. /\ KeysIn(rows') = KeysIn(rows)
      /\ \A q \in Requests : Wanted(q)' = Wanted(q) /\ KeysIn(RowsOf(q))' = KeysIn(RowsOf(q))
  BY <1>1 DEF KeysIn, Wanted, RowsOf
<1>5. QED BY <1>2, <1>3, <1>4 DEF Store!Lose

\* The steps a caller does not see.
LEMMA SilentSteps ==
    ASSUME IInv, NEW r \in Requests,
           \/ ClientGivesUp(r) \/ LoadFlag(r) \/ Ping(r) \/ Handle(r) \/ Begin(r) \/ Insert(r)
           \/ StorageFails(r) \/ NoticeCancel(r)
    PROVE  UNCHANGED Store!storeVars
<1>1. rows' = rows /\ call' = call
  BY DEF ClientGivesUp, LoadFlag, Ping, Handle, Begin, Insert, StorageFails, NoticeCancel, GiveBack
<1>2. \A q \in Requests : q # r => pc'[q] = pc[q] /\ reply'[q] = reply[q]
  BY DEF IInv, TypeOK, ClientGivesUp, LoadFlag, Ping, Handle, Begin, Insert, StorageFails,
         NoticeCancel, RespondWith, Goto
<1>3. pc[r] \in Waiting /\ pc'[r] \in Waiting
  BY DEF IInv, TypeOK, ClientGivesUp, LoadFlag, Ping, Handle, Begin, Insert, StorageFails,
         NoticeCancel, RespondWith, Goto, InFlight, Waiting
<1>4. \A q \in Requests : Verdict(q)' = Verdict(q)
  BY <1>2, <1>3, VerdictKept, VerdictWaiting, VerdictWaitingNext
<1>5. QED BY <1>1, <1>4, StoreStutters

LEMMA StepRefines == IInv /\ [Next]_vars => [Store!StoreNext]_(Store!storeVars)
<1> SUFFICES ASSUME IInv, [Next]_vars PROVE [Store!StoreNext]_(Store!storeVars)
  OBVIOUS
<1>1. ASSUME NEW r \in Requests, RequestStep(r) PROVE Store!StoreNext \/ UNCHANGED Store!storeVars
  <2>1. CASE Submit(r)
    BY <2>1, SubmitAsks DEF Store!StoreNext
  <2>2. CASE Commit(r)
    BY <2>2, CommitTakes DEF Store!StoreNext
  <2>3. CASE Respond(r)
    <3>1. {r} \in SUBSET Requests
      OBVIOUS
    <3>2. QED BY <2>3, <3>1, RespondTells DEF Store!StoreNext
  <2>4. CASE ~(Submit(r) \/ Commit(r) \/ Respond(r))
    BY <1>1, <2>4, SilentSteps DEF RequestStep, HandlerStep
  <2>5. QED BY <2>1, <2>2, <2>3, <2>4
<1>2. CASE Exit \/ Crash
  <2>1. {r \in Requests : InFlight(r)} \in SUBSET Requests
    OBVIOUS
  <2>2. QED BY <1>2, <2>1, LoseProcessLoses DEF Exit, Crash, Store!StoreNext
<1>3. CASE Listen \/ SetReady \/ CloseGate \/ Drain \/ Drained \/ DrainTimeout \/ UNCHANGED vars
  <2>1. rows' = rows /\ call' = call /\ pc' = pc /\ reply' = reply
    BY <1>3 DEF Listen, SetReady, CloseGate, Drain, Drained, DrainTimeout, vars
  <2>2. QED BY <2>1, VerdictKept, StoreStutters
<1>4. QED BY <1>1, <1>2, <1>3 DEF Next, ProcessStep

(* Whatever number of requests, events and failures: to its callers the    *)
(* ingestion API is the atomic, idempotent store of IdempotentStore.       *)
THEOREM Refinement == Spec => ImplementsStore
<1>1. QED
  BY StoreInitialised, StepRefines, Invariance, PTL DEF Spec, ImplementsStore, Store!StoreSpec

-----------------------------------------------------------------------------
(* The process goes through the phases of ProcessPhases.                   *)

Working == {r \in Requests : InFlight(r)}

LEMMA PhasesInitialised == Init => Phases!PhaseInit
BY DEF Init, Phases!PhaseInit, InFlight

\* A handler that moves on inside keeps the set of requests inside.
LEMMA WorkingKept ==
    ASSUME TypeOK, NEW r \in Requests, InFlight(r),
           NEW place \in {"arrived", "ping", "handle", "acquire", "insert", "commit", "respond"},
           Goto(r, place)
    PROVE  Working' = Working
BY DEF TypeOK, Working, InFlight, Goto

LEMMA HandlersStayInside ==
    ASSUME TypeOK, NEW r \in Requests,
           \/ ClientGivesUp(r) \/ LoadFlag(r) \/ Ping(r) \/ Handle(r) \/ Begin(r)
           \/ Insert(r) \/ Commit(r) \/ StorageFails(r) \/ NoticeCancel(r)
    PROVE  UNCHANGED <<process, Working>>
<1>1. CASE ClientGivesUp(r)
  BY <1>1 DEF ClientGivesUp, Working, InFlight, process
<1>2. CASE LoadFlag(r)
  BY <1>2, WorkingKept DEF LoadFlag, RespondWith, InFlight
<1>3. CASE Ping(r)
  BY <1>3, WorkingKept DEF Ping, InFlight
<1>4. CASE Handle(r)
  BY <1>4, WorkingKept DEF Handle, RespondWith, InFlight
<1>5. CASE Begin(r)
  BY <1>5, WorkingKept DEF Begin, InFlight
<1>6. CASE Insert(r)
  BY <1>6, WorkingKept DEF Insert, InFlight
<1>7. CASE Commit(r)
  BY <1>7, WorkingKept DEF Commit, RespondWith, InFlight, process
<1>8. CASE StorageFails(r)
  BY <1>8, WorkingKept DEF StorageFails, RespondWith, InFlight
<1>9. CASE NoticeCancel(r)
  BY <1>9, WorkingKept DEF NoticeCancel, RespondWith, InFlight
<1>10. QED
  BY <1>1, <1>2, <1>3, <1>4, <1>5, <1>6, <1>7, <1>8, <1>9

LEMMA ProcessStepsArePhases ==
    ASSUME TypeOK, ProcessStep
    PROVE  Phases!PhaseNext
<1> USE DEF Phases!PhaseNext, Phases!Advance
<1>1. CASE Listen
  BY <1>1 DEF Listen, Phases!Bind, InFlight
<1>2. CASE SetReady
  BY <1>2 DEF SetReady, Phases!OpenGate, InFlight
<1>3. CASE CloseGate
  BY <1>3 DEF CloseGate, Phases!ShutGate, InFlight
<1>4. CASE Drain
  BY <1>4 DEF Drain, Phases!ShutDoors, InFlight
<1>5. CASE Drained
  BY <1>5 DEF Drained, Phases!Stop, InFlight
<1>6. CASE DrainTimeout
  BY <1>6 DEF DrainTimeout, Phases!Force, InFlight
<1>7. ASSUME LoseProcess
      PROVE  Working' = {} /\ phase' = "down" /\ accepting' = FALSE
  BY <1>7 DEF TypeOK, LoseProcess, Working, InFlight
<1>8. CASE Exit
  BY <1>7, <1>8 DEF Exit, Phases!Exit, Working
<1>9. CASE Crash
  BY <1>7, <1>9 DEF Crash, Phases!Kill, Working
<1>10. QED
  BY <1>1, <1>2, <1>3, <1>4, <1>5, <1>6, <1>8, <1>9 DEF ProcessStep

LEMMA StepIsPhase == TypeOK /\ [Next]_vars => [Phases!PhaseNext]_(Phases!phaseVars)
<1> SUFFICES ASSUME TypeOK, [Next]_vars
             PROVE  [Phases!PhaseNext]_(Phases!phaseVars)
  OBVIOUS
<1>1. CASE ProcessStep
  BY <1>1, ProcessStepsArePhases
<1>2. ASSUME NEW r \in Requests, Submit(r)
      PROVE  Phases!Arrive(r)
  BY <1>2 DEF TypeOK, Submit, Goto, InFlight, process, Phases!Arrive
<1>3. ASSUME NEW r \in Requests, Respond(r)
      PROVE  Phases!Leave(r)
  BY <1>3 DEF TypeOK, Respond, Goto, InFlight, process, Phases!Leave
<1>4. ASSUME NEW r \in Requests, RequestStep(r), ~Submit(r), ~Respond(r)
      PROVE  UNCHANGED Phases!phaseVars
  <2>1. UNCHANGED <<process, Working>>
    BY <1>4, HandlersStayInside DEF RequestStep, HandlerStep
  <2>2. QED BY <2>1 DEF process, Working, Phases!phaseVars
<1>5. CASE UNCHANGED vars
  BY <1>5 DEF vars, InFlight, Phases!phaseVars
<1>6. QED
  BY <1>1, <1>2, <1>3, <1>4, <1>5 DEF Next, Phases!PhaseNext

\* The process around the handlers implements ProcessPhases (Servers.Run):
\* the gate is open in the serving phase only, and only a forced exit or a
\* kill leaves a request unanswered.
THEOREM PhasesKept == Spec => ImplementsPhases
<1>1. QED
  BY PhasesInitialised, StepIsPhase, TypeCorrect, PTL
  DEF Spec, ImplementsPhases, Phases!PhaseSpec

-----------------------------------------------------------------------------
(* What is answered, and what happens after the gate has closed.  The      *)
(* argument for the counts: a request owns no row until its commit, which  *)
(* gives it as many as its transaction inserted; after that nobody adds or *)
(* removes a row of it.  For the gate: a call the gate has turned away, or *)
(* is about to turn away, never gets as far as the connection.             *)

-----------------------------------------------------------------------------
(* Counting the events of a call.                                          *)

LEMMA KindIsOneOfThree ==
    ASSUME NEW e \in Events PROVE Kind(e) \in {"stored", "rejected", "error"}
BY DEF Kind, Prepared, PrepareLog

\* Where preparing fails for no event, each one is valid or rejected.
LEMMA CallIsSplit ==
    ASSUME NEW c \in Calls, Failing(c.events) = {}
    PROVE  Len(c.events) = Cardinality(Valid(c.events)) + Cardinality(Rejected(c.events))
<1> DEFINE V == Valid(c.events)
           R == Rejected(c.events)
<1>1. V \cup R = 1..Len(c.events) /\ V \cap R = {}
  BY CallType, KindIsOneOfThree DEF Valid, Rejected, Failing
<1>2. IsFiniteSet(1..Len(c.events)) /\ Cardinality(1..Len(c.events)) = Len(c.events)
  BY CallType, FS_Interval
<1>3. IsFiniteSet(V) /\ IsFiniteSet(R)
  <2> HIDE DEF V, R
  <2>1. V \in SUBSET (1..Len(c.events)) /\ R \in SUBSET (1..Len(c.events))
    BY <1>1
  <2>2. QED BY <1>2, <2>1, FS_Subset
<1>4. Cardinality(V \cup R) = Cardinality(V) + Cardinality(R) - Cardinality(V \cap R)
  BY <1>3, FS_Union
<1>5. Cardinality(V \cap R) = 0
  BY <1>1, FS_EmptySet
<1>6. Cardinality(V) \in Nat /\ Cardinality(R) \in Nat
  BY CountsType
<1>7. Cardinality(V \cup R) = Len(c.events)
  <2> HIDE DEF V, R
  <2> QED BY <1>1, <1>2
<1>8. QED
  <2> HIDE DEF V, R
  <2>1. Len(c.events) = Cardinality(V) + Cardinality(R)
    BY <1>4, <1>5, <1>6, <1>7
  <2>2. QED BY <2>1 DEF V, R

\* A transaction inserts no more rows than the call has valid events.
LEMMA FreshRowsBound ==
    ASSUME NEW r \in Requests, call[r] \in Calls
    PROVE  Cardinality(FreshRows(r)) <= Cardinality(Valid(call[r].events))
<1> DEFINE V == Valid(call[r].events)
           F == Fresh(call[r].events, rows)
           f == [i \in F |-> Row(r, i)]
<1>1. IsFiniteSet(V) /\ F \in SUBSET V
  BY CountsType DEF Fresh
<1>2. IsFiniteSet(F) /\ Cardinality(F) <= Cardinality(V)
  BY <1>1, FS_Subset
<1>3. f \in Surjection(F, FreshRows(r))
  BY DEF FreshRows, Surjection
<1>4. IsFiniteSet(FreshRows(r)) /\ Cardinality(FreshRows(r)) <= Cardinality(F)
  BY <1>2, <1>3, FS_Surjection
<1>5. /\ Cardinality(F) \in Nat /\ Cardinality(V) \in Nat /\ Cardinality(FreshRows(r)) \in Nat
  BY <1>1, <1>2, <1>4, FS_CardinalityType
<1>6. QED BY <1>2, <1>4, <1>5

-----------------------------------------------------------------------------
(* The inductive invariant of the counts.                                  *)

\* No call with a failing event gets as far as the connection.
NoneFails == \A r \in Requests :
    pc[r] \in {"acquire", "insert", "commit"} => Failing(call[r].events) = {}

\* A success counts the rows of its call.
AnswerCounts(r) ==
    /\ Failing(call[r].events) = {}
    /\ reply[r] = StoredReply(call[r], Cardinality(RowsOf(r)))
    /\ Cardinality(RowsOf(r)) \in Nat
    /\ Cardinality(RowsOf(r)) <= Cardinality(Valid(call[r].events))

AnswersCount == \A r \in Requests : Confirmed(r) => AnswerCounts(r)

CInv == IInv /\ NoneFails /\ AnswersCount

LEMMA NoneFailsStep == CInv /\ [Next]_vars => NoneFails'
<1> SUFFICES ASSUME CInv, [Next]_vars PROVE NoneFails'
  OBVIOUS
<1> USE DEF CInv, IInv, TypeOK, NoneFails
<1>1. ASSUME NEW q \in Requests, Submit(q) PROVE NoneFails'
  <2>1. /\ pc' = [pc EXCEPT ![q] = "arrived"]
        /\ \A r \in Requests : r # q => call'[r] = call[r]
    BY <1>1 DEF Submit, Goto
  <2>2. QED BY <2>1
<1>2. ASSUME NEW q \in Requests, Handle(q) PROVE NoneFails'
  BY <1>2 DEF Handle, Goto, RespondWith
<1>3. ASSUME NEW q \in Requests,
             LoadFlag(q) \/ Ping(q) \/ Begin(q) \/ Insert(q) \/ Commit(q) \/ Respond(q)
      PROVE  NoneFails'
  BY <1>3 DEF LoadFlag, Ping, Begin, Insert, Commit, Respond, Goto, RespondWith
<1>4. ASSUME NEW q \in Requests, ClientGivesUp(q) \/ StorageFails(q) \/ NoticeCancel(q)
      PROVE  NoneFails'
  <2>1. pc' = pc \/ pc' = [pc EXCEPT ![q] = "respond"]
    BY <1>4 DEF ClientGivesUp, StorageFails, NoticeCancel, Goto, RespondWith
  <2>2. call' = call
    BY <1>4 DEF ClientGivesUp, StorageFails, NoticeCancel
  <2>3. QED BY <2>1, <2>2
<1>5. CASE ProcessStep \/ UNCHANGED vars
  BY <1>5 DEF ProcessStep, Listen, SetReady, CloseGate, Drain, Drained, DrainTimeout, Exit,
              Crash, LoseProcess, InFlight, vars
<1>6. QED
  BY <1>1, <1>2, <1>3, <1>4, <1>5 DEF Next, RequestStep, HandlerStep

\* The rows of a request change with its own commit only.
LEMMA RowsOfChange ==
    ASSUME IInv, [Next]_vars, NEW r \in Requests
    PROVE  \/ RowsOf(r)' = RowsOf(r)
           \/ Commit(r) /\ RowsOf(r) = {} /\ RowsOf(r)' = FreshRows(r)
<1>1. CASE rows' = rows
  BY <1>1 DEF RowsOf
<1>2. ASSUME NEW q \in Requests, Commit(q)
      PROVE  IF q = r THEN RowsOf(r) = {} /\ RowsOf(r)' = FreshRows(r)
                      ELSE RowsOf(r)' = RowsOf(r)
  <2>1. rows' = rows \cup FreshRows(q) /\ \A row \in FreshRows(q) : row.request = q
    BY <1>2, CommitFacts, FreshRowsCover
  <2>2. RowsOf(q) = {}
    BY <1>2 DEF IInv, RowsAreExplained, RowsOf, Commit
  <2>3. QED BY <2>1, <2>2 DEF RowsOf
<1>3. QED BY <1>1, <1>2, RowsGrow

\* How a request that is not settled gets a success.
LEMMA NewSuccess ==
    ASSUME CInv, [Next]_vars, NEW r \in Requests, ~Settled(r), Confirmed(r)'
    PROVE  AnswerCounts(r)'
<1>0. /\ TypeOK /\ CallIsMade /\ pc[r] \notin {"respond", "answered", "lost"}
      /\ pc'[r] \in {"respond", "answered"} /\ reply'[r].status \in Success
      /\ RowsOf(r) = {}
  BY DEF CInv, IInv, RowsAreExplained, RowsOf, Settled, Confirmed, Replied
<1>1. ASSUME NEW q \in Requests, Handle(q) PROVE AnswerCounts(r)'
  <2>1. r = q
    BY <1>0, <1>1 DEF TypeOK, Handle, RespondWith, Goto
  <2>2. call[r] \in Calls /\ call' = call /\ rows' = rows
    BY <1>0, <1>1, <2>1 DEF CallIsMade, Handle
  <2>3. /\ RefusedAs(call[r]) # 0 => Failure(RefusedAs(call[r])).status \notin Success
        /\ Failure(500).status \notin Success
    BY <2>2, StatusType
  <2>4. /\ Failing(call[r].events) = {} /\ Valid(call[r].events) = {}
        /\ reply'[r] = StoredReply(call[r], 0)
    BY <1>0, <1>1, <2>1, <2>3 DEF TypeOK, Handle, RespondWith, Goto
  <2>5. RowsOf(r)' = {}
    BY <1>0, <2>2 DEF RowsOf
  <2>6. Cardinality(RowsOf(r))' = 0 /\ Cardinality(Valid(call[r].events)) = 0
    BY <2>4, <2>5, FS_EmptySet
  <2>7. QED BY <2>2, <2>4, <2>6 DEF AnswerCounts
<1>2. ASSUME NEW q \in Requests, Commit(q) PROVE AnswerCounts(r)'
  <2>1. r = q
    BY <1>0, <1>2 DEF TypeOK, Commit, RespondWith, Goto
  <2>2. /\ call[r] \in Calls /\ call' = call /\ tx = FreshRows(r)
        /\ Failing(call[r].events) = {}
    BY <1>2, <2>1 DEF CInv, IInv, CallIsMade, TxHolds, NoneFails, Commit
  <2>3. RowsOf(r)' = FreshRows(r)
    <3>1. rows' = rows \cup FreshRows(r) /\ \A row \in FreshRows(r) : row.request = r
      BY <1>2, <2>1, <2>2, CommitFacts, FreshRowsCover DEF CInv
    <3>2. QED BY <1>0, <3>1 DEF RowsOf
  <2>4. reply'[r] = StoredReply(call[r], Cardinality(FreshRows(r)))
    BY <1>0, <1>2, <2>1, <2>2 DEF TypeOK, Commit, RespondWith
  <2>5. /\ Cardinality(FreshRows(r)) \in Nat
        /\ Cardinality(FreshRows(r)) <= Cardinality(Valid(call[r].events))
    BY <2>2, FreshRowsCount, FreshRowsBound
  <2>6. QED BY <2>2, <2>3, <2>4, <2>5 DEF AnswerCounts
<1>3. ASSUME NEW q \in Requests, LoadFlag(q) \/ StorageFails(q) \/ NoticeCancel(q)
      PROVE  FALSE
  <2>1. Failure(500).status \notin Success /\ Failure(503).status \notin Success
        /\ \A code \in SQLiteCodes : Failure(StorageStatus(code)).status \notin Success
    BY StorageStatusType DEF Failure, Reply, Success
  <2>2. CASE LoadFlag(q)
    BY <1>0, <2>1, <2>2 DEF TypeOK, LoadFlag, RespondWith, Goto
  <2>3. CASE StorageFails(q)
    BY <1>0, <2>1, <2>3 DEF TypeOK, StorageFails, RespondWith, Goto
  <2>4. CASE NoticeCancel(q)
    BY <1>0, <2>1, <2>4 DEF TypeOK, NoticeCancel, RespondWith, Goto
  <2>5. QED BY <1>3, <2>2, <2>3, <2>4
<1>4. ASSUME NEW q \in Requests,
             \/ Submit(q) \/ ClientGivesUp(q) \/ Ping(q) \/ Begin(q) \/ Insert(q) \/ Respond(q)
      PROVE  FALSE
  BY <1>0, <1>4 DEF TypeOK, Submit, ClientGivesUp, Ping, Begin, Insert, Respond, Goto
<1>5. CASE ProcessStep \/ UNCHANGED vars
  BY <1>0, <1>5 DEF TypeOK, ProcessStep, Listen, SetReady, CloseGate, Drain, Drained,
                    DrainTimeout, Exit, Crash, LoseProcess, vars
<1>6. QED
  BY <1>1, <1>2, <1>3, <1>4, <1>5 DEF Next, RequestStep, HandlerStep

LEMMA AnswersCountStep == CInv /\ [Next]_vars => AnswersCount'
<1> SUFFICES ASSUME CInv, [Next]_vars, NEW r \in Requests, Confirmed(r)'
             PROVE  AnswerCounts(r)'
  BY DEF AnswersCount
<1>1. CASE Settled(r)
  <2>1. Confirmed(r) /\ call'[r] = call[r] /\ reply'[r] = reply[r]
    BY <1>1, SettledStays DEF CInv, Confirmed
  <2>2. RowsOf(r)' = RowsOf(r)
    BY <1>1, RowsOfChange DEF CInv, Settled, Commit
  <2>3. AnswerCounts(r)
    BY <2>1 DEF CInv, AnswersCount
  <2>4. QED BY <2>1, <2>2, <2>3 DEF AnswerCounts
<1>2. CASE ~Settled(r)
  BY <1>2, NewSuccess
<1>3. QED BY <1>1, <1>2

LEMMA CountsInvariance == Spec => []CInv
<1>1. Init => NoneFails /\ AnswersCount
  BY DEF Init, NoneFails, AnswersCount, Confirmed, Replied
<1>2. CInv /\ [Next]_vars => NoneFails' /\ AnswersCount'
  BY NoneFailsStep, AnswersCountStep
<1>3. QED BY <1>1, <1>2, Invariance, PTL DEF Spec, CInv

(* The counts of a 2xx are those of the table, whatever other calls have   *)
(* stored of the same events, and they add up (IngestResult, RowsAffected).*)
THEOREM AnswersAreExact == Spec => []CountsAreExact
<1>1. CInv => CountsAreExact
  <2> SUFFICES ASSUME CInv, NEW r \in Requests, Confirmed(r)
               PROVE  /\ reply[r].inserted = Cardinality(RowsOf(r))
                      /\ reply[r].received = Len(call[r].events)
                      /\ reply[r].duplicated \in Nat
                      /\ reply[r].received = reply[r].inserted + reply[r].duplicated
                                                + reply[r].rejected
                      /\ reply[r].status = 201 => RowsOf(r) # {}
    BY DEF CountsAreExact
  <2> DEFINE n == Cardinality(RowsOf(r))
             v == Cardinality(Valid(call[r].events))
             j == Cardinality(Rejected(call[r].events))
  <2>1. AnswerCounts(r) /\ call[r] \in Calls
    BY DEF CInv, IInv, CallIsMade, AnswersCount, Confirmed, Replied
  <2>2. v \in Nat /\ j \in Nat /\ n \in Nat /\ n <= v /\ Len(call[r].events) = v + j
    BY <2>1, CountsType, CallIsSplit DEF AnswerCounts
  <2>3. /\ reply[r].inserted = n /\ reply[r].received = Len(call[r].events)
        /\ reply[r].duplicated = v - n /\ reply[r].rejected = j
        /\ reply[r].status = 201 => n = 1
    BY <2>1 DEF AnswerCounts, StoredReply, Reply
  <2>4. RowsOf(r) = {} => n = 0
    BY FS_EmptySet
  <2>5. reply[r].duplicated \in Nat /\ Len(call[r].events) = n + (v - n) + j
    <3> HIDE DEF n, v, j
    <3> QED BY <2>2, <2>3
  <2>6. reply[r].status = 201 => RowsOf(r) # {}
    BY <2>3, <2>4
  <2>7. QED BY <2>3, <2>5, <2>6
<1>2. QED BY <1>1, CountsInvariance, PTL

-----------------------------------------------------------------------------
(* The closed gate.                                                        *)

\* The flag is set in the serving phase only.
GateInv == IInv /\ (accepting => phase = "serving")

LEMMA GateInvariance == Spec => []GateInv
<1>1. Init => GateInv
  BY IInvInit DEF Init, GateInv
<1>2. GateInv /\ [Next]_vars => (accepting => phase = "serving")'
  <2> SUFFICES ASSUME GateInv, [Next]_vars PROVE accepting' => phase' = "serving"
    OBVIOUS
  <2>1. CASE ProcessStep
    BY <2>1 DEF GateInv, ProcessStep, Listen, SetReady, CloseGate, Drain, Drained,
                      DrainTimeout, Exit, Crash, LoseProcess
  <2>2. ASSUME NEW q \in Requests, RequestStep(q)
        PROVE  UNCHANGED process
    BY <2>2 DEF RequestStep, HandlerStep, Submit, ClientGivesUp, LoadFlag, Ping, Handle, Begin,
                Insert, Commit, Respond, StorageFails, NoticeCancel
  <2>3. CASE UNCHANGED vars
    BY <2>3 DEF GateInv, vars
  <2>4. QED BY <2>1, <2>2, <2>3 DEF GateInv, Next, process
<1>3. QED BY <1>1, <1>2, Invariance, PTL DEF Spec, GateInv

Late(r) == pc[r] = "arrived" /\ phase \in {"unready", "draining", "forced"}

\* A call that came late, before and after the gate has turned it away.
Locked(r) == RowsOf(r) = {} /\ (Late(r) \/ Settled(r))

LEMMA LateIsLocked == ASSUME GateInv, NEW r \in Requests, Late(r) PROVE Locked(r)
BY DEF GateInv, IInv, RowsAreExplained, RowsOf, Late, Locked

LEMMA LockedStays ==
    ASSUME GateInv, [Next]_vars, NEW r \in Requests, Locked(r)
    PROVE  Locked(r)'
<1>1. RowsOf(r)' = {}
  BY RowsOfChange DEF GateInv, Locked, Late, Settled, Commit
<1>2. CASE Settled(r)
  BY <1>1, <1>2, SettledStays DEF GateInv, Locked
<1>3. ASSUME Late(r)
      PROVE  Late(r)' \/ Settled(r)'
  <2>0. ~accepting /\ TypeOK /\ pc[r] = "arrived" /\ phase \in {"unready", "draining", "forced"}
    BY <1>3 DEF GateInv, IInv, Late
  <2>1. ASSUME NEW q \in Requests, RequestStep(q)
        PROVE  phase' = phase /\ pc'[r] \in {"arrived", "respond"}
    <3>1. phase' = phase
      BY <2>1 DEF RequestStep, HandlerStep, Submit, ClientGivesUp, LoadFlag, Ping, Handle, Begin,
                  Insert, Commit, Respond, StorageFails, NoticeCancel, process
    <3>2. CASE q = r
      BY <3>1, <2>0, <2>1, <3>2 DEF TypeOK, RequestStep, HandlerStep, Submit, ClientGivesUp, LoadFlag,
             Ping, Handle, Begin, Insert, Commit, Respond, StorageFails, NoticeCancel, RespondWith, Goto
    <3>3. CASE q # r
      BY <3>1, <2>0, <2>1, <3>3 DEF TypeOK, RequestStep, HandlerStep, Submit, ClientGivesUp, LoadFlag,
             Ping, Handle, Begin, Insert, Commit, Respond, StorageFails, NoticeCancel, RespondWith, Goto
    <3>4. QED BY <3>1, <3>2, <3>3
  <2>2. CASE Exit \/ Crash
    BY <2>0, <2>2 DEF Exit, Crash, LoseProcess, InFlight, TypeOK, Settled
  <2>3. CASE Listen \/ SetReady \/ CloseGate \/ Drain \/ Drained \/ DrainTimeout
    BY <2>0, <2>3 DEF Listen, SetReady, CloseGate, Drain, Drained, DrainTimeout, InFlight, Late
  <2>4. CASE UNCHANGED vars
    BY <2>0, <2>4 DEF vars, Late
  <2>5. QED
    BY <2>0, <2>1, <2>2, <2>3, <2>4 DEF Next, ProcessStep, Late, Settled
<1>4. QED BY <1>1, <1>2, <1>3 DEF Locked

\* A call that reaches the gate after a shutdown has closed it never stores
\* anything (Readiness.Ready before Servers.shutdown).
THEOREM GateStaysShut == Spec => ClosedGateHolds
<1>1. ASSUME NEW r \in Requests
      PROVE  Spec => [](/\ pc[r] = "arrived"
                        /\ phase \in {"unready", "draining", "forced"}
                        => [](RowsOf(r) = {}))
  <2>1. /\ GateInv
        /\ pc[r] = "arrived" /\ phase \in {"unready", "draining", "forced"}
        => Locked(r)
    BY LateIsLocked DEF Late
  <2>2. GateInv /\ Locked(r) /\ [Next]_vars => Locked(r)'
    BY LockedStays
  <2>3. Locked(r) => RowsOf(r) = {}
    BY DEF Locked
  <2>4. QED BY <2>1, <2>2, <2>3, GateInvariance, PTL DEF Spec
<1>2. QED BY <1>1 DEF ClosedGateHolds

-----------------------------------------------------------------------------
(* Texts.                                                                  *)

\* A text is its three fields.
LEMMA TextIsBuilt ==
    ASSUME NEW t \in Texts
    PROVE  /\ t \in [word : STRING, padded : BOOLEAN, upper : BOOLEAN]
           /\ t.word \in STRING /\ t.padded \in BOOLEAN /\ t.upper \in BOOLEAN
           /\ t.word = "" => ~t.upper
BY DEF Texts

\* The two EXCEPTs of the spelling operators, over any set of flags.
LEMMA PaddedIsSet ==
    ASSUME NEW S, NEW v \in S, NEW r \in [word : STRING, padded : S, upper : S]
    PROVE  [r EXCEPT !.padded = v] = [word |-> r.word, padded |-> v, upper |-> r.upper]
BY SMT

LEMMA UpperIsSet ==
    ASSUME NEW S, NEW v \in S, NEW r \in [word : STRING, padded : S, upper : S]
    PROVE  [r EXCEPT !.upper = v] = [word |-> r.word, padded |-> r.padded, upper |-> v]
BY SMT

LEMMA TextFacts ==
    ASSUME NEW t \in Texts
    PROVE  /\ TrimSpace(t) = Text(t.word, FALSE, t.upper)
           /\ ToLower(TrimSpace(t)) = Text(t.word, FALSE, FALSE)
           /\ ToUpper(TrimSpace(t)) = Text(t.word, FALSE, TRUE)
           /\ IsBlank(t) <=> t.word = ""
<1> DEFINE R == [word : STRING, padded : BOOLEAN, upper : BOOLEAN]
           s == Text(t.word, FALSE, t.upper)
<1>1. t \in R
  BY TextIsBuilt
<1>2. TrimSpace(t) = s
  BY <1>1, PaddedIsSet, Zenon DEF TrimSpace, Text
<1>3. s.word = t.word /\ s.padded = FALSE
  BY DEF Text
<1>4. s \in R
  BY <1>1 DEF Text
<1>5. ToLower(s) = Text(t.word, FALSE, FALSE)
  <2>1. ToLower(s) = [word |-> s.word, padded |-> s.padded, upper |-> FALSE]
    BY <1>4, UpperIsSet, Zenon DEF ToLower
  <2> QED BY <1>3, <2>1, Zenon DEF Text
<1>6. ToUpper(s) = Text(t.word, FALSE, TRUE)
  <2>1. ToUpper(s) = [word |-> s.word, padded |-> s.padded, upper |-> TRUE]
    BY <1>4, UpperIsSet, Zenon DEF ToUpper
  <2> QED BY <1>3, <2>1, Zenon DEF Text
<1>7. IsBlank(t) <=> t.word = ""
  BY <1>2, <1>3 DEF IsBlank, IsEmpty
<1> HIDE DEF s
<1> QED BY <1>2, <1>5, <1>6, <1>7, Zenon DEF s

LEMMA SameTrimmed ==
    ASSUME NEW s \in Texts, NEW t \in Texts
    PROVE  TrimSpace(s) = TrimSpace(t) <=> s.word = t.word /\ s.upper = t.upper
<1>1. TrimSpace(s) = Text(s.word, FALSE, s.upper) /\ TrimSpace(t) = Text(t.word, FALSE, t.upper)
  BY TextFacts
<1>2. /\ Text(s.word, FALSE, s.upper).word = s.word /\ Text(s.word, FALSE, s.upper).upper = s.upper
      /\ Text(t.word, FALSE, t.upper).word = t.word /\ Text(t.word, FALSE, t.upper).upper = t.upper
  BY DEF Text
<1>3. CASE s.word = t.word /\ s.upper = t.upper
  BY <1>1, <1>3
<1>4. CASE TrimSpace(s) = TrimSpace(t)
  BY <1>1, <1>2, <1>4
<1> QED BY <1>3, <1>4

LEMMA TrimmedIsText ==
    ASSUME NEW t \in Texts
    PROVE  TrimSpace(t) \in Texts /\ TrimSpace(t) # Nil
<1>1. TrimSpace(t) = Text(t.word, FALSE, t.upper)
  BY TextFacts
<1>2. Text(t.word, FALSE, t.upper) \in Texts
  BY TextIsBuilt DEF Text, Texts
<1> QED BY <1>1, <1>2, NilIsNoValue

\* Trimmed texts are equal when their words are, with the letter case.
LEMMA SameWordIsTrimmed ==
    ASSUME NEW s \in Texts, NEW t \in Texts
    PROVE  /\ SameWord(s, t) <=> TrimSpace(s) = TrimSpace(t)
           /\ SameWord(s, t) <=> optionalString(s) = optionalString(t)
<1>1. /\ s.upper \in BOOLEAN /\ (s.word = "" => ~s.upper)
      /\ t.upper \in BOOLEAN /\ (t.word = "" => ~t.upper)
  BY TextIsBuilt
<1>2. TrimSpace(s) = TrimSpace(t) <=> s.word = t.word /\ s.upper = t.upper
  BY SameTrimmed
<1>3. SameWord(s, t) <=> TrimSpace(s) = TrimSpace(t)
  BY <1>1, <1>2, Zenon DEF SameWord
<1>4. /\ TrimSpace(s) \in Texts /\ TrimSpace(s) # Nil
      /\ TrimSpace(t) \in Texts /\ TrimSpace(t) # Nil
  BY TrimmedIsText
<1>5. (IsBlank(s) <=> s.word = "") /\ (IsBlank(t) <=> t.word = "")
  BY TextFacts
<1>6. SameWord(s, t) <=> optionalString(s) = optionalString(t)
  <2>1. CASE s.word = "" /\ t.word = ""
    BY <1>5, <2>1 DEF optionalString, SameWord
  <2>2. CASE s.word # "" /\ t.word # ""
    BY <1>3, <1>5, <2>2 DEF optionalString
  <2>3. CASE (s.word = "") # (t.word = "")
    <3>1. ~SameWord(s, t)
      BY <2>3 DEF SameWord
    <3>2. optionalString(s) # optionalString(t)
      BY <1>4, <1>5, <2>3 DEF optionalString
    <3> QED BY <3>1, <3>2
  <2> QED BY <2>1, <2>2, <2>3
<1> QED BY <1>3, <1>6

\* optionalString has a text for what is not blank.
LEMMA OptionalTexts ==
    ASSUME NEW t \in Texts
    PROVE  optionalString(t) = IF t.word = "" THEN Nil ELSE TrimSpace(t)
BY TextFacts DEF optionalString

-----------------------------------------------------------------------------
(* What is stored.                                                         *)

LEMMA CheckedFields ==
    ASSUME NEW e
    PROVE  /\ DOMAIN Checks(e) = 1..12
           /\ \A i \in 1..12 : Checks(e)[i].field \in Fields
<1> DEFINE c == Checks(e)
<1>1. DOMAIN c = 1..12
  BY DEF Checks
<1>2. /\ c[1].field = "container_name" /\ c[2].field = "service"
      /\ c[3].field = "message"        /\ c[4].field = "message"
      /\ c[5].field = "source"         /\ c[6].field = "logged_at"
      /\ c[7].field = "log_offset"     /\ c[8].field = "agent_id"
      /\ c[9].field = "log_path"       /\ c[10].field = "log_offset"
      /\ c[11].field = "container_id"  /\ c[12].field = "raw_event"
  BY DEF Checks
<1>3. \A i \in 1..12 : i = 1 \/ i = 2 \/ i = 3 \/ i = 4 \/ i = 5 \/ i = 6
                         \/ i = 7 \/ i = 8 \/ i = 9 \/ i = 10 \/ i = 11 \/ i = 12
  OBVIOUS
<1> HIDE DEF c
<1>4. /\ c[1].field \in Fields /\ c[2].field \in Fields /\ c[3].field \in Fields
      /\ c[4].field \in Fields /\ c[5].field \in Fields /\ c[6].field \in Fields
      /\ c[7].field \in Fields /\ c[8].field \in Fields /\ c[9].field \in Fields
      /\ c[10].field \in Fields /\ c[11].field \in Fields /\ c[12].field \in Fields
  BY <1>2 DEF Fields, TextFields
<1>5. ASSUME NEW i \in 1..12 PROVE c[i].field \in Fields
  BY <1>3, <1>4, Zenon
<1> QED BY <1>1, <1>5 DEF c

LEMMA ValidPasses ==
    ASSUME NEW input, InvalidField(input) = Nil
    PROVE  \A i \in 1..12 : ~Checks(input)[i].fails
<1> DEFINE checks == Checks(input)
           failed == {i \in DOMAIN checks : checks[i].fails}
<1>1. DOMAIN checks = 1..12 /\ \A i \in 1..12 : checks[i].field \in Fields
  BY CheckedFields
<1>2. failed = {}
  <2> SUFFICES ASSUME failed # {} PROVE FALSE
    OBVIOUS
  <2>1. failed \in SUBSET Nat
    BY <1>1
  <2>2. \E i \in failed : \A j \in failed : i <= j
    <3> HIDE DEF failed
    <3> QED BY <2>1, LeastNumber
  <2> DEFINE k == CHOOSE i \in failed : \A j \in failed : i <= j
  <2>3. k \in failed
    <3> HIDE DEF failed
    <3> QED BY <2>2
  <2>4. InvalidField(input) = checks[k].field
    BY DEF InvalidField
  <2>5. checks[k].field \in Fields
    BY <1>1, <2>3
  <2> HIDE DEF checks, k
  <2> QED BY <2>4, <2>5, NilIsNoValue
<1> QED BY <1>1, <1>2

LEMMA StoredIdentity ==
    ASSUME NEW input, PrepareLog(input).kind = "stored"
    PROVE  PrepareLog(input).event_id = fingerprint(NormalizedEvent(input))
<1>1. InvalidField(input) = Nil
  BY DEF PrepareLog
<1>2. ~fingerprintFails(NormalizedEvent(input))
  BY <1>1 DEF PrepareLog
<1> QED BY <1>1, <1>2 DEF PrepareLog

-----------------------------------------------------------------------------
(* The identity.                                                           *)

\* A fingerprint is decided by its parts.
LEMMA NamedTuples ==
    ASSUME NEW a, NEW b, NEW c, NEW d
    PROVE  <<"v1", a, b>> = <<"v1", c, d>> <=> a = c /\ b = d
OBVIOUS

LEMMA PlacedTuples ==
    ASSUME NEW a1, NEW a2, NEW a3, NEW a4, NEW a5, NEW a6, NEW a7,
           NEW b1, NEW b2, NEW b3, NEW b4, NEW b5, NEW b6, NEW b7
    PROVE  <<"v1", a1, a2, a3, a4, a5, a6, a7>> = <<"v1", b1, b2, b3, b4, b5, b6, b7>>
               <=> a1 = b1 /\ a2 = b2 /\ a3 = b3 /\ a4 = b4 /\ a5 = b5 /\ a6 = b6 /\ a7 = b7
OBVIOUS

LEMMA NamedIsNotPlaced ==
    ASSUME NEW a, NEW b,
           NEW b1, NEW b2, NEW b3, NEW b4, NEW b5, NEW b6, NEW b7
    PROVE  <<"v1", a, b>> # <<"v1", b1, b2, b3, b4, b5, b6, b7>>
<1>1. Len(<<"v1", a, b>>) = 3 /\ Len(<<"v1", b1, b2, b3, b4, b5, b6, b7>>) = 8
  OBVIOUS
<1> QED BY <1>1

ContainerOf(e) == IF e.container_id.word = "" THEN Plain("") ELSE TrimSpace(e.container_id)

Name(e)  == <<"v1", TrimSpace(e.service), TrimSpace(e.source_event_id)>>
Place(e) == <<"v1", TrimSpace(e.agent_id), ContainerOf(e), normalizedSource(e),
              optionalString(e.log_path), e.log_offset, e.logged_at.instant, e.message>>

\* The fields fingerprint looks at.
LEMMA NormalizedFields ==
    ASSUME NEW e
    PROVE  /\ NormalizedEvent(e).source_event_id = optionalString(e.source_event_id)
           /\ NormalizedEvent(e).service = TrimSpace(e.service)
           /\ NormalizedEvent(e).agent_id = TrimSpace(e.agent_id)
           /\ NormalizedEvent(e).container_id = optionalString(e.container_id)
           /\ NormalizedEvent(e).source = normalizedSource(e)
           /\ NormalizedEvent(e).log_path = optionalString(e.log_path)
           /\ NormalizedEvent(e).log_offset = e.log_offset
           /\ NormalizedEvent(e).logged_at = e.logged_at.instant
           /\ NormalizedEvent(e).message = e.message
BY DEF NormalizedEvent

LEMMA NamedIdentity ==
    ASSUME NEW e \in Submissions, e.source_event_id.word # ""
    PROVE  fingerprint(NormalizedEvent(e)) = Name(e)
<1>1. e.source_event_id \in Texts
  BY DEF Submissions
<1>2. optionalString(e.source_event_id) = TrimSpace(e.source_event_id)
  BY <1>1, OptionalTexts
<1>3. TrimSpace(e.source_event_id) # Nil
  BY <1>1, TrimmedIsText
<1>4. NormalizedEvent(e).source_event_id # Nil
  BY <1>2, <1>3, NormalizedFields
<1>5. fingerprint(NormalizedEvent(e)) =
          <<"v1", NormalizedEvent(e).service, NormalizedEvent(e).source_event_id>>
  BY <1>4, Zenon DEF fingerprint
<1> QED BY <1>2, <1>5, NormalizedFields, Zenon DEF Name

LEMMA PlacedIdentity ==
    ASSUME NEW e \in Submissions, e.source_event_id.word = ""
    PROVE  fingerprint(NormalizedEvent(e)) = Place(e)
<1> DEFINE n == NormalizedEvent(e)
<1>1. e.source_event_id \in Texts /\ e.container_id \in Texts
  BY DEF Submissions
<1>2. n.source_event_id = Nil
  BY <1>1, OptionalTexts, NormalizedFields
<1>3. ContainerOf(e) = IF n.container_id = Nil THEN Plain("") ELSE n.container_id
  <2>1. TrimSpace(e.container_id) # Nil
    BY <1>1, TrimmedIsText
  <2>2. n.container_id = IF e.container_id.word = "" THEN Nil ELSE TrimSpace(e.container_id)
    BY <1>1, OptionalTexts, NormalizedFields
  <2> QED BY <2>1, <2>2 DEF ContainerOf
<1>4. fingerprint(n) = <<"v1", n.agent_id, ContainerOf(e), n.source, n.log_path,
                         n.log_offset, n.logged_at, n.message>>
  <2> HIDE DEF n
  <2> QED BY <1>2, <1>3, Zenon DEF fingerprint
<1>5. /\ n.agent_id = TrimSpace(e.agent_id) /\ n.source = normalizedSource(e)
      /\ n.log_path = optionalString(e.log_path) /\ n.log_offset = e.log_offset
      /\ n.logged_at = e.logged_at.instant /\ n.message = e.message
  BY NormalizedFields
<1> HIDE DEF n
<1>6. fingerprint(n) = Place(e)
  BY <1>4, <1>5, Zenon DEF Place
<1> QED BY <1>6 DEF n

LEMMA SameContainers ==
    ASSUME NEW a \in Submissions, NEW b \in Submissions
    PROVE  ContainerOf(a) = ContainerOf(b) <=> SameWord(a.container_id, b.container_id)
<1> DEFINE s == a.container_id
           t == b.container_id
<1>1. s \in Texts /\ t \in Texts
  BY DEF Submissions
<1>2. Plain("").word = "" /\ TrimSpace(s).word = s.word /\ TrimSpace(t).word = t.word
  <2>1. TrimSpace(s) = Text(s.word, FALSE, s.upper) /\ TrimSpace(t) = Text(t.word, FALSE, t.upper)
    BY <1>1, TextFacts
  <2>2. /\ Text(s.word, FALSE, s.upper).word = s.word
        /\ Text(t.word, FALSE, t.upper).word = t.word
        /\ Plain("").word = ""
    BY DEF Text, Plain
  <2> QED BY <2>1, <2>2, Zenon
<1>3. SameWord(s, t) <=> TrimSpace(s) = TrimSpace(t)
  BY <1>1, SameWordIsTrimmed
<1>4. /\ ContainerOf(a) = IF s.word = "" THEN Plain("") ELSE TrimSpace(s)
      /\ ContainerOf(b) = IF t.word = "" THEN Plain("") ELSE TrimSpace(t)
  BY DEF ContainerOf
<1> HIDE DEF s, t
<1>5. CASE s.word = "" /\ t.word = ""
  BY <1>4, <1>5 DEF SameWord, s, t
<1>6. CASE s.word # "" /\ t.word # ""
  BY <1>3, <1>4, <1>6 DEF s, t
<1>7. CASE (s.word = "") # (t.word = "")
  <2>1. ContainerOf(a) # ContainerOf(b)
    <3>1. CASE s.word = "" /\ t.word # ""
      BY <1>2, <1>4, <3>1
    <3>2. CASE s.word # "" /\ t.word = ""
      BY <1>2, <1>4, <3>2
    <3> QED BY <1>7, <3>1, <3>2
  <2> QED BY <1>7, <2>1 DEF SameWord, s, t
<1> QED BY <1>5, <1>6, <1>7

LEMMA SameSources ==
    ASSUME NEW a \in Submissions, NEW b \in Submissions
    PROVE  normalizedSource(a) = normalizedSource(b) <=> a.source.word = b.source.word
<1>1. a.source \in Texts /\ b.source \in Texts
  BY DEF Submissions
<1>2. /\ normalizedSource(a) = Text(a.source.word, FALSE, FALSE)
      /\ normalizedSource(b) = Text(b.source.word, FALSE, FALSE)
  BY <1>1, TextFacts DEF normalizedSource
<1>3. /\ Text(a.source.word, FALSE, FALSE).word = a.source.word
      /\ Text(b.source.word, FALSE, FALSE).word = b.source.word
  BY DEF Text
<1> QED BY <1>2, <1>3

\* event_id tells stored submissions apart exactly as the reference does.
LEMMA IdentityTellsApart ==
    ASSUME NEW a \in Submissions, NEW b \in Submissions,
           PrepareLog(a).kind = "stored", PrepareLog(b).kind = "stored"
    PROVE  PrepareLog(a).event_id = PrepareLog(b).event_id <=> SameEvent(a, b)
<1> DEFINE p == fingerprint(NormalizedEvent(a))
           q == fingerprint(NormalizedEvent(b))
           named(e) == e.source_event_id.word # ""
<1>1. PrepareLog(a).event_id = p /\ PrepareLog(b).event_id = q
  BY StoredIdentity
<1>2. /\ a.service \in Texts /\ a.source_event_id \in Texts
      /\ a.agent_id \in Texts /\ a.log_path \in Texts
      /\ b.service \in Texts /\ b.source_event_id \in Texts
      /\ b.agent_id \in Texts /\ b.log_path \in Texts
  BY DEF Submissions
<1>3. CASE named(a) /\ named(b)
  <2>1. p = Name(a) /\ q = Name(b)
    BY <1>3, NamedIdentity
  <2>2. Name(a) = Name(b) <=> /\ TrimSpace(a.service) = TrimSpace(b.service)
                              /\ TrimSpace(a.source_event_id) = TrimSpace(b.source_event_id)
    BY NamedTuples, Zenon DEF Name
  <2>3. /\ SameWord(a.service, b.service) <=> TrimSpace(a.service) = TrimSpace(b.service)
        /\ SameWord(a.source_event_id, b.source_event_id)
               <=> TrimSpace(a.source_event_id) = TrimSpace(b.source_event_id)
    BY <1>2, SameWordIsTrimmed
  <2>4. p = q <=> SameSource(a, b)
    BY <2>1, <2>2, <2>3, Zenon DEF SameSource
  <2>5. SameEvent(a, b) <=> SameSource(a, b)
    BY <1>3 DEF SameEvent
  <2> QED BY <1>1, <2>4, <2>5, Zenon
<1>4. CASE ~named(a) /\ ~named(b)
  <2>1. p = Place(a) /\ q = Place(b)
    BY <1>4, PlacedIdentity
  <2>2. Place(a) = Place(b) <=> /\ TrimSpace(a.agent_id) = TrimSpace(b.agent_id)
                                /\ ContainerOf(a) = ContainerOf(b)
                                /\ normalizedSource(a) = normalizedSource(b)
                                /\ optionalString(a.log_path) = optionalString(b.log_path)
                                /\ a.log_offset = b.log_offset
                                /\ a.logged_at.instant = b.logged_at.instant
                                /\ a.message = b.message
    BY PlacedTuples, Zenon DEF Place
  <2>3. /\ SameWord(a.agent_id, b.agent_id) <=> TrimSpace(a.agent_id) = TrimSpace(b.agent_id)
        /\ SameWord(a.log_path, b.log_path) <=> optionalString(a.log_path) = optionalString(b.log_path)
    BY <1>2, SameWordIsTrimmed
  <2>4. /\ ContainerOf(a) = ContainerOf(b) <=> SameWord(a.container_id, b.container_id)
        /\ normalizedSource(a) = normalizedSource(b) <=> a.source.word = b.source.word
    BY SameContainers, SameSources
  <2>5. p = q <=> SamePosition(a, b)
    BY <2>1, <2>2, <2>3, <2>4, Zenon DEF SamePosition
  <2>6. SameEvent(a, b) <=> SamePosition(a, b)
    BY <1>4 DEF SameEvent
  <2> QED BY <1>1, <2>5, <2>6, Zenon
<1>5. CASE named(a) /\ ~named(b)
  <2>1. p = Name(a) /\ q = Place(b)
    BY <1>5, NamedIdentity, PlacedIdentity
  <2>2. p # q
    BY <2>1, NamedIsNotPlaced, Zenon DEF Name, Place
  <2>3. ~SameEvent(a, b)
    BY <1>5 DEF SameEvent
  <2> QED BY <1>1, <2>2, <2>3, Zenon
<1>6. CASE ~named(a) /\ named(b)
  <2>1. p = Place(a) /\ q = Name(b)
    BY <1>6, NamedIdentity, PlacedIdentity
  <2>2. p # q
    BY <2>1, NamedIsNotPlaced, Zenon DEF Name, Place
  <2>3. ~SameEvent(a, b)
    BY <1>6 DEF SameEvent
  <2> QED BY <1>1, <2>2, <2>3, Zenon
<1> QED BY <1>3, <1>4, <1>5, <1>6

-----------------------------------------------------------------------------
(* Errors of preparation.                                                  *)

\* What ComputeEventID relies on NormalizeEvent for.
LEMMA ValidEvent ==
    ASSUME NEW e \in Submissions, InvalidField(e) = Nil
    PROVE  /\ e.service.word # "" /\ e.message.bytes # 0
           /\ normalizedSource(e) \in Sources
           /\ e.source_event_id.word = "" =>
                /\ e.agent_id.word # "" /\ e.log_path.word # ""
                /\ e.log_offset # Nil /\ ~(e.log_offset < 0)
                /\ normalizedSource(e) \in ContainerSources => e.container_id.word # ""
<1>1. /\ e.service \in Texts /\ e.source_event_id \in Texts /\ e.agent_id \in Texts
      /\ e.log_path \in Texts /\ e.container_id \in Texts
  BY DEF Submissions
<1>2. /\ ~Checks(e)[2].fails /\ ~Checks(e)[3].fails /\ ~Checks(e)[5].fails
      /\ ~Checks(e)[7].fails /\ ~Checks(e)[8].fails /\ ~Checks(e)[9].fails
      /\ ~Checks(e)[10].fails /\ ~Checks(e)[11].fails
  BY ValidPasses
<1>3. ~IsBlank(e.service) /\ e.message.bytes # 0
  BY <1>2 DEF Checks
<1>4. normalizedSource(e) \in Sources
  BY <1>2 DEF Checks
<1>5. IsBlank(e.source_event_id) => /\ ~IsBlank(e.agent_id) /\ ~IsBlank(e.log_path)
                                    /\ e.log_offset # Nil
  BY <1>2 DEF Checks
<1>6. e.log_offset # Nil => ~(e.log_offset < 0)
  BY <1>2 DEF Checks
<1>7. IsBlank(e.source_event_id) /\ normalizedSource(e) \in ContainerSources
          => ~IsBlank(e.container_id)
  BY <1>2 DEF Checks
<1> QED BY <1>1, <1>3, <1>4, <1>5, <1>6, <1>7, TextFacts

LEMMA NotEmpty ==
    ASSUME NEW t \in Texts, t.word # ""
    PROVE  ~IsEmpty(TrimSpace(t)) /\ optionalString(t) = TrimSpace(t) /\ TrimSpace(t) # Nil
BY TextFacts, OptionalTexts, TrimmedIsText DEF IsBlank

(* Behind NormalizeEvent, ComputeEventID fails for one reason only: an     *)
(* event without source_event_id at Go's zero time.  No other event can    *)
(* make a whole batch end with 500, and every such event does              *)
(* (fingerprintInput of event_id.go after the checks of normalize.go).     *)
THEOREM OnlyZeroTimesFail ==
    \A e \in Submissions :
        PrepareLog(e).kind = "error" <=>
            /\ InvalidField(e) = Nil
            /\ e.source_event_id.word = "" /\ e.logged_at.instant = ZeroInstant
<1> TAKE e \in Submissions
<1> DEFINE n == NormalizedEvent(e)
<1>1. PrepareLog(e).kind = "error" <=> InvalidField(e) = Nil /\ fingerprintFails(n)
  BY DEF PrepareLog
<1>2. /\ e.service \in Texts /\ e.source_event_id \in Texts /\ e.agent_id \in Texts
      /\ e.log_path \in Texts /\ e.container_id \in Texts
  BY DEF Submissions
<1>3. /\ n.source_event_id = optionalString(e.source_event_id)
      /\ n.service = TrimSpace(e.service) /\ n.agent_id = TrimSpace(e.agent_id)
      /\ n.container_id = optionalString(e.container_id) /\ n.source = normalizedSource(e)
      /\ n.log_path = optionalString(e.log_path) /\ n.log_offset = e.log_offset
      /\ n.logged_at = e.logged_at.instant /\ n.message = e.message
  BY NormalizedFields
<1>4. ASSUME InvalidField(e) = Nil, e.source_event_id.word # "" PROVE ~fingerprintFails(n)
  <2>1. ~IsEmpty(n.service) /\ ~IsEmpty(n.source_event_id) /\ n.source_event_id # Nil
    BY <1>2, <1>3, <1>4, ValidEvent, NotEmpty
  <2> HIDE DEF n
  <2> QED BY <2>1 DEF fingerprintFails
<1>5. ASSUME InvalidField(e) = Nil, e.source_event_id.word = ""
      PROVE  fingerprintFails(n) <=> e.logged_at.instant = ZeroInstant
  <2>1. n.source_event_id = Nil
    BY <1>2, <1>3, <1>5, OptionalTexts
  <2>2. ~IsEmpty(n.agent_id) /\ n.log_path # Nil
    BY <1>2, <1>3, <1>5, ValidEvent, NotEmpty
  <2>3. /\ n.log_offset # Nil /\ ~(n.log_offset < 0) /\ n.source \in Sources
        /\ n.message.bytes # 0
    BY <1>3, <1>5, ValidEvent
  <2>4. n.source \in ContainerSources => n.container_id # Nil
    BY <1>2, <1>3, <1>5, ValidEvent, NotEmpty
  <2>5. n.logged_at = e.logged_at.instant
    BY <1>3
  <2> HIDE DEF n
  <2> QED BY <2>1, <2>2, <2>3, <2>4, <2>5 DEF fingerprintFails
<1> HIDE DEF n
<1> QED BY <1>1, <1>4, <1>5

-----------------------------------------------------------------------------
(* Respelling.                                                             *)

\* The verdict of NormalizeEvent is decided by which checks fail.
LEMMA SameFailures ==
    ASSUME NEW a, NEW b, \A i \in 1..12 : Checks(a)[i].fails <=> Checks(b)[i].fails
    PROVE  InvalidField(a) = InvalidField(b)
<1> DEFINE c == Checks(a)
           d == Checks(b)
           failing(checks) == {i \in DOMAIN checks : checks[i].fails}
<1>1. DOMAIN c = 1..12 /\ DOMAIN d = 1..12
  BY CheckedFields
<1>2. failing(c) = failing(d)
  BY <1>1
<1>3. \A i \in 1..12 : c[i].field = d[i].field
  <2>1. \A i \in 1..12 : i = 1 \/ i = 2 \/ i = 3 \/ i = 4 \/ i = 5 \/ i = 6
                           \/ i = 7 \/ i = 8 \/ i = 9 \/ i = 10 \/ i = 11 \/ i = 12
    OBVIOUS
  <2>2. /\ c[1].field = d[1].field /\ c[2].field = d[2].field /\ c[3].field = d[3].field
        /\ c[4].field = d[4].field /\ c[5].field = d[5].field /\ c[6].field = d[6].field
        /\ c[7].field = d[7].field /\ c[8].field = d[8].field /\ c[9].field = d[9].field
        /\ c[10].field = d[10].field /\ c[11].field = d[11].field /\ c[12].field = d[12].field
    BY DEF Checks
  <2> HIDE DEF c, d
  <2>3. ASSUME NEW i \in 1..12 PROVE c[i].field = d[i].field
    BY <2>1, <2>2, Zenon
  <2> QED BY <2>3
<1> DEFINE k(failed) == CHOOSE i \in failed : \A j \in failed : i <= j
<1>4. /\ InvalidField(a) = IF failing(c) = {} THEN Nil ELSE c[k(failing(c))].field
      /\ InvalidField(b) = IF failing(d) = {} THEN Nil ELSE d[k(failing(d))].field
  BY DEF InvalidField
<1>5. ASSUME failing(c) # {} PROVE k(failing(c)) \in 1..12
  <2>1. failing(c) \in SUBSET Nat /\ failing(c) \subseteq 1..12
    BY <1>1
  <2> HIDE DEF failing
  <2>2. \E i \in failing(c) : \A j \in failing(c) : i <= j
    BY <1>5, <2>1, LeastNumber
  <2>3. k(failing(c)) \in failing(c)
    BY <2>2
  <2> QED BY <2>1, <2>3
<1> HIDE DEF c, d, failing, k
<1> QED BY <1>2, <1>3, <1>4, <1>5

\* Two submissions that differ in spelling only, field by field.
LEMMA RespelledFields ==
    ASSUME NEW a \in Submissions, NEW b \in Submissions, SpellingOnly(a, b)
    PROVE  /\ TrimSpace(a.container_name) = TrimSpace(b.container_name)
           /\ TrimSpace(a.service) = TrimSpace(b.service)
           /\ TrimSpace(a.agent_id) = TrimSpace(b.agent_id)
           /\ IsBlank(a.container_name) <=> IsBlank(b.container_name)
           /\ IsBlank(a.service) <=> IsBlank(b.service)
           /\ IsBlank(a.agent_id) <=> IsBlank(b.agent_id)
           /\ IsBlank(a.log_path) <=> IsBlank(b.log_path)
           /\ IsBlank(a.container_id) <=> IsBlank(b.container_id)
           /\ IsBlank(a.source_event_id) <=> IsBlank(b.source_event_id)
           /\ optionalString(a.source_event_id) = optionalString(b.source_event_id)
           /\ optionalString(a.container_id) = optionalString(b.container_id)
           /\ optionalString(a.log_path) = optionalString(b.log_path)
           /\ normalizedSource(a) = normalizedSource(b)
           /\ normalizeLevel(a.level) = normalizeLevel(b.level)
           /\ normalizeRawEvent(a.raw_event) = normalizeRawEvent(b.raw_event)
<1>1. /\ a.container_name \in Texts /\ a.service \in Texts /\ a.agent_id \in Texts
      /\ a.log_path \in Texts /\ a.container_id \in Texts /\ a.source_event_id \in Texts
      /\ a.level \in Texts
  BY DEF Submissions
<1>2. /\ b.container_name \in Texts /\ b.service \in Texts /\ b.agent_id \in Texts
      /\ b.log_path \in Texts /\ b.container_id \in Texts /\ b.source_event_id \in Texts
      /\ b.level \in Texts
  BY DEF Submissions
<1>3. DOMAIN Spellings = TextFields
  BY EditsAssumption
<1>4. /\ SameWord(a.container_name, b.container_name) /\ SameWord(a.service, b.service)
      /\ SameWord(a.agent_id, b.agent_id) /\ SameWord(a.log_path, b.log_path)
      /\ SameWord(a.container_id, b.container_id)
      /\ SameWord(a.source_event_id, b.source_event_id)
      /\ a.source.word = b.source.word /\ a.level.word = b.level.word
  BY <1>3 DEF SpellingOnly, TextFields
<1>5. ASSUME NEW s \in Texts, NEW t \in Texts, SameWord(s, t)
      PROVE  /\ TrimSpace(s) = TrimSpace(t) /\ optionalString(s) = optionalString(t)
             /\ IsBlank(s) <=> IsBlank(t)
  <2>1. s.word = t.word
    BY <1>5 DEF SameWord
  <2>2. (IsBlank(s) <=> s.word = "") /\ (IsBlank(t) <=> t.word = "")
    BY TextFacts
  <2> QED BY <1>5, <2>1, <2>2, SameWordIsTrimmed
<1>6. normalizedSource(a) = normalizedSource(b)
  BY <1>4, SameSources
<1>7. normalizeLevel(a.level) = normalizeLevel(b.level)
  <2>1. /\ ToUpper(TrimSpace(a.level)) = Text(a.level.word, FALSE, TRUE)
        /\ ToUpper(TrimSpace(b.level)) = Text(b.level.word, FALSE, TRUE)
    BY <1>1, <1>2, TextFacts
  <2>2. ToUpper(TrimSpace(a.level)) = ToUpper(TrimSpace(b.level))
    BY <1>4, <2>1
  <2> QED BY <2>2, Zenon DEF normalizeLevel
<1>8. normalizeRawEvent(a.raw_event) = normalizeRawEvent(b.raw_event)
  BY DEF SpellingOnly, normalizeRawEvent
<1> QED BY <1>1, <1>2, <1>4, <1>5, <1>6, <1>7, <1>8, Zenon

LEMMA RespelledFailures ==
    ASSUME NEW a \in Submissions, NEW b \in Submissions, SpellingOnly(a, b)
    PROVE  \A i \in 1..12 : Checks(a)[i].fails <=> Checks(b)[i].fails
<1>1. /\ a.log_offset = b.log_offset /\ a.message = b.message
      /\ a.logged_at.form = b.logged_at.form /\ a.raw_event.form = b.raw_event.form
  BY DEF SpellingOnly
<1>2. /\ Checks(a)[1].fails <=> Checks(b)[1].fails
      /\ Checks(a)[2].fails <=> Checks(b)[2].fails
  BY RespelledFields DEF Checks
<1>3. /\ Checks(a)[3].fails <=> Checks(b)[3].fails
      /\ Checks(a)[4].fails <=> Checks(b)[4].fails
      /\ Checks(a)[6].fails <=> Checks(b)[6].fails
      /\ Checks(a)[7].fails <=> Checks(b)[7].fails
      /\ Checks(a)[12].fails <=> Checks(b)[12].fails
  BY <1>1 DEF Checks
<1>4. Checks(a)[5].fails <=> Checks(b)[5].fails
  BY RespelledFields DEF Checks
<1>5. /\ Checks(a)[8].fails <=> Checks(b)[8].fails
      /\ Checks(a)[9].fails <=> Checks(b)[9].fails
  BY RespelledFields DEF Checks
<1>6. /\ Checks(a)[10].fails <=> Checks(b)[10].fails
      /\ Checks(a)[11].fails <=> Checks(b)[11].fails
  BY <1>1, RespelledFields DEF Checks
<1>7. \A i \in 1..12 : i = 1 \/ i = 2 \/ i = 3 \/ i = 4 \/ i = 5 \/ i = 6
                         \/ i = 7 \/ i = 8 \/ i = 9 \/ i = 10 \/ i = 11 \/ i = 12
  OBVIOUS
<1>8. ASSUME NEW i \in 1..12 PROVE Checks(a)[i].fails <=> Checks(b)[i].fails
  <2> DEFINE alike(j) == Checks(a)[j].fails <=> Checks(b)[j].fails
  <2>1. /\ alike(1) /\ alike(2) /\ alike(3) /\ alike(4) /\ alike(5) /\ alike(6)
        /\ alike(7) /\ alike(8) /\ alike(9) /\ alike(10) /\ alike(11) /\ alike(12)
    BY <1>2, <1>3, <1>4, <1>5, <1>6
  <2> HIDE DEF alike
  <2>2. alike(i)
    BY <1>7, <2>1, Zenon
  <2> QED BY <2>2 DEF alike
<1> QED BY <1>8

LEMMA RespelledIsSame ==
    ASSUME NEW a \in Submissions, NEW b \in Submissions, SpellingOnly(a, b)
    PROVE  PrepareLog(a) = PrepareLog(b)
<1>1. InvalidField(a) = InvalidField(b)
  BY RespelledFailures, SameFailures
<1>2. /\ a.log_offset = b.log_offset /\ a.message = b.message
      /\ a.logged_at.instant = b.logged_at.instant
  BY DEF SpellingOnly
<1>3. NormalizedEvent(a) = NormalizedEvent(b)
  BY <1>2, RespelledFields, Zenon DEF NormalizedEvent
<1> QED BY <1>1, <1>3, Zenon DEF PrepareLog

-----------------------------------------------------------------------------
(* Every edit leaves a submission.                                         *)

SubmissionsOnly == first \in Submissions /\ again \in Submissions

LEMMA SubmissionsStart == ResubmissionInit => SubmissionsOnly
BY DeliveriesAssumption DEF ResubmissionInit, SubmissionsOnly

LEMMA SubmissionsStay ==
    ASSUME SubmissionsOnly, [ResubmissionNext]_resubmissionVars
    PROVE  SubmissionsOnly'
<1>1. CASE EditText
  <2>1. PICK field \in TextFields, t \in Texts : Edit(field, t)
    BY <1>1, EditsAssumption DEF EditText
  <2>2. field \in {"source_event_id", "agent_id", "container_name", "container_id", "service",
                   "level", "source", "log_path"}
    BY DEF TextFields
  <2> QED BY <2>1, <2>2 DEF Edit, SubmissionsOnly, Submissions
<1>2. CASE EditOffset
  BY <1>2, EditsAssumption DEF EditOffset, Edit, SubmissionsOnly, Submissions
<1>3. CASE EditTime
  BY <1>3, EditsAssumption DEF EditTime, Edit, SubmissionsOnly, Submissions
<1>4. CASE EditMessage
  BY <1>4, EditsAssumption DEF EditMessage, Edit, SubmissionsOnly, Submissions
<1>5. CASE EditRaw
  BY <1>5, EditsAssumption DEF EditRaw, Edit, SubmissionsOnly, Submissions
<1>6. CASE UNCHANGED resubmissionVars
  BY <1>6 DEF resubmissionVars, SubmissionsOnly
<1> QED BY <1>1, <1>2, <1>3, <1>4, <1>5, <1>6 DEF ResubmissionNext

\* Every behaviour goes from one submission to another.
LEMMA SubmissionsInvariant == ResubmissionSpec => []SubmissionsOnly
<1> QED BY SubmissionsStart, SubmissionsStay, PTL DEF ResubmissionSpec

(* Two deliveries that are stored share an event_id exactly when they are  *)
(* the same event: whatever fields were edited in between, and whatever    *)
(* their spelling, a re-delivery is recognized and a new event is kept.    *)
THEOREM IdentitiesAreExact == ResubmissionSpec => []IdentityIsExact
<1>1. SubmissionsOnly => IdentityIsExact
  <2> SUFFICES ASSUME SubmissionsOnly, BothStored
               PROVE  (PrepareLog(first).event_id = PrepareLog(again).event_id)
                          = SameEvent(first, again)
    BY DEF IdentityIsExact
  <2>1. PrepareLog(first).event_id = PrepareLog(again).event_id <=> SameEvent(first, again)
    BY IdentityTellsApart DEF SubmissionsOnly, BothStored
  <2>2. SameEvent(first, again) \in BOOLEAN
    BY DEF SameEvent, SameSource, SamePosition, SameWord
  <2> QED BY <2>1, <2>2
<1> QED BY <1>1, SubmissionsInvariant, PTL

(* A delivery that only respells another gets the same answer: the same    *)
(* row, the same rejected field, or the same error.                        *)
THEOREM RespellingsAreAnsweredAlike == ResubmissionSpec => []SpellingNeverMatters
<1>1. SubmissionsOnly => SpellingNeverMatters
  BY RespelledIsSame DEF SubmissionsOnly, SpellingNeverMatters
<1> QED BY <1>1, SubmissionsInvariant, PTL

=============================================================================

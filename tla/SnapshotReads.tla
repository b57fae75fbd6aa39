--------------------------- MODULE SnapshotReads ---------------------------
(***************************************************************************)
(* What the platform promises its readers: while the table grows, every    *)
(* answer is the one the table as a whole gives at one moment between the  *)
(* request and the answer.  A read may also be refused or fail, and then   *)
(* it says so.                                                             *)
(***************************************************************************)
CONSTANTS
    Readers,
    InitialTable,
    AnswerOf(_, _),   \* what a request finds in a table
    Idle, Waiting, NoAnswer

VARIABLES
    table,
    asked,     \* per reader: its latest request
    answer     \* per reader: Idle, Waiting, NoAnswer or the answer to it

vars == <<table, asked, answer>>

Init ==
    /\ table = InitialTable
    /\ answer = [r \in Readers |-> Idle]

\* Rows come, and never go.
Grow ==
    /\ table \subseteq table'
    /\ UNCHANGED <<asked, answer>>

Ask(r) ==
    /\ answer[r] # Waiting
    /\ asked' = [asked EXCEPT ![r] = asked'[r]]
    /\ answer' = [answer EXCEPT ![r] = Waiting]
    /\ UNCHANGED table

Reply(r) ==
    /\ answer[r] = Waiting
    /\ answer' = [answer EXCEPT ![r] = AnswerOf(asked[r], table)]
    /\ UNCHANGED <<table, asked>>

Refuse(r) ==
    /\ answer[r] = Waiting
    /\ answer' = [answer EXCEPT ![r] = NoAnswer]
    /\ UNCHANGED <<table, asked>>

Next == Grow \/ \E r \in Readers : Ask(r) \/ Reply(r) \/ Refuse(r)

Spec == Init /\ [][Next]_vars

=============================================================================

-------------------------- MODULE IdempotentStore --------------------------
(***************************************************************************)
(* What the ingestion API promises to whoever posts log events to it,      *)
(* without HTTP, goroutines, the connection pool or SQLite transactions.   *)
(* A caller asks for a set of keys to be stored.  The store takes all of   *)
(* them at once or none, takes a key only once whoever asks for it, and    *)
(* tells the caller "confirmed" only when every key is there and "refused" *)
(* only when the call has added none.  A caller that hears nothing knows   *)
(* nothing, and asks again.                                                *)
(***************************************************************************)

CONSTANTS
    Callers,   \* the calls made over time
    Keys       \* event IDs

VARIABLES
    stored,    \* the keys in the store
    wanted,    \* what each call asked for
    added,     \* the keys each call was the first to bring
    verdict    \* what each call has heard

storeVars == <<stored, wanted, added, verdict>>

StoreTypeOK ==
    /\ stored \subseteq Keys
    /\ wanted \in [Callers -> SUBSET Keys]
    /\ added \in [Callers -> SUBSET Keys]
    /\ verdict \in [Callers -> {"none", "pending", "confirmed", "refused", "unknown"}]

StoreInit ==
    /\ stored = {}
    /\ wanted = [c \in Callers |-> {}]
    /\ added = [c \in Callers |-> {}]
    /\ verdict = [c \in Callers |-> "none"]

Ask(c, K) ==
    /\ verdict[c] = "none"
    /\ verdict' = [verdict EXCEPT ![c] = "pending"]
    /\ wanted' = [wanted EXCEPT ![c] = K]
    /\ UNCHANGED <<stored, added>>

Take(c) ==
    /\ verdict[c] = "pending"
    /\ stored' = stored \cup wanted[c]
    /\ added' = [added EXCEPT ![c] = @ \cup (wanted[c] \ stored)]
    /\ UNCHANGED <<wanted, verdict>>

Confirm(c) ==
    /\ verdict[c] = "pending"
    /\ wanted[c] \subseteq stored
    /\ verdict' = [verdict EXCEPT ![c] = "confirmed"]
    /\ UNCHANGED <<stored, wanted, added>>

Refuse(c) ==
    /\ verdict[c] = "pending"
    /\ added[c] = {}
    /\ verdict' = [verdict EXCEPT ![c] = "refused"]
    /\ UNCHANGED <<stored, wanted, added>>

\* Any number of pending calls are cut off at once: a timeout, a crash.
Lose(C) ==
    /\ \A c \in C : verdict[c] = "pending"
    /\ verdict' = [c \in Callers |-> IF c \in C THEN "unknown" ELSE verdict[c]]
    /\ UNCHANGED <<stored, wanted, added>>

StoreNext ==
    \/ \E c \in Callers : \/ \E K \in SUBSET Keys : Ask(c, K)
                          \/ Take(c) \/ Confirm(c) \/ Refuse(c)
    \/ \E C \in SUBSET Callers : Lose(C)

StoreSpec == StoreInit /\ [][StoreNext]_storeVars

=============================================================================

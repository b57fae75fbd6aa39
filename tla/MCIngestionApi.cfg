\* Two requests, every kind of call, storage failures, a shutdown or a crash,
\* under the scheduler's fairness.
CONSTANTS
    Nil = Nil
    Nobody = Nobody
    NoCall = NoCall
    NoReply = NoReply
    r1 = r1
    r2 = r2
    MaxMessageBytes = 2
    Requests <- MCRequests
    Events <- MCEvents
    Input <- MCInput
    Calls <- MCCalls
    MaxBatch = 2
    SQLiteCodes = {5, 6, 10, 517}
    MaxFaults = 1
    MaxStops = 1
SPECIFICATION FairSpec
INVARIANTS
    NoDuplicateEventID
    ConfirmedIsStored
    CountsAreExact
PROPERTIES
    FirstWriteWins
    ImplementsStore
    ClosedGateHolds
    EveryCallEnds
\* A request is used once and stops are bounded: every behaviour ends.
CHECK_DEADLOCK FALSE

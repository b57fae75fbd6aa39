\* Two readers beside two more events, ints of four bits.
CONSTANTS
    Nil = Nil
    Nobody = Nobody
    MaxMessageBytes = 2
    MaxBatch = 2
    Events <- MCEvents
    Input <- MCInput
    Queries <- MCQueries
    InitialEvents <- MCInitialEvents
    DefaultPageSize = 2
    MaxPageSize = 3
    MaxInt = 7
    FirstInstant <- MCFirstInstant
    Instant1001 = 2
    LastInstant = 9
    u = u
    v = v
    Readers <- MCReaders
    MaxFaults = 1
SPECIFICATION Spec
SYMMETRY Symmetry
INVARIANTS
    NothingIsMissed
    OnlyShiftedAreRepeated
    NoInternalError
    SubmittedIsFound
PROPERTY
    ImplementsSnapshots
\* Readers stop at the last page.
CHECK_DEADLOCK FALSE

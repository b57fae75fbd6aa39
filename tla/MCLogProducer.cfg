\* Two cycles, stderr in every second one; two starts with or without
\* PRODUCER_RUN_ID, one restart by Docker after each, and one fault.
CONSTANTS
    Cycles = 2
    StderrEvery = 2
    MaxRestarts = 1
    MaxSequence = 1
    MaxStarts = 2
    MaxFaults = 1
SPECIFICATION LiveSpec
INVARIANTS
    TypeOK
    OnlyGivenIDsAreDropped
    CompletedRunIsComplete
PROPERTY
    EverythingArrives
\* The operator's starts are bounded.
CHECK_DEADLOCK FALSE

\* One client with two requests, beside ingestions.
CONSTANTS
    Nil = Nil
    Nobody = Nobody
    Writer = Writer
    MaxMessageBytes = 2
    MaxBatch = 2
    Events <- MCEvents
    Input <- MCInput
    Calls <- MCCalls
    InitialEvents <- MCInitialEvents
    DefaultPageSize = 3
    MaxPageSize = 3
    MaxInt = 7
    FirstInstant <- MCFirstInstant
    Instant1001 = 2
    LastInstant = 9
    u = u
    Clients = {u}
    MaxRequests = 2
    MaxFaults = 1
SPECIFICATION LiveSpec
INVARIANTS
    DetailIsWhatWasListed
    StatsAgreeWithList
    EveryAnswerIsLogged
    OnlyFarTimesFail
PROPERTY
    EveryRequestEnds
\* The client stops after its last request.
CHECK_DEADLOCK FALSE

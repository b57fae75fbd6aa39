\* Two requests whose handlers need not return, two failing servers or ports, two stops.
CONSTANTS
    r1 = r1
    r2 = r2
    Requests <- MCRequests
    MaxFailures = 2
    MaxStops = 2
SPECIFICATION FairSpec
INVARIANTS
    ReadyMeansBound
    CleanExit
    NoPortLeft
PROPERTIES
    ImplementsPhases
    StopsInTheEnd
\* A process that nothing stops any more waits in its select for ever.
CHECK_DEADLOCK FALSE

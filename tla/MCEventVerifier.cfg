\* Three events expected; pages of two rows; any of six events may come, of which two
\* pages hold four.
CONSTANTS
    Events <- MCEvents
    LoggedAt <- MCLoggedAt
    Name <- MCName
    Prefixed <- MCPrefixed
    Stream <- MCStream
    Sound <- MCSound
    Wanted <- MCWanted
    Expected = 3
    PageSize = 2
    MaxPages = 2
    MaxUnanswered = 1
SPECIFICATION VerifierLiveSpec
INVARIANTS
    PassIsTrue
    FailureIsReal
PROPERTY
    VerifierDecides
\* The verifier ends.
CHECK_DEADLOCK FALSE

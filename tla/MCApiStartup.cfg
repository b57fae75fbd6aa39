\* Fourteen environments, one change of it, two faults.
CONSTANTS
    Unset = Unset
    Malformed = Malformed
    Environments <- MCEnvironments
    ToLower <- MCToLower
    Socket <- MCSocket
    MaxChanges = 1
    MaxFaults = 2
SPECIFICATION StartupLiveSpec
INVARIANT
    ServesOnWholeSchema
PROPERTY
    AcceptedIsServed
\* A process that is served and that nothing stops any more goes on for ever.
CHECK_DEADLOCK FALSE

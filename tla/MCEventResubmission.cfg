\* An event and its re-deliveries, respelled or changed in up to three fields.
CONSTANTS
    Nil = Nil
    MaxMessageBytes = 2
    Deliveries <- MCDeliveries
    Spellings <- MCSpellings
    Offsets <- MCOffsets
    Times <- MCTimes
    Messages <- MCMessages
    RawEvents <- MCRawEvents
    MaxEdits = 3
SPECIFICATION ResubmissionSpec
INVARIANTS
    IdentityIsExact
    SpellingNeverMatters
\* The bound on edits ends every behaviour.
CHECK_DEADLOCK FALSE

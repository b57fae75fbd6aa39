\* A file of five lines that fit and one with a line that does not,
\* batches of two, and two faults of any kind.
CONSTANTS
    Nil = Nil
    MaxMessageBytes = 2
    Events <- MCEvents
    Input <- MCInput
    MaxBatch = 3
    LogFiles <- MCLogFiles
    Shape <- MCShape
    Size <- MCSize
    MaxBody = 2
    BulkMax = 2
    BatchSize = 2
    QueueMax = 4
    MaxFaults = 2
SPECIFICATION FairSpec
PROPERTIES
    OnlyTooLargeIsLost
    EveryLineArrives
    EveryBatchEnds
\* The file has an end, and with it the delivery.
CHECK_DEADLOCK FALSE

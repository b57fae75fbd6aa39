\* One line whose time is the zero time, one good line, no faults.
CONSTANTS
    Nil = Nil
    MaxMessageBytes = 2
    Events <- MCEvents
    Input <- MCInput
    MaxBatch = 3
    LogFiles <- MCZeroTimeFiles
    Shape <- MCShape
    Size <- MCSize
    MaxBody = 2
    BulkMax = 2
    BatchSize = 2
    QueueMax = 4
    MaxFaults = 0
SPECIFICATION FairSpec
PROPERTY
    EveryBatchEnds
\* The file has an end, and with it the delivery.
CHECK_DEADLOCK FALSE

\* Every table of up to twelve rows.
CONSTANTS
    Levels <- MCLevels
    MaxRows = 12
SPECIFICATION StatsSpec
INVARIANT
    RoundingOnly
\* Nothing is added to a full table.
CHECK_DEADLOCK FALSE

SPECIFICATION FairSpec
CONSTANTS
    Rows = {1, 2}
    Ticks = {k1}
    BatchSize = 2
    MaxFailures = 1
PROPERTY EveryEventPublished
\* Every row can have been published and consumed.
CHECK_DEADLOCK FALSE

SPECIFICATION SupervisedSpec
CONSTANTS
    Rows = {1, 2, 3}
    Ticks = {k1, k2}
    BatchSize = 2
    MaxFailures = 1
INVARIANT TypeOK
INVARIANT ExtraCopiesNeedFailures
INVARIANT PublishedWasSent
PROPERTY EveryEventPublished
\* Every row can have been published and consumed.
CHECK_DEADLOCK FALSE

SPECIFICATION FairSpec
CONSTANTS
    Runners = {new1, new2, old}
    new1 = new1
    new2 = new2
    old = old
    NumFiles = 3
    Ships <- Releases
    MaxFailures = 1
    None = None
INVARIANT TypeOK
INVARIANT SchemaIsRecorded
INVARIANT ReportsAreTrue
PROPERTY EveryRunnerEnds
\* Every runner can have reported success.
CHECK_DEADLOCK FALSE

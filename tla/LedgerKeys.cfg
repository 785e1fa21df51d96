SPECIFICATION FairSpec
CONSTANTS
    Customers <- Cust
    Suspense <- Susp
    Treasury <- Trea
    Keys = {k1, k2}
    Destinations = {d1, d2}
    k1 = k1
    k2 = k2
    d1 = d1
    d2 = d2
    None = None
    Handlers = {h1, h2, h3}
    Unopened = {3}
    Opening <- FundsBefore3
    Requests <- KeyRequests
    MaxSafe = 3
    PoolSize = 2
    MaxFailures = 1
INVARIANT OkAnswersAgree
INVARIANT BookedWhole
INVARIANT RefusalsLeaveNoTrace
INVARIANT WinnerIsThere
PROPERTY AtomicSpec
PROPERTY EveryRequestAnswered
\* Every request can be answered; then nothing is left to do.
CHECK_DEADLOCK FALSE

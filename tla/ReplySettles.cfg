SPECIFICATION FairSpec
CONSTANTS
    Transfers = {t1, t2}
    t1 = t1
    Deliveries = {d1, d2}
    Sweepers = {w1}
    LateRequests <- FirstMayBeLate
    MaxFailures = 1
    None = None
INVARIANT TypeOK
INVARIANT RefundFollowsStatus
INVARIANT OnTimeAgreesWithHub
INVARIANT AckedMeansSettled
PROPERTY ClosingSpec
PROPERTY NothingStaysInDoubt
\* Every message can have been handled and nothing be left DEBITED.
CHECK_DEADLOCK FALSE

SPECIFICATION Spec
CONSTANTS
    Customers <- Cust
    Suspense <- Susp
    Treasury <- Trea
    Keys = {k1, k2}
    Destinations = {d1, d2}
    k1 = k1
    k2 = k2
    d1 = d1
    d2 = d2
    None = None
    Handlers = {h1, h2, h3, h4}
    Unopened = {}
    Opening <- Funds
    Requests <- ContentionRequests
    MaxSafe = 6
    PoolSize = 3
    MaxFailures = 1
SYMMETRY Symmetry
INVARIANT TypeOK
INVARIANT NoOverdraft
INVARIANT CheckedBalanceIsCurrent
INVARIANT NoWaitCycle
INVARIANT LedgerInv
\* Every request can be answered; then nothing is left to do.
CHECK_DEADLOCK FALSE

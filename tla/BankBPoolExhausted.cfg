SPECIFICATION FairSpec
CONSTANTS
    Transfers = {t1, t2}
    t1 = t1
    t2 = t2
    acc1 = acc1
    acc2 = acc2
    junk = junk
    Accounts = {acc1, acc2}
    Garbled = {junk}
    Opened = {acc1}
    PayeeOf <- Payees
    None = None
    Deliveries = {d1, d2, d3}
    Prefetch = 2
    PoolSize = 2
    MaxFailures = 0
PROPERTY EveryDeliveryEnds
\* Every message can have been handled; then nothing is left to do.
CHECK_DEADLOCK FALSE

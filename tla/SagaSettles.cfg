SPECIFICATION FairSpec
CONSTANTS
    Payments = {p1}
    Lossy <- RequestsAndOutcomes
    Timely = TRUE
    MaxFailures = 4
INVARIANT TypeOK
INVARIANT BanksAgree
PROPERTY PaymentSpec
PROPERTY EveryPaymentEnds
\* Every payment can have ended and been shown.
CHECK_DEADLOCK FALSE

SPECIFICATION Spec
CONSTANTS
    Payments = {p1}
    Lossy = {}
    Timely = FALSE
    MaxFailures = 0
INVARIANT NeverDuplicated
\* Every payment can have ended and been shown.
CHECK_DEADLOCK FALSE

SPECIFICATION Spec
CONSTANTS
    Settlements = {s1, s2}
    s1 = s1
    s2 = s2
    s3 = s3
    bankA = bankA
    bankB = bankB
    bankC = bankC
    Banks = {bankA, bankB, bankC}
    Founders = {bankA, bankB}
    Payer <- Payers
    Payee <- Payees
    Verdict <- Answers
    None = None
    Deliveries = {d1, d2, d3}
    ReplyHandlers = 2
    MaxFailures = 0
SYMMETRY Symmetry
INVARIANT ReservesFollowStatus
\* Every message can have been handled; then nothing is left to do.
CHECK_DEADLOCK FALSE

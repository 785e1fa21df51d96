SPECIFICATION FairSpec
CONSTANTS
    Settlements = {s1, s2, s3}
    s1 = s1
    s2 = s2
    s3 = s3
    bankA = bankA
    bankB = bankB
    bankC = bankC
    Banks = {bankA, bankB, bankC}
    Founders = {bankA, bankB}
    Payer <- Payers
    Payee <- Payees
    Verdict <- Answers
    None = None
    Deliveries = {d1, d2, d3}
    ReplyHandlers = 1
    MaxFailures = 1
INVARIANT TypeOK
INVARIANT ReservesFollowStatus
INVARIANT OneOutcomePerSettlement
INVARIANT AckMeansDone
PROPERTY SettlementSpec
PROPERTY EveryDeliveryEnds
\* Every message can have been handled; then nothing is left to do.
CHECK_DEADLOCK FALSE

CONSTANTS
    Sessions = {s1, s2}
    Refunds = {r1, r2, r3}
    Keys = {k1}
    Payment = Payment
    None = None
    Amount = 2
    MaxRequests = 5
SPECIFICATION Spec
SYMMETRY Symmetry
CHECK_DEADLOCK FALSE
INVARIANTS
    OneRefundPerKey
    CardRefundsMoved
    CreditRefundsCovered
    TransferCompletedOnce

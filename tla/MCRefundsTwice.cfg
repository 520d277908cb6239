CONSTANTS
    Sessions = {s1, s2}
    Refunds = {r1, r2, r3}
    Keys = {k1}
    Payment = Payment
    None = None
    Amount = 2
    MaxRequests = 4
SPECIFICATION Spec
SYMMETRY Symmetry
CHECK_DEADLOCK FALSE
INVARIANT NotOverRefunded

CONSTANTS
    Sessions = {s1, s2, s3}
    Payments = {p1}
    CardPayments = {p1}
    Invoices = {i1, i2}
    Credits = {}
    None = None
    PaymentPence = 2
    InvoicePence = 1
    CreditPence = 1
    Amount <- SameAmount
    Total <- SameTotal
    Credit <- SameCredit
    MaxTarget = 2
    MaxRequests = 4
SPECIFICATION Spec
SYMMETRY Symmetry
CHECK_DEADLOCK FALSE
INVARIANTS
    NeverOverPaid

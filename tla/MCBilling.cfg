CONSTANTS
    Sessions = {s1, s2}
    Payments = {p1, p2}
    CardPayments = {p1, p2}
    Invoices = {i1, i2}
    Credits = {c1}
    None = None
    PaymentPence = 2
    InvoicePence = 2
    CreditPence = 1
    Amount <- SameAmount
    Total <- SameTotal
    Credit <- SameCredit
    MaxTarget = 1
    MaxRequests = 4
SPECIFICATION Spec
SYMMETRY Symmetry
CHECK_DEADLOCK FALSE
INVARIANTS
    PaymentNotOverAllocated
    PaymentProjectionTrue
    VoidedPaymentUnallocated
    CreditNoteNotOverApplied
    InvoiceNotOverPaid
    InvoiceProjectionTrue
PROPERTIES
    VoidedCreditNoteFrozen

CONSTANTS
    Requests = {1, 2}
    Repayments = {11}
    Limits = {1, 2}
    Amount = 1
    Hooks = {h1, h2}
    MaxDeliveries = 3
    Disputes = {d1, d2}
    None = None
    NoKey = NoKey
SPECIFICATION Spec
INVARIANTS
    OneOrderPerDraft
SYMMETRY Interchangeable
CHECK_DEADLOCK FALSE

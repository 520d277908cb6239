CONSTANTS
    s1 = s1
    s2 = s2
    k1 = k1
    none = none
    Sessions = {s1, s2}
    NoSession = none
    Keys = {k1}
    NoKey = none
    Amounts = {1, 2}
    Limits = {1, 2}
    NoLimit = none
    MaxRequests = 4
SYMMETRY SessionSymmetry
SPECIFICATION Spec
INVARIANTS
    TypeOK
    WalletMatchesLedger
    LedgerChain
    KeyAppliedOnce
    HistoryMatchesStatus
PROPERTIES
    SpendWithinLimit
    ClosedReopenedOnlyByApproval
    ImplementsWallet
CHECK_DEADLOCK FALSE

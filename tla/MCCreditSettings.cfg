CONSTANTS
    o1 = o1
    o2 = o2
    limit = limit
    none = none
    Orgs = {o1, o2}
    Kinds = {limit}
    Values = {1, 2}
    NoValue = none
    MaxDay = 2
    MaxRows = 2
    MaxCrashes = 1
SPECIFICATION FairSpec
INVARIANTS
    PendingHasRow
PROPERTIES
    AppliedRowIsTrue
    DueAppliedIfUnambiguous

CONSTANTS
    o1 = o1
    o2 = o2
    limit = limit
    none = none
    Orgs = {o1, o2}
    Kinds = {limit}
    Values = {1, 2}
    NoValue = none
    MaxDay = 1
    MaxRows = 2
    MaxCrashes = 0
SPECIFICATION FairSpec
PROPERTIES
    DueApplied

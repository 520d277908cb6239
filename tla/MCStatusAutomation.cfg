CONSTANTS
    Packages = {p}
    Stops = {s}
    Statuses = {"A", "B"}
    Initial = "B"
    Unchecked = {"B"}
    Sessions = {r1, r2}
    global = global
    custom = custom
    stops = stops
    Rules = {global, custom, stops}
    Rule <- MCRule
    None = None
    MaxRequests = 2
    MaxEdits = 1
    MaxCrashes = 2
    MaxTries = 2
SPECIFICATION Spec
SYMMETRY MCSymmetry
INVARIANTS
    OneRulePerEvent
    DriftNeedsStaleRepeat
CHECK_DEADLOCK FALSE

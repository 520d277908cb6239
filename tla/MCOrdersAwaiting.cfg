SPECIFICATION OrdersSpec
CONSTANTS
    p1 = p1
    p2 = p2
    t1 = t1
    t2 = t2
    Null = Null
    Sessions = {s1}
    Packages = {p1, p2}
    Stops = {t1}
    StopOf <- OneStop
    Kinds <- ReturnKinds
    Reported = {"PENDING_PICKUP"}
    MaxRequests = 5
INVARIANT AwaitingCanBeResolved
CHECK_DEADLOCK FALSE

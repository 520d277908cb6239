SPECIFICATION OrdersSpec
CONSTANTS
    p1 = p1
    p2 = p2
    t1 = t1
    t2 = t2
    Null = Null
    Sessions = {s1, s2}
    Packages = {p1, p2}
    Stops = {t1, t2}
    StopOf <- TwoStops
    Kinds = {"cancel"}
    Reported = {"PENDING_PICKUP"}
    MaxRequests = 2
PROPERTY OrderAlwaysReflects
CHECK_DEADLOCK FALSE

SPECIFICATION OrdersSpec
CONSTANTS
    p1 = p1
    p2 = p2
    t1 = t1
    t2 = t2
    Null = Null
    Sessions = {s1, s2}
    Packages = {p1, p2}
    Stops = {t1}
    StopOf <- OneStop
    Kinds <- ReturnKinds
    Reported = {"PENDING_PICKUP", "CUSTOMER_NOT_HOME"}
    MaxRequests = 3
PROPERTY MetadataWithLastResolve
CHECK_DEADLOCK FALSE

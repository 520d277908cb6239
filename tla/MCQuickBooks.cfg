CONSTANTS
    ApiSession = ApiSession
    MaxJobs = 2
    None = None
    MaxTries = 2
    MaxRequests = 2
    MaxFaults = 1
SPECIFICATION Spec
INVARIANTS
    NoDoubleBooking
    FingerprintTruthful
    JobsNotStuck
CHECK_DEADLOCK FALSE

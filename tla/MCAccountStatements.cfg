CONSTANTS
    every = every
    monthly = monthly
    once = once
    Schedules = {every, monthly, once}
    Config <- MCConfig
    MonthStarts <- MCMonthStarts
    QuarterStarts <- MCQuarterStarts
    UserPeriods <- MCUserPeriods
    MaxPeriodDays = 4
    None = None
    LastDay = 3
    LastCreation = 0
    MaxRequests = 1
    MaxStatements = 2
    MaxFaults = 1
    MaxTries = 1
SPECIFICATION Spec
INVARIANTS
    EveryDayStatedOnce
    MailedIsStored
CHECK_DEADLOCK FALSE

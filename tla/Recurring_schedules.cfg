SPECIFICATION FairSpec
CONSTANTS
    Templates = {t1}
    Calls = {c1, c2}
    Cron = c1
    FirstDay <- MCFirstDay
    Starts = {28, 31}
    Clock = {31, 59}
    MaxFaults = 1
    MaxTouched = 1
CHECK_DEADLOCK FALSE
INVARIANTS TypeOK OncePerPeriod MonthsCovered
PROPERTIES CatchesUp

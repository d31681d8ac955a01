SPECIFICATION FairSpec
CONSTANTS
    w1 = w1
    w2 = w2
    m1 = m1
    m2 = m2
    Messages = {m1, m2}
    Nudges = {m1, m2}
    Poison = {}
    Workers <- OnlyCron
    Cron = w1
    MaxAttempts = 2
    SweepLimit = 1
    MayUnconfigure = TRUE
    MaxCrashes = 1
CHECK_DEADLOCK FALSE
PROPERTIES SettledIsFinal QueuedRowsSettle

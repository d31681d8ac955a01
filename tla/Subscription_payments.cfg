SPECIFICATION FairSubscriptionSpec
CONSTANTS
    cron = cron
    h1 = h1
    h2 = h2
    o1 = o1
    o2 = o2
    NoOrder = NoOrder
    Orders = {o1, o2}
    Calls <- TwoCallers
    LapseRun = cron
    Month = 2
    Trial = 1
    MaxTime = 5
    MaxApplications = 3
    MaxEdits = 2
CHECK_DEADLOCK FALSE
INVARIANTS AppliedAgainOnlyAfterAnother NoUnappliedTime
PROPERTY LapseIsNoticed

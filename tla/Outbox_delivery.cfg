SPECIFICATION Spec
CONSTANTS
    w1 = w1
    w2 = w2
    m1 = m1
    m2 = m2
    Messages = {m1, m2}
    Nudges = {m2}
    Poison = {m2}
    Workers <- TwoWorkers
    Cron = w1
    MaxAttempts = 2
    SweepLimit = 2
    MayUnconfigure = FALSE
    MaxCrashes = 1
CHECK_DEADLOCK FALSE
INVARIANTS OnceUnlessDisturbed SentWasTaken

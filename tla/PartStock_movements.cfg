SPECIFICATION Spec
CONSTANTS
    Parts = {p1}
    Locations <- MCTwoLocations
    Closable = {1}
    Jobs = {j1}
    PaidJobs = {}
    Reservations = {r1}
    Transfers = {t1}
    Counts = {k1}
    Requests = {c1}
    Updates = {}
    MaxQty = 1
    MaxOpening = 1
    MaxEdits = 1
SYMMETRY Symmetry
CHECK_DEADLOCK FALSE
INVARIANTS LedgerExplainsOnHand
PROPERTIES LocationsFollowPart

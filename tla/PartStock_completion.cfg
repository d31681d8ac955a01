SPECIFICATION Spec
CONSTANTS
    Parts = {p1}
    Locations <- MCTwoLocations
    Closable = {}
    Jobs = {j1}
    PaidJobs = {}
    Reservations = {r1, r2}
    Transfers = {}
    Counts = {}
    Requests = {c1, c2}
    Updates = {u1, u2}
    MaxQty = 1
    MaxOpening = 2
    MaxEdits = 1
SYMMETRY Symmetry
CHECK_DEADLOCK FALSE
INVARIANTS ReservedMatchesReservations QuoteConsumedOnce RowsAddUpToReserved

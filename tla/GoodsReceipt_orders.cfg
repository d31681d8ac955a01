SPECIFICATION Spec
CONSTANTS
    Orders = {o1}
    Parts = {p1, p2}
    Services = {}
    Ordered <- MCOrdered
    Notes = {n1, n2}
    Calls = {c1, c2}
    Worths = {1}
    Bills = {b1, b2}
    Forms <- MCForms
    NoOrder = NoOrder
    NoNote = NoNote
    MaxMoves = 2
SYMMETRY Symmetry
CHECK_DEADLOCK FALSE
INVARIANTS NeverOverReceived ReceivedMatchesNotes NoteBilledOnce BilledWithinOrder ClosedOrdersAreEmpty
PROPERTIES ImplementsStockBook

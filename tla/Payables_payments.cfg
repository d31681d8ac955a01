SPECIFICATION Spec
CONSTANTS
    Bills = {b1}
    Expenses = {e1}
    Jobs = {j1}
    Payments = {p1, p2}
    TotalAmount <- MCTotalAmount
    Foreign = {b1}
    Rate <- MCRate
    SettledRates = {2}
    Costs = {0, 2}
    Buckets <- MCBuckets
    Calls = {c1, c2}
    MaxAmount = 2
    MaxUpdates = 1
CONSTRAINT TwoInPlay
SYMMETRY Symmetry
CHECK_DEADLOCK FALSE
INVARIANTS BillsAddUp ExpensesAddUp TechniciansPaidOnce BooksFollowPayments

SPECIFICATION Spec
CONSTANTS
    Sales = {s1}
    Parts = {p1}
    Opening <- MCThree
    Notes = {n1, n2}
    NoNote = NoNote
    Money = {m1, m2}
    Calls = {c1, c2}
    Kinds = {"add", "update", "remove", "recalc", "delete", "pay", "receipt", "edit", "erase", "tillnote"}
SYMMETRY Symmetry
CHECK_DEADLOCK FALSE
INVARIANTS NeverOversold GoodsAccountedFor SaleFollowsMoney 
PROPERTIES ImplementsStockBook

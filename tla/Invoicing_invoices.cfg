SPECIFICATION Spec
CONSTANTS
    Invoices = {i1}
    Parts = {p1}
    Opening <- MCOpening
    Unit = 2
    Plain = 1
    Grains <- MCGrains
    Money = {m1, m2}
    Calls = {c1, c2}
    MaxQty = 2
    MaxEdits = 1
    MaxRewrites = 2
    Editable = {"goods"}
    Kinds = {"create", "convert", "edit", "void", "pay", "job", "amend", "erase", "refund"}
SYMMETRY Symmetry
CHECK_DEADLOCK FALSE
INVARIANTS TypeOK GoodsFollowInvoice StatusFollowsMoney BooksFollowMoney
PROPERTIES RefundsHaveMoney ImplementsStockBook

SPECIFICATION Spec
CONSTANTS
    Sales = {s1}
    Parts = {p1}
    Opening <- MCTwo
    Notes = {n1}
    NoNote = NoNote
    Money = {m1, m2, m3}
    Calls = {c1, c2}
    Kinds = {"add", "update", "pay", "note", "return", "receive", "unnote", "tillrefund", "noterefund", "refund"}
SYMMETRY Symmetry
CHECK_DEADLOCK FALSE
INVARIANTS GoodsAccountedFor RefundsWithinNotes
PROPERTIES RefundsHaveMoney

SPECIFICATION WalletSpec
CONSTANTS
    u1 = u1
    u2 = u2
    c1 = c1
    c2 = c2
    c3 = c3
    d1 = d1
    d2 = d2
    a1 = a1
    a2 = a2
    Users = {u1, u2}
    Creates = {c1, c2, c3}
    Deletes = {d1}
    Changes = {a1}
    By <- MCBy
    DbMayFail = TRUE
    None = None
SYMMETRY MCSymmetry
INVARIANTS
    IndexBacked
    OneCreated
PROPERTIES
    DeletionIsFinal
CHECK_DEADLOCK FALSE

SPECIFICATION Spec
CONSTANTS
    w1 = w1
    w2 = w2
    s1 = s1
    d1 = d1
    l1 = l1
    q1 = q1
    Wallets = {w1, w2}
    Outside = Outside
    NoTx = NoTx
    Sends = {}
    Deposits = {d1}
    From <- MCFrom
    To <- MCTo
    Lists = {l1}
    Statuses = {}
    For <- MCFor
    PageSize = 1
    Limit = 2
    DbMayFail = FALSE
INVARIANT
    HistoryListed
CHECK_DEADLOCK FALSE

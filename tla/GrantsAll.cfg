SPECIFICATION Spec
CONSTANTS
    a1 = a1
    a2 = a2
    g1 = g1
    g2 = g2
    g3 = g3
    v1 = v1
    v2 = v2
    q1 = q1
    Analysts = {a1, a2}
    Grantings = {g1, g2, g3}
    Revokings = {v1}
    Queries = {q1}
    For <- MCFor
    Supply = 2
    DbMayFail = TRUE
INVARIANTS
    QueriesEarned
    MirrorFollowsChain
CHECK_DEADLOCK FALSE

SPECIFICATION Spec
CONSTANTS
    n1 = n1
    n2 = n2
    i1 = i1
    i2 = i2
    v1 = v1
    v2 = v2
    Inits = {n1}
    Issues = {i1, i2}
    Revokes = {v1}
    Rows <- MCRows
    Payloads <- MCPayloads
    Supply = 2
    DbMayFail = FALSE
    Initial = Initial
    NoFile = NoFile
    Free = Free
INVARIANTS
    IssuancesPaid
    RecordsBacked
    NothingBeforeInitial
    AuditTruthful
    RowsCountedUndisturbed
CHECK_DEADLOCK FALSE

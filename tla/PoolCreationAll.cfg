SPECIFICATION Spec
CONSTANTS
    c1 = c1
    u1 = u1
    Creations = {c1}
    Uploads = {u1}
    Pool <- MCPool
    Events <- MCEvents
    NoSchema = NoSchema
    TornSchema = TornSchema
    NoKey = NoKey
    TornKey = TornKey
    MaxLife = 3
INVARIANTS
    MetaIsOnChain
    CreatedIsWhole
    AuditNotAhead
    LogVerifiable
PROPERTIES
    PollEnds
    AuditNeverBlocks
CHECK_DEADLOCK FALSE

SPECIFICATION Spec
CONSTANTS
    q1 = q1
    q2 = q2
    h1 = h1
    h2 = h2
    Queries = {q1, q2}
    Hashes = {h1, h2}
    Valid <- MCValid
    Other = Other
    Torn = Torn
    NoFile = NoFile
    MaxEngine = 1
INVARIANTS
    OnlyVerifiedRuns
    StaleReplaced
PROPERTIES
    CachedStays
    QuerySettles
    

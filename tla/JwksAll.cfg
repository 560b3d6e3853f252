SPECIFICATION Spec
CONSTANTS
    c1 = c1
    c2 = c2
    k1 = k1
    k2 = k2
    Clients = {c1, c2}
    Kids = {k1, k2}
    Tokens <- MCTokens
    Needs = {"admin", "analyst", "read_only"}
    TTL = 2
    MaxLife = 2
    NoCache = NoCache
    NoGrant = NoGrant
PROPERTIES
    GrantedIsEarned
    RetiredKeyDies

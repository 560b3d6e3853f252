SPECIFICATION Spec
CONSTANTS
    Writers = {w1, w2, w3}
    Readers = {r1}
    MaxSeq = 3
    OldContent = OldContent
    Torn = Torn
    Nothing = Nothing
    Ended = Ended
INVARIANTS
    NeverTorn
PROPERTIES
    ImplementsRegister
CHECK_DEADLOCK FALSE

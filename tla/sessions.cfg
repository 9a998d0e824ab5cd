SPECIFICATION Spec
CONSTANTS
    Calls = {c1, c2}
    MaxTokens = 4
INVARIANTS
    TypeOK
    SpentBeforeReplaced
    SiblingsBounded
    StoredIsAlive
PROPERTIES
    CallsEnd
CHECK_DEADLOCK FALSE

SPECIFICATION Spec
CONSTANTS
    Client = {c1, c2}
    Id = {i1, i2}
    MAIN = MAIN
    NULL = NULL
    Word = 8
    CallsFail = FALSE
CONSTRAINT OnlyReinit
INVARIANT NoBugMessage

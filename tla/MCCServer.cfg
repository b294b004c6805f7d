SPECIFICATION Spec
CONSTANTS
    Client = {c1, c2, c3}
    Id = {i1, i2, i3}
    MAIN = MAIN
    NULL = NULL
    Word = 4
    CallsFail = TRUE
SYMMETRY Symmetry
CONSTRAINT OneHazard
INVARIANTS TypeOK MutualExclusion ListIntact Reclaimed ListIsRoster NoWildAccess
PROPERTY FreedByOwner

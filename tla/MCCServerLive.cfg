SPECIFICATION FairSpec
CONSTANTS
    Client = {c1, c2}
    Id = {i1}
    MAIN = MAIN
    NULL = NULL
    Word = 3
    CallsFail = FALSE
CONSTRAINT NotBoth
PROPERTIES Deregistered ShutdownCompletes

SPECIFICATION LiveSpec
CONSTANTS
    Task = {t1, t2, t3}
    File = {f1, f2}
    Name = {1, 2}
    Environ <- Environs
    Buf = 2
    MaxOpen = 2
CONSTRAINT Bound
ACTION_CONSTRAINT QuietWhileRead
CHECK_DEADLOCK FALSE
INVARIANTS TypeOK UnloadSafe LossIsCounted PrintedAreSupervised
PROPERTY Closes

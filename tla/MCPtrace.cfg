\* The tracer and the child may both end.
SPECIFICATION FairSpec
CONSTANTS
    Signals = {"HUP", "TERM"}
    Handled = {"HUP"}
    Calls = {"read", "futex_time64"}
    Nameless = {"futex_time64"}
INVARIANTS InStep SignalsKept
PROPERTY TracerEnds
CHECK_DEADLOCK FALSE

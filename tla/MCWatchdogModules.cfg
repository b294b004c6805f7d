SPECIFICATION Spec
CONSTANTS
    m1 = m1
    m2 = m2
    Module = {m1, m2}
    Pid = {p1, p2, p3}
    Inode = {f1, f2, f3}
    Second = {s1}
    NONE = NONE
    Matches <- Distinct
    Overlap = "modules"
SYMMETRY ModuleSymmetry
CONSTRAINT NoCommandRuns
INVARIANTS TypeOK SupervisorHoldsLock

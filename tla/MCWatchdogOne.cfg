SPECIFICATION Spec
CONSTANTS
    m1 = m1
    m2 = m2
    Module = {m1, m2}
    Pid = {p1, p2, p3}
    Inode = {f1, f2}
    Second = {s1}
    NONE = NONE
    Matches <- Prefixed
    Overlap = "none"
SYMMETRY Symmetry
INVARIANTS FilesAgree

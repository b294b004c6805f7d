SPECIFICATION FairSpec
CONSTANTS
    m1 = m1
    m2 = m2
    Module = {m1, m2}
    Pid = {p1, p2}
    Inode = {f1, f2}
    Second = {s1}
    NONE = NONE
    Matches <- Distinct
    Overlap = "none"
PROPERTIES Restarted StopEnds BootRestarts

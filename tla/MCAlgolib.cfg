SPECIFICATION ProgramSpec
CONSTANTS
    Element = {v1, v2, v3}
    NULL = NULL
    N = 4
    Base = 2
    Digits = 2
SYMMETRY Symmetry
INVARIANTS ListsIntact SetsCombine HopsAreDistances GrayAreOpen OrderIsTopological SortedSoFar ScansStayInside
PROPERTIES IsAGraph PartsShrink

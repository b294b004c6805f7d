SPECIFICATION Spec
CONSTANTS
    Sequences <- MCSequences
    OnTime <- MCOnTime
    OffTime <- MCOffTime
    ShowInvisible <- MCShowInvisible
    Heights <- MCHeights
    MaxDisks = 2
    Room = 12
INVARIANTS
    SetsAreAdded
    LinesOfDisks
    TmpInBounds
PROPERTY
    InTime

\* All keys at all menus, power cuts at any moment; a display of four rows.
SPECIFICATION Spec
CONSTANTS
    Menu <- MCMenu
    MAIN = "Main"
    Options <- MCOptions
    CancelTo <- MCCancelTo
    Key <- MCKey
    Height = 4
    Width = 2
    FileLines = 6
    MaxTop = 7
    MaxRows = 4
INVARIANTS
    WidgetsAsShown
    HistoryLeadsBack
    FileTellsState
    TextUnderCursor

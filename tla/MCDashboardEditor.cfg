SPECIFICATION EditorsSpec
CONSTANTS
    Chart = {c1}
    Board = Board
    Placement = {p1}
    MaxSaves = 3
    MaxSent = 1
    JsonRevision = {2}
    None = None
INVARIANTS
    EditorsTypeOK
    EditorSavesSeen
    DashboardSavesSeen
    PanelsCurrent
    BasesCommitted
PROPERTY
    PagesKeepLog

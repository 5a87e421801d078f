SPECIFICATION EditorsSpec
CONSTANTS
    Chart = {c1}
    Board = Board
    Placement = {p1}
    MaxSaves = 3
    MaxSent = 1
    JsonRevision = {}
    None = None
INVARIANT
    DrawerSavesSeen

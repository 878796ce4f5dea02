SPECIFICATION Spec
CONSTANTS
    a = a
    b = b
    x = x
    y = y
    Clients = {a, b}
    Docs = {1, 2, 3, 4}
    Paths = {x}
    SeedPath = x
    NoPath = NoPath
    NoText = NoText
    Converge <- MCConverge
    LinesOf <- MCLinesOf
    Edited <- MCEdited
    Blank <- MCBlank
    Seeds <- MCSeedLine
    Crashes = TRUE
    RootMoves = TRUE
    Siblings = TRUE
    MaxActs = 3
    MaxCursor = 14
SYMMETRY MCSymmetry
INVARIANTS TypeOK SnapshotsCurrent
PROPERTIES QuietRunMirrors QuietRunKeeps

SPECIFICATION Spec
CONSTANTS
    a = a
    b = b
    x = x
    y = y
    Clients = {a, b}
    Docs = {1, 2, 3}
    Paths = {x, y}
    SeedPath = x
    NoPath = NoPath
    NoText = NoText
    Converge <- MCConverge
    LinesOf <- MCLinesOf
    Edited <- MCEdited
    Blank <- MCBlank
    Seeds <- MCSeedLine
    Crashes = FALSE
    RootMoves = FALSE
    Siblings = FALSE
    MaxActs = 3
    MaxCursor = 8
SYMMETRY MCSymmetry
PROPERTY NoLocalLoss

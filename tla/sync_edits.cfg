SPECIFICATION FairSpec
CONSTANTS
    a = a
    b = b
    x = x
    y = y
    Clients = {a, b}
    Docs = {1, 2, 3, 4}
    Paths = {x, y}
    SeedPath = x
    NoPath = NoPath
    NoText = NoText
    Converge <- MCConverge
    LinesOf <- MCLinesOf
    Edited <- MCEdited
    Blank <- MCBlank
    Seeds <- MCSeedLine
    Crashes = FALSE
    RootMoves = FALSE
    Siblings = FALSE
    MaxActs = 2
    MaxCursor = 10
PROPERTIES PassiveNeverDeletes Converges

SPECIFICATION FairWatch
CONSTANTS
    a = a
    x = x
    y = y
    Clients = {a}
    Docs = {1, 2, 3, 4}
    Paths = {x, y}
    SeedPath = x
    NoPath = NoPath
    NoText = NoText
    Converge <- MCConverge
    LinesOf <- MCLinesOf
    Edited <- MCEdited
    Blank <- MCBlank
    Seeds <- MCSeedLine
    Crashes = TRUE
    RootMoves = TRUE
    Siblings = FALSE
    MaxActs = 3
    MaxCursor = 12
    MaxRetries = 2
INVARIANTS StatusTellsTheTruth WatchSnapshotCurrent
PROPERTIES ReportedEditsKept WatchConverges

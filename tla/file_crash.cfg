SPECIFICATION Spec
CONSTANTS
    m = m
    x = x
    y = y
    writer = writer
    reader = reader
    alice = alice
    Slots = {writer}
    Serves <- MCEverything
    Docs = {1, 2}
    Mounts = {m}
    Paths <- MCTwoPaths
    MountOf <- MCMountOf
    Keys <- MCKeys
    Chain <- MCChain
    Policies <- MCNoPolicies
    DefaultPolicy <- MCTight
    Actors = {alice}
    Edits <- MCTwoTexts
    Bases <- MCOneBase
    Empty <- MCEmpty
    Flat <- MCFlat
    ApplyUpdate <- MCApplyUpdate
    HoldsText <- MCContains
    UniteTexts <- MCUnion
    NoPath = NoPath
    NoBody <- MCNoBody
    NoState = NoState
    Nothing = Nothing
    Torn = Torn
    MaxCursor = 3
    MaxFaults = 1
CHECK_DEADLOCK FALSE
SYMMETRY MCSymmetry
INVARIANTS TypeOK NumbersUnique HistoryRemembers RewindPutsBack BodiesAgree

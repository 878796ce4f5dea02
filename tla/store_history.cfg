SPECIFICATION Spec
CONSTANTS
    m = m
    n = n
    alice = alice
    Docs = {1, 2}
    Mounts = {m, n}
    Paths <- MCThreePaths
    MountOf <- MCMountOf
    Keys <- MCKeys
    Chain <- MCChain
    Policies <- MCNoPolicies
    DefaultPolicy <- MCLargePolicy
    Actors = {alice}
    Edits <- MCThreeTexts
    Bases <- MCOneText
    Empty <- MCEmpty
    Flat <- MCFlat
    ApplyUpdate <- MCApplyUpdate
    Contains <- MCContains
    Union <- MCUnion
    NoPath = NoPath
    NoBody <- MCNoBody
    NoState = NoState
    Unbound <- MCUnbound
    AnyCursor = FALSE
    ReviveEmpty = FALSE
    MaxCursor = 4
CHECK_DEADLOCK FALSE
INVARIANTS TypeOK LivePathsUnique BodiesAgree PathsRemembered BodiesRemembered HistoryAnchored
PROPERTIES ImplementsShared RewindPutsBack

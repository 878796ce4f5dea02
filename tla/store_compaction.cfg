SPECIFICATION Spec
CONSTANTS
    m = m
    n = n
    alice = alice
    Docs = {1}
    Mounts = {m, n}
    Paths <- MCOnePath
    MountOf <- MCMountOf
    Keys <- MCKeys
    Chain <- MCChain
    Policies <- MCSmallPolicies
    DefaultPolicy <- MCLargePolicy
    Actors = {alice}
    Edits <- MCThreeTexts
    Bases <- MCOneText
    Empty <- MCEmpty
    Flat <- MCFlat
    ApplyUpdate <- MCApplyUpdate
    Contains <- MCContains
    Union <- MCUnion
    NoPath = NoPath
    NoBody <- MCNoBody
    NoState = NoState
    Unbound <- MCUnbound
    AnyCursor = FALSE
    ReviveEmpty = FALSE
    MaxCursor = 5
CHECK_DEADLOCK FALSE
INVARIANTS NewestRevisionIsCurrent EveryVersionHasText
PROPERTIES RecentRevisionsKept

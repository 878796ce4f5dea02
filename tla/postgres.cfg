SPECIFICATION Spec
CONSTANTS
    m = m
    alice = alice
    editor = editor
    Docs = {1, 2}
    Mounts = {m}
    Paths <- MCPaths
    MountOf <- MCMountOf
    Keys <- MCKeys
    Chain <- MCChain
    Policies <- MCPolicies
    DefaultPolicy <- MCLargePolicy
    Actors = {alice}
    Editor = editor
    Edits <- MCEdits
    Bases <- MCBases
    Secrets <- MCSecrets
    Empty <- MCEmpty
    Flat <- MCFlat
    ApplyUpdate <- MCApplyUpdate
    Contains <- MCContains
    Union <- MCUnion
    Redacted <- MCRedacted
    NoPath = NoPath
    NoBody <- MCNoBody
    NoState = NoState
    PurgeLogged = FALSE
    ReviveEmpty = FALSE
    MaxNumber = 4
CHECK_DEADLOCK FALSE
INVARIANTS TypeOK ServedIsMerged HistoryRemembers
PROPERTIES ImplementsShared RedactionHides

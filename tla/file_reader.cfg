SPECIFICATION Spec
CONSTANTS
    m = m
    x = x
    y = y
    writer = writer
    reader = reader
    alice = alice
    Slots = {writer, reader}
    Serves <- MCReader
    Docs = {1, 2}
    Mounts = {m}
    Paths <- MCOnePath
    MountOf <- MCMountOf
    Keys <- MCKeys
    Chain <- MCChain
    Policies <- MCOnePolicy
    DefaultPolicy <- MCLarge
    Actors = {alice}
    Edits <- MCOneText
    Bases <- MCOneBase
    Empty <- MCEmpty
    Flat <- MCFlat
    ApplyUpdate <- MCApplyUpdate
    HoldsText <- MCContains
    UniteTexts <- MCUnion
    NoPath = NoPath
    NoBody <- MCNoBody
    NoState = NoState
    Nothing = Nothing
    Torn = Torn
    MaxCursor = 3
    MaxFaults = 0
CHECK_DEADLOCK FALSE
INVARIANTS ChangesComplete

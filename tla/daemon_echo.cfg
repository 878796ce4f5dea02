SPECIFICATION Spec
CONSTANTS
    repo1 = repo1
    docs = docs
    notes = notes
    first = first
    second = second
    Repos = {repo1}
    Targets = {docs, notes}
    Synced = {{docs}, {docs, notes}}
    Daemons = {first, second}
    Started = first
    NoDaemon = NoDaemon
    Notify = {TRUE}
    Debounce = 1
    RefreshEvery = 2
    BackstopEvery = 2
    SweepEvery = 4
    MaxActs = 1
PROPERTIES QuietDaemonSettles
CHECK_DEADLOCK FALSE

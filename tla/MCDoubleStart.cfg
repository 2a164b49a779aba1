\* A run of an entry that is still being registered.
CONSTANTS
    e1 = e1
    c1 = c1
    c2 = c2
    None = None
    Ids = {e1}
    Clients = {c1, c2}
    Restored = {e1}
    OptedIn = {}
    Ops = {"register", "run"}
    KillOnExit = TRUE
    GroupFaults = FALSE
    StoreFaults = FALSE
    LogFaults = FALSE
    Drains = FALSE
    Polite = FALSE
    MaxGen = 2
    MaxVersion = 1
SPECIFICATION Spec
INVARIANT OneProcess

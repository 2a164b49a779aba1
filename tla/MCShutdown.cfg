\* One restored entry with two callers and two runs, or two with one caller and a
\* run each (SmallEnough); a shutdown at any moment, under the fairness of the
\* runtime.
CONSTANTS
    e1 = e1
    e2 = e2
    c1 = c1
    c2 = c2
    None = None
    Ids = {e1, e2}
    Clients = {c1, c2}
    Restored = {e1, e2}
    OptedIn = {e1, e2}
    Ops = {"run", "restart", "stop"}
    KillOnExit = TRUE
    GroupFaults = FALSE
    StoreFaults = FALSE
    LogFaults = FALSE
    Drains = TRUE
    Polite = TRUE
    MaxGen = 2
    MaxVersion = 1
SPECIFICATION SmallSpec
PROPERTIES
    OperationsReturn
    DeathIsNoticed
    ShutdownEnds

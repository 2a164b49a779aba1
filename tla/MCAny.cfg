\* Two clients whose calls overlap in every way, a deletion with a start of the
\* same entry too, and requests that outlive the grace period.
CONSTANTS
    e1 = e1
    c1 = c1
    c2 = c2
    None = None
    Ids = {e1}
    Clients = {c1, c2}
    Restored = {e1}
    OptedIn = {e1}
    Ops = {"register", "run", "restart", "delete"}
    KillOnExit = TRUE
    GroupFaults = FALSE
    StoreFaults = FALSE
    LogFaults = FALSE
    Drains = FALSE
    Polite = FALSE
    MaxGen = 2
    MaxVersion = 1
SPECIFICATION Spec
SYMMETRY ClientSymmetry
INVARIANTS
    RunningIsOwned
    OutcomeIsOfLatestRun
    StopperOwnsGroup

\* Two clients, one entry, restored or registered while the server runs.  No
\* registration, edit or deletion overlaps another call on the entry; every
\* other interleaving is explored, with the shutdown at any moment.
CONSTANTS
    e1 = e1
    c1 = c1
    c2 = c2
    None = None
    Ids = {e1}
    Clients = {c1, c2}
    Restored = {e1}
    OptedIn = {e1}
    Ops = {"register", "registerOnly", "update", "delete", "run", "restart"}
    KillOnExit = TRUE
    GroupFaults = TRUE
    StoreFaults = TRUE
    LogFaults = TRUE
    Drains = TRUE
    Polite = TRUE
    MaxGen = 2
    MaxVersion = 2
SPECIFICATION Spec
SYMMETRY ClientSymmetry
INVARIANTS
    TypeOK
    OneProcess
    GroupsReleased
    StoreMatches
    DeletedLeavesNothing
    NoSurvivors
PROPERTY ImplementsRunSlot

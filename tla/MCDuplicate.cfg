\* Two requests of one key at the same time.
CONSTANTS
    c1 = c1
    c2 = c2
    k1 = k1
    NoKey = NoKey
    x1 = x1
    x2 = x2
    Clients = {c1, c2}
    Keys = {k1}
    Tails = {x1, x2}
    NoTail = NoTail
    Legacy <- TakenBefore
    Window = 2
    DayLength = 2
    SeqLimit = 2
    Retries = 3
    Faults = FALSE
    Overlaps = TRUE
    MaxTime = 2
SPECIFICATION Spec
INVARIANT OnePerWindow

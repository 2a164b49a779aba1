\* Two requests at a time on a window of two and days of two clock ticks.
\* Requests of one key do not overlap.
CONSTANTS
    c1 = c1
    c2 = c2
    k1 = k1
    NoKey = NoKey
    x1 = x1
    x2 = x2
    Clients = {c1, c2}
    Keys = {k1}
    Tails = {x1, x2}
    NoTail = NoTail
    Legacy <- TakenBefore
    Window = 2
    DayLength = 2
    SeqLimit = 2
    Retries = 3
    Faults = TRUE
    Overlaps = FALSE
    MaxTime = 2
SPECIFICATION Spec
INVARIANTS
    TypeOK
    NumbersAreUnique
    OnePerWindow
PROPERTY RequestsAnswered

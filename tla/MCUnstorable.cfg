\* A command whose first word is longer than a label may be.
CONSTANTS
    t1 = t1
    e1 = e1
    Conns = {1}
    Ids = {e1}
    Tokens = {t1}
    HasIndex = TRUE
    HasHelp = TRUE
    Faults = 1
    Requests <- SomeRequests
SPECIFICATION Spec
INVARIANT AcceptedIsStorable

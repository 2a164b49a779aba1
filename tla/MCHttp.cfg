\* Two callers, and a shutdown at any moment.
CONSTANTS
    t1 = t1
    e1 = e1
    Conns = {1, 2}
    Ids = {e1}
    Tokens = {t1}
    HasIndex = TRUE
    HasHelp = TRUE
    Faults = 1
    Requests <- SomeRequests
SPECIFICATION Spec
INVARIANT GivenIsStorable
PROPERTY ConnectionsLeave

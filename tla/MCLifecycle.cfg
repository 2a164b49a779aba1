\* Three events at any moment, during startup too.
CONSTANTS
    e1 = e1
    e2 = e2
    e3 = e3
    None = None
    Main = Main
    Callers = {e1, e2, e3}
    KillOnExit = TRUE
    Terminal = {e1}
SPECIFICATION Spec
INVARIANTS
    TypeOK
    SequenceInOrder
    NoExitBeforeDone
    ExitCodeIsOfFirst
    ReleasedAtExit
    NothingAcceptedAfterStop
PROPERTY EventsEndTheProcess

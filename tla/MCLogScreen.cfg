\* A page follows a log through a rotation, with polls that overlap.
CONSTANTS
    Polls = {1, 2}
    TailWindow = 2
    ResponseMax = 2
    ScanLimit = 1
    Scenarios <- SomeScenarios
SPECIFICATION Spec
INVARIANTS
    TypeOK
    OneStretch
    WholeCharacters
PROPERTY ScreenReachesEnd
\* A page that was told it needs a token polls no more.
CHECK_DEADLOCK FALSE

\* Two runs of one entry on either platform, with a file system that fails.
CONSTANTS
    Runs = 2
    Chunks = 4
    Capacity = 1
    Rotate = 3
    Keep = 2
    Existing = {0, 2}
    Meeting = {"none"}
    Settings <- EverySetting
    OpsRotate = 2
    OpsKeep = 2
    Faults = {"none", "opsShift", "opsAside", "opsReopen", "opsWrite",
              "move", "open", "write", "read"}
    Records = 1
SPECIFICATION MCSpec
CHECK_DEADLOCK FALSE
INVARIANTS
    TypeOK
    RecordsKept
    WindowKept
    ArchivesKept
    LossIsOnRecord
    PipesAreDrained

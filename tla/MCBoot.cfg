\* Starts that crash, fail and overlap, and every short script.
CONSTANTS
    a = a
    b = b
    Nobody = Nobody
    Servers = {a, b}
    Cases <- SomeCases
SPECIFICATION Spec
INVARIANTS
    SplitsLikeSql
    SchemaMatchesHistory
    MigratedMeansApplied
PROPERTY EveryServerSettles

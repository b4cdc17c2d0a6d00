SPECIFICATION Spec
CONSTANTS
    Samples = 3
    ConversationsPerTenant = 5
    Concurrency = 3
    PoolFlags <- Pools
INVARIANTS
    TypeOK
    SampledUnderFullLoad
    RowsAreComparable
PROPERTIES
    ScriptEnds
CHECK_DEADLOCK FALSE

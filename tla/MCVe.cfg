\* A user and the contract of the locked token, which calls back up to twice in a deploy.
SPECIFICATION VeSpec
CONSTANTS
    Key = {alice, hook}
    NullKey = null
    Contracts = {hook}
    MaxToken = 2
    Metas = {empty}
    EmptyMeta = empty
    MaxDelegates = 1
    Week = 2
    MaxTime = 4
    MaxIterations = 10
    Amounts = {4}
    Durations = {2, 4}
    Start = 1
    Horizon = 2
    Funds = 8
    MaxEpoch = 300
    MaxNested = 2
    Batches <- MCBatches
    Spenders = {hook}
    Delegatees = {hook}
    GaugeIds = {0}
    U64 = 8
VIEW CurrentView
INVARIANTS
    VeTypeOK
    LockExcludes
    LocksAreBacked
PROPERTIES
    AuthorityRespected
    ImplementsEscrow
    LockIsReleased

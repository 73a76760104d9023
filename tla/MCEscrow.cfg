\* Three tokens; no call finds the global point more than MaxIterations weeks old.
SPECIFICATION EscrowSpec
CONSTANTS
    Week = 2
    MaxTime = 4
    MaxIterations = 10
    Amounts = {0, 3, 9}
    Durations = {2, 4, 5}
    Start = 1
    Horizon = 6
    Funds = 12
    MaxToken = 3
    MaxEpoch = 300
VIEW CurrentView
INVARIANTS
    TypeOK
    GlobalIsSum
    SlopeChangesMatch
    VotingPowerIsLinear
    SupplyIsSumWithinWeek
    BlockViewsAgree
    Solvency
    LockedIffMinted
    LockHorizon
PROPERTIES
    LocksNeverShrink
    HistoryAppendOnly

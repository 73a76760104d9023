\* A loop of two rounds and a clock of ten weeks: the global point falls behind.
SPECIFICATION EscrowSpec
CONSTANTS
    Week = 2
    MaxTime = 4
    MaxIterations = 2
    Amounts = {3, 9}
    Durations = {4, 5}
    Start = 1
    Horizon = 12
    Funds = 12
    MaxToken = 2
    MaxEpoch = 300
VIEW CurrentView
INVARIANTS
    VotingPowerIsLinear
    SlopeChangesMatch
PROPERTIES
    CatchesUp

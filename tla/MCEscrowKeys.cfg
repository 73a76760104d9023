\* Eleven tokens, and an eleventh point of token 1.
SPECIFICATION KeysSpec
CONSTANTS
    Week = 2
    MaxTime = 4
    MaxIterations = 10
    Amounts = {4, 8}
    Durations = {4}
    Start = 1
    Horizon = 1
    Funds = 92
    MaxToken = 11
    MaxEpoch = 300
INVARIANTS
    VotingPowerIsLinear

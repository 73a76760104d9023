\* Two locks expire and are merged.
SPECIFICATION EscrowSpec
CONSTANTS
    Week = 2
    MaxTime = 4
    MaxIterations = 10
    Amounts = {0, 3, 9}
    Durations = {2, 4, 5}
    Start = 1
    Horizon = 6
    Funds = 12
    MaxToken = 2
    MaxEpoch = 300
VIEW CurrentView
PROPERTIES
    DepositsIntoLiveLocks

\* One delegation.
SPECIFICATION HistorySpec
CONSTANTS
    Key = {alice, bob}
    NullKey = null
    MaxToken = 2
    Metas = {empty}
    EmptyMeta = empty
    MaxDelegates = 2
INVARIANTS
    VotesAreCurrent

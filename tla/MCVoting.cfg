\* Two keys, either of which may delegate to the other or back to the null key.
SPECIFICATION HistorySpec
CONSTANTS
    Key = {alice, bob}
    NullKey = null
    MaxToken = 2
    Metas = {empty}
    EmptyMeta = empty
    MaxDelegates = 2
SYMMETRY KeySymmetry
VIEW CurrentView
INVARIANTS
    VotingTypeOK
    WithinMaxDelegates
    UnmovedTokensVoteOnce
PROPERTIES
    VotesAreGivenByOwner
    StrayVotesFreeze

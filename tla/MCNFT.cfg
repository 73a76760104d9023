\* Three keys, so that owner, spender and recipient can all differ; three tokens,
\* for removals from the middle of an enumeration.
SPECIFICATION BoundedSpec
CONSTANTS
    Key = {alice, bob, carol}
    MaxToken = 3
    Metas = {empty, set}
    EmptyMeta = empty
    MaxTold = 2
SYMMETRY KeySymmetry
VIEW LedgerView
INVARIANTS
    NFTTypeOK
    EnumerationMatchesOwnership
    SupplyIsLiveTokens
    EventsTellLedger
PROPERTIES
    OwnerChangeAuthorised
    ApprovalsAreOwnersAndUsedOnce
    WedgedForEver
    EnumerationIsALedger

\* One key is enough: it creates two locks, merges one away and creates again.
SPECIFICATION MCSpec
CONSTANTS
    Key = {alice}
    MaxToken = 2
    Metas = {empty}
    EmptyMeta = empty
INVARIANT
    BurntStaysBurnt

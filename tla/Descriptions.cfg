SPECIFICATION Spec
CONSTANTS
    a = a
    b = b
    h1 = h1
    h2 = h2
    None = None
    Failed = Failed
    Order <- Pair
    Tags <- PairTags
    Bound <- PairBound
    Word = "E"
    Variants = {"__note"}
    Opened = {a}
    Paths <- SomePaths
    Hovers = {h1, h2}
    MaxText = 3
    MaxActs = 3
SYMMETRY Symmetry
INVARIANTS
    IndexFollowsTexts
    CalmQueriesAreRight
\* The user may stop asking.
CHECK_DEADLOCK FALSE

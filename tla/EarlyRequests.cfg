SPECIFICATION Spec
CONSTANTS
    Names <- MCNames
    Folded <- MCFolded
    SchemaNames = {"a", "b", "c_lf"}
    LongForms = {"c_lf"}
    NoName = NoName
    Workspaces <- EarlyEdited
    Edited <- EarlyEdited
    MaxBuilds = 2
    MaxQueries = 2
    RequestsDuringBuild = TRUE
    p = p
    q = q
    r = r
    t = t
    x = x
    y = y
    z = z
    e = e
    R = R
INVARIANT LevelsAreNearestFirst
CHECK_DEADLOCK FALSE

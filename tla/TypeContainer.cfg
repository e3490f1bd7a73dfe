SPECIFICATION Spec
CONSTANTS
    Names <- MCNames
    Folded <- MCFolded
    SchemaNames = {"a", "b", "c_lf"}
    LongForms = {"c_lf"}
    NoName = NoName
    Workspaces <- MCWorkspaces
    Edited <- MCEdited
    MaxBuilds = 2
    MaxQueries = 2
    RequestsDuringBuild = FALSE
    p = p
    q = q
    r = r
    t = t
    x = x
    y = y
    z = z
    e = e
    R = R
INVARIANTS
    ResourcesFollowClause11
    RelativesAreComplete
    GraphsAreComponents
    LevelsAreNearestFirst
    AttributeTypesAreInstances
    AttributesAreInherited
CHECK_DEADLOCK FALSE

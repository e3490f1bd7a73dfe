SPECIFICATION LinkSpec
CONSTANTS
    Names <- MCNames
    Folded <- MCFolded
    SchemaNames = {"a", "b", "c_lf"}
    LongForms = {"c_lf"}
    NoName = NoName
    Workspaces <- MCWorkspaces
    Edited <- MCEdited
    MaxBuilds = 2
    MaxQueries = 1
    RequestsDuringBuild = FALSE
    p = p
    q = q
    r = r
    t = t
    x = x
    y = y
    z = z
    e = e
    R = R
    Listings <- MCListings
    Paths <- MCPaths
INVARIANTS
    PlainReferencesAreScoped
    LinksAgreeWithContainer
    QualifiersStayInTheGraph
    InverseAttributesAreExplicit
    OperandsAgree
CHECK_DEADLOCK FALSE

SPECIFICATION Spec
CONSTANTS
    N = 4
    SchemaNames = {"a", "b", "c"}
    SchemaName <- MCSchemaName
    Document <- MCDocument
    LongForms = {"c"}
    Names <- MCNames
    Folded <- MCFolded
    Decls <- MCDecls
    Home <- MCHome
    Kind <- MCKind
    Ident <- MCIdent
    NoName = NoName
    Edited <- MCEdited
    Workspaces <- MCWorkspaces
    MaxEdits = 1
    x = x
    y = y
    z = z
    u = u
    v = v
    Z = Z
INVARIANTS
    TypeOK
    ExportsClosed
    ExportsDerived
    ListedItemsAreUnique
    OwnCopies
    CacheIsFresh
    NamedClashesAreShown
CHECK_DEADLOCK FALSE

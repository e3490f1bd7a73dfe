-------------------------- MODULE MCTypeContainer --------------------------
(***************************************************************************)
(* Workspaces of two and three schema texts for TLC: SUBTYPE OF graphs     *)
(* over four entities in two schemas, chains and cycles of interfaces,     *)
(* selects and enumerations over each other, and texts of one name.        *)
(***************************************************************************)
EXTENDS TypeContainer

CONSTANTS p, q, r, t, x, y, z, e,   \* identifiers in lower case
          R                         \* r in another case

MCNames == {p, q, r, t, x, y, z, e, R}
MCFolded == [n \in MCNames |-> IF n = R THEN r ELSE n]

Entity(name, up) ==
    [kind |-> "Entity", name |-> name, supers |-> up, base |-> NoName, members |-> <<>>, attrs |-> <<>>]
With(entity, attr, type) ==
    [entity EXCEPT !.attrs = Append(@, [name |-> attr, type |-> type, inverse |-> FALSE])]
Typed(kind, name, base, members) ==
    [kind |-> kind, name |-> name, supers |-> <<>>, base |-> base, members |-> members, attrs |-> <<>>]
Text(name, decls, specs) == [name |-> name, decls |-> decls, specs |-> specs, funs |-> <<>>]
Use(s, items) == [mode |-> "use", schema |-> s, items |-> items]
Reference(s, items) == [mode |-> "reference", schema |-> s, items |-> items]

\* Four entities in two schemas that use each other.
Graph(i, j, k, l) ==
    <<Text("a", <<Entity(p, i), With(Entity(q, j), x, r)>>, <<Use("b", <<>>)>>),
      Text("b", <<Entity(r, k), With(Entity(t, l), x, p)>>, <<Use("a", <<>>)>>)>>
GraphWorkspaces ==
    {Graph(i, j, k, l) : i \in {<<>>, <<q>>, <<q, r>>, <<r, q>>}, j \in {<<>>, <<r>>, <<t>>, <<p>>},
                         k \in {<<>>, <<t>>, <<q>>}, l \in {<<>>, <<p>>}}

\* Three schemas with every kind of interface between them.
Interfaced(i, j, k) ==
    <<Text("a", <<With(Entity(p, <<r, t>>), q, z), Typed("SelectType", x, NoName, <<r, z>>)>>, i),
      Text("b", <<Entity(r, <<t>>), Typed("SelectType", z, NoName, <<t>>)>>, j),
      Text("c_lf", <<Entity(t, <<R>>), Typed("Type", e, NoName, <<>>)>>, k)>>
InterfaceWorkspaces ==
    {Interfaced(i, j, k) :
        i \in {<<>>, <<Use("b", <<>>)>>, <<Reference("b", <<>>)>>, <<Use("b", <<r>>)>>,
               <<Reference("b", <<r, z>>), Reference("c_lf", <<t>>)>>,
               <<Use("b", <<>>), Reference("c_lf", <<>>)>>},
        j \in {<<>>, <<Use("c_lf", <<>>)>>, <<Reference("c_lf", <<>>)>>, <<Use("c_lf", <<t>>)>>,
               <<Reference("c_lf", <<t>>)>>, <<Use("a", <<>>)>>},
        k \in {<<>>, <<Use("a", <<>>)>>, <<Reference("b", <<>>)>>}}

\* Selects and enumerations over each other.
TypeWorkspaces ==
    {<<Text("a", <<With(With(With(Entity(p, <<>>), q, x), t, z), e, r), Typed("SelectType", x, i, j), Typed("SelectType", y, k, l),
                   Typed("EnumType", z, m, <<t>>)>>, <<Use("b", <<>>)>>),
       Text("b", <<Entity(R, <<>>), Entity(r, <<>>), Typed("EnumType", e, NoName, <<q>>)>>, <<>>)>> :
        i \in {NoName, y}, j \in {<<>>, <<p>>, <<y, r>>}, k \in {NoName, x}, l \in {<<r>>, <<x>>, <<p, e>>},
        m \in {NoName, e, z}}

\* Two texts of one name, an entity and a type declared twice, names that differ
\* in case, and a type that takes the place of an entity in the registry.
CopyWorkspaces ==
    {<<Text("b", <<Entity(r, <<>>), Entity(t, <<r>>)>>, <<>>),
       Text("b", i, <<Use("a", <<>>)>>),
       Text("a", <<With(Entity(p, <<r>>), x, r), With(Entity(q, <<R>>), x, R)>>, j)>> :
        i \in {<<Entity(r, <<p>>)>>, <<Entity(R, <<>>), Entity(t, <<R>>)>>,
               <<Entity(r, <<>>), Entity(r, <<q>>), Typed("Type", t, NoName, <<>>), Typed("Type", t, NoName, <<>>)>>,
               <<Entity(r, <<>>), Typed("SelectType", r, NoName, <<q>>)>>},
        j \in {<<>>, <<Use("b", <<>>)>>, <<Reference("b", <<r>>)>>}}

MCWorkspaces == GraphWorkspaces \cup InterfaceWorkspaces \cup TypeWorkspaces \cup CopyWorkspaces

\* Edits within one document: p loses or changes its supertypes.
MCEdited == {Graph(i, <<r>>, <<t>>, <<>>) : i \in {<<>>, <<q, r>>}}

\* An edit of a, which no schema interfaces: b is not rebuilt.
EarlyEdited ==
    {<<Text("a", <<Entity(p, i)>>, <<Use("b", <<>>)>>), Text("b", <<Entity(r, <<t>>), Entity(t, <<>>)>>, <<>>)>> :
        i \in {<<>>, <<r>>}}
=============================================================================

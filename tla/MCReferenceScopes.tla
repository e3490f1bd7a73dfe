------------------------- MODULE MCReferenceScopes -------------------------
(***************************************************************************)
(* Workspaces of three texts, one of them a long form, whose declarations  *)
(* share names within and across schemas, and expressions over them.       *)
(***************************************************************************)
EXTENDS ReferenceScopes

CONSTANTS p, q, r, t, x, y, z, e,   \* identifiers in lower case
          R                         \* r in another case

MCNames == {p, q, r, t, x, y, z, e, R}
MCFolded == [n \in MCNames |-> IF n = R THEN r ELSE n]

Entity(name, up, attrs) ==
    [kind |-> "Entity", name |-> name, supers |-> up, base |-> NoName, members |-> <<>>, attrs |-> attrs]
Attr(name, type) == [name |-> name, type |-> type, inverse |-> FALSE]
InverseAttr(name, type) == [name |-> name, type |-> type, inverse |-> TRUE]
Typed(kind, name, base, members) ==
    [kind |-> kind, name |-> name, supers |-> <<>>, base |-> base, members |-> members, attrs |-> <<>>]
Text(name, decls, specs, funs) == [name |-> name, decls |-> decls, specs |-> specs, funs |-> funs]
Use(s, items) == [mode |-> "use", schema |-> s, items |-> items]
Reference(s, items) == [mode |-> "reference", schema |-> s, items |-> items]
Function(name, type) ==
    [name |-> name, returns |-> type,
     vars |-> <<[kind |-> "Parameter", name |-> x, type |-> r], [kind |-> "Variable", name |-> R, type |-> z]>>]

\* p of a is a subtype of b's r, which is declared in the long form as well; the
\* names x, q and e are used for declarations of several kinds.
Linked3(i, j, k) ==
    <<Text("a", <<Entity(p, <<r>>, <<Attr(x, r), Attr(y, z)>>),
                  Typed("SelectType", z, NoName, <<R, p>>), Typed("EnumType", e, NoName, <<x, q>>)>>,
           i, <<Function(t, z)>>),
      Text("b", <<Entity(r, <<t>>, <<Attr(x, t), InverseAttr(q, p)>>), Entity(t, j, <<Attr(q, r), Attr(R, e)>>),
                  Typed("Type", x, r, <<>>), Typed("EnumType", R, e, <<t>>)>>, k, <<>>),
      Text("c_lf", <<Entity(R, <<q>>, <<Attr(x, NoName)>>), Entity(q, <<>>, <<Attr(e, r)>>),
                     Typed("SelectType", e, NoName, <<r, q>>)>>, <<>>, <<Function(t, r)>>)>>

MCWorkspaces ==
    {Linked3(i, <<>>, <<>>) : i \in {<<>>, <<Use("b", <<>>)>>, <<Reference("b", <<>>), Use("c_lf", <<>>)>>,
                                     <<Use("b", <<t>>), Reference("c_lf", <<r, e>>)>>}}
    \cup {Linked3(<<Use("b", <<r>>)>>, j, k) : j \in {<<>>, <<p>>}, k \in {<<Use("a", <<>>)>>, <<Use("c_lf", <<>>)>>}}
    \cup {Linked3(<<Use("b", <<>>)>>, j, <<>>) : j \in {<<r>>, <<R>>}}
    \* every name is declared once
    \cup {<<Text("a", <<Entity(p, <<r>>, <<Attr(x, i), Attr(y, t)>>), Typed("SelectType", z, NoName, <<p, e>>)>>,
                 <<Use("b", <<>>)>>, <<>>),
            Text("b", <<Entity(r, <<>>, <<Attr(x, q)>>), Entity(t, <<>>, <<Attr(x, r)>>), Typed("EnumType", q, NoName, <<y>>),
                        Typed("SelectType", e, NoName, <<t, r>>)>>, j, <<>>),
            Text("c_lf", <<>>, <<>>, <<>>)>> : i \in {r, z, e, q}, j \in {<<>>, <<Use("a", <<>>)>>}}

MCEdited == {Linked3(i, <<>>, <<>>) : i \in {<<>>, <<Use("b", <<>>)>>}}

MCListings == {<<1, 2, 3>>, <<3, 2, 1>>}

Group(name) == [kind |-> "group", name |-> name]
Dot(name) == [kind |-> "attr", name |-> name]
Indexed == [kind |-> "index", name |-> NoName]
Path(head, quals) == [text |-> 1, head |-> head, source |-> NoName, quals |-> quals]
Role(schema, entity) == [head |-> "USEDIN", role |-> <<schema, entity>>, quals |-> <<>>]
Source(head, quals) == [head |-> head, role |-> NoName, quals |-> quals]
Query(source, quals) == [text |-> 1, head |-> "QUERY", source |-> source, quals |-> quals]

MCPaths ==
    {Path("SELF", <<Dot(x)>>), Path("SELF", <<Group(r), Dot(x)>>), Path("SELF", <<Group(R), Dot(q)>>),
     Path(x, <<Indexed, Indexed, Dot(q)>>), Path(x, <<Dot(x), Indexed, Indexed, Dot(q)>>), Path(x, <<Group(t), Dot(R)>>),
     Path(y, <<Group(p), Dot(x), Dot(q)>>), Path(R, <<Indexed, Indexed, Indexed, Dot(x)>>), Path(t, <<Dot(x)>>),
     Path(e, <<Dot(x)>>), Path(e, <<Group(q)>>), Path("SELF", <<Dot(y), Indexed, Indexed, Group(p)>>),
     Query(Source("SELF", <<>>), <<Dot(q)>>), Query(Source(x, <<Dot(x)>>), <<Group(r), Dot(x)>>),
     Query(Source(t, <<>>), <<Dot(x)>>), Query(Role("a", p), <<Dot(x)>>), Query(Role("c_lf", r), <<Dot(e)>>)}
    \cup {[Path("SELF", <<Group(R), Dot(x)>>) EXCEPT !.text = c] : c \in {2, 3}}
    \cup {[Path(x, <<Group(r), Dot(x)>>) EXCEPT !.text = 3]}
=============================================================================

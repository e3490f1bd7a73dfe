---------------------------- MODULE MCScopeIndex ----------------------------
(***************************************************************************)
(* Workspaces of four schemas in three files for TLC: a, then a first b,   *)
(* then a second b beside c.                                               *)
(***************************************************************************)
EXTENDS ScopeIndex

CONSTANTS x, y, z, u, v,    \* identifiers in lower case
          Z                 \* z in another case

MCSchemaName == <<"a", "b", "b", "c">>
MCDocument == <<1, 2, 3, 3>>

\* a declares ENTITY x, the first b ENTITY x, the second b TYPE y and
\* FUNCTION z, c CONSTANT x.
MCDecls == {"ax", "bx", "by", "bz", "cx"}
MCHome == [d \in MCDecls |-> CASE d = "ax" -> 1 [] d = "bx" -> 2 [] d = "cx" -> 4 [] OTHER -> 3]
MCKind == [d \in MCDecls |-> CASE d = "by" -> "TYPE" [] d = "bz" -> "FUNCTION"
                               [] d = "cx" -> "CONSTANT" [] OTHER -> "ENTITY"]
MCIdent == [d \in MCDecls |-> CASE d = "by" -> y [] d = "bz" -> z [] OTHER -> x]
MCNames == {x, y, z, u, v, Z}
MCFolded == [n \in MCNames |-> IF n = Z THEN z ELSE n]

Item(n) == [written |-> n, as |-> NoName]
Rename(n, m) == [written |-> n, as |-> m]
Use(t, items) == [mode |-> "use", schema |-> t, items |-> items]
Reference(t, items) == [mode |-> "reference", schema |-> t, items |-> items]

\* What one specification may list.
Lists == {{}, {Item(x)}, {Rename(x, y), Item(z)}}
Single == {Use(t, l) : t \in SchemaNames, l \in Lists}
             \cup {Reference(t, {}) : t \in SchemaNames}
             \cup {Reference("b", {Item(Z)})}

\* A USE cycle through all schemas whose one renaming step permutes five
\* identifiers: an entry passes it five times before the cycle closes.
RenameCycle ==
    <<{Use("b", {})}, {Use("c", {})},
      {Use("a", {Rename(x, y), Rename(y, z), Rename(z, u), Rename(u, v), Rename(v, x)})},
      {Use("b", {})}>>

\* a brings an entity and a type in under one name with a capital, and the first
\* b lists it from a.
Capitals ==
    <<{Use("c", {Item(Z)}), Use("b", {Rename(x, Z)})}, {Use("a", {Item(Z)})}, {},
      {Use("b", {Rename(y, Z)})}>>

\* The workspaces of the edits.  What c says of a changes the clashes of the
\* first b; what it says of b those of a, which does not name it.
MCEdited ==
    {<<p, q, {}, r>> : p \in {{}, {Use("b", {Item(u), Rename(x, u)})}},
                       q \in {{}, {Use("c", {})}},
                       r \in {{}, {Use("a", {})}, {Use("b", {Rename(y, u)})}}}

\* Every workspace with one specification per schema at most, one schema with
\* two, the renaming cycle, the shared capital, and those of the edits.
MCWorkspaces ==
    [Schemas -> {{}} \cup {{p} : p \in Single}] \cup
    {<<{Use("b", {}), Use("c", {Item(x)})}, {p}, {q}, {r}>> : p, q, r \in Single} \cup
    {RenameCycle, Capitals} \cup MCEdited

=============================================================================

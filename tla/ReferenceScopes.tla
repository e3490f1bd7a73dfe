-------------------------- MODULE ReferenceScopes --------------------------
(***************************************************************************)
(* What a reference is linked to: the scope provider                       *)
(* (src/language/express-p11-scope-provider.ts) with the case rule         *)
(* (express-p11-case-rule-scope.ts), the symbols of a document             *)
(* (express-p11-scope-computation.ts) and the linker's one lookup          *)
(* (express-p11-linker.ts), on top of the type container.                  *)
(*                                                                         *)
(* A reference is a place in a text, what it looks for and the written     *)
(* name.  A plain name is looked up in layers: the symbols of the places   *)
(* around it, what its schema sees through its interfaces, and the index   *)
(* of the workspace.  After a dot or a backslash it is looked up in what   *)
(* the expression to its left stands for.  The last two layers are cached  *)
(* until a document changes, and group references compute graphs of the    *)
(* container, so what was linked before must not matter; nor must the      *)
(* order in which the file system listed the documents.                    *)
(***************************************************************************)
EXTENDS TypeContainer

CONSTANTS
    Listings,   \* orders in which the file system may list documents
    Paths       \* expressions: [text, head, source, quals], where head is a name,
                \* "SELF" or "QUERY" for the variable of a query over `source`: a
                \* path, or "USEDIN" with its role

ASSUME ReferencesAssumption ==
    \A path \in Paths :
        /\ \A i \in DOMAIN path.quals : path.quals[i].kind \in {"group", "attr", "index"}
        /\ path.quals # <<>> /\ path.quals[Len(path.quals)].kind # "index"

VARIABLES
    listing,    \* the documents in the order of the index
    globals,    \* globalScopeCache
    interfaces  \* interfaceIndexCache

caches == <<globals, interfaces>>
linkVars == <<vars, listing, caches>>

\* A symbol: kind, name, and the position of its declaration.
None == [kind |-> "None", name |-> NoName, id |-> NoNode]

\* The kinds a plain reference accepts, by the type of the reference.
Accepts ==
    [Schema |-> {"Schema"}, Entity |-> {"Entity"}, Resource |-> {"Entity", "Type", "Function"},
     Complex |-> {"Entity", "Type", "Function", "Attribute", "Item", "Parameter", "Variable"}]
ReferenceTypes == DOMAIN Accepts

----------------------------------------------------------------------------
(* The case rule *)

InLowerCase(name) == IF name \in Names THEN Folded[name] ELSE name
SameIgnoringCase(a, b) == InLowerCase(a) = InLowerCase(b)

FoldsCase(kind, longForm) == longForm \/ kind \notin {"Entity", "Schema"}

SymbolIn(list, i) == IF i = 0 THEN None ELSE list[i]
FirstOf(list, Test(_)) == SymbolIn(list, SelectInSeq(list, Test))
Otherwise(y, z) == IF y # None THEN y ELSE z

\* CaseRuleScope and IndexedCaseRuleScope, one layer.
Lookup(list, name, longForm) ==
    Otherwise(FirstOf(list, LAMBDA y : y.name = name),
              FirstOf(list, LAMBDA y : FoldsCase(y.kind, longForm) /\ SameIgnoringCase(y.name, name)))

\* LazyCaseRuleScope: one scan, which remembers the first folded candidate.
Scan(list, name, longForm) ==
    LET step(acc, y) ==
            CASE acc.exact # None -> acc
              [] acc.exact = None /\ y.name = name -> [acc EXCEPT !.exact = y]
              [] acc.exact = None /\ y.name # name /\ acc.folded = None
                   /\ SameIgnoringCase(y.name, name) /\ FoldsCase(y.kind, longForm)
                   -> [acc EXCEPT !.folded = y]
              [] OTHER -> acc
        best(found) == Otherwise(found.exact, found.folded)
    IN  best(FoldLeft(step, [exact |-> None, folded |-> None], list))

----------------------------------------------------------------------------
(* The symbols of a text *)

DeclSymbol(n) ==
    [kind |-> IF Decl(n).kind = "Entity" THEN "Entity" ELSE "Type", name |-> Decl(n).name, id |-> n]
Symbols(nodes) == [i \in DOMAIN nodes |-> DeclSymbol(nodes[i])]
FunSymbols(c) ==
    [f \in DOMAIN ws[c].funs |-> [kind |-> "Function", name |-> ws[c].funs[f].name, id |-> <<c, 0, f>>]]
AttributeSymbols(n) ==
    [i \in DOMAIN Decl(n).attrs |->
        [kind |-> "Attribute", name |-> Decl(n).attrs[i].name, id |-> <<n[1], n[2], i>>]]
ItemSymbols(n) ==
    IF Decl(n).kind # "EnumType" THEN <<>>
    ELSE [i \in DOMAIN Decl(n).members |->
            [kind |-> "Item", name |-> Decl(n).members[i], id |-> <<n[1], n[2], i>>]]
VarSymbols(c, f) ==
    [i \in DOMAIN ws[c].funs[f].vars |->
        [kind |-> ws[c].funs[f].vars[i].kind, name |-> ws[c].funs[f].vars[i].name, id |-> <<c, 0, f, i>>]]

\* collectExportedSymbols: the schema and its declarations.
Exports(c) ==
    <<[kind |-> "Schema", name |-> ws[c].name, id |-> <<c>>]>>
    \o Symbols(TextNodes(c)) \o FunSymbols(c)

\* addLocalSymbol of the whole schema: items of enumerations are among them.
SchemaSymbols(c) ==
    FlattenSeq([d \in DOMAIN ws[c].decls |-> <<DeclSymbol(<<c, d>>)>> \o ItemSymbols(<<c, d>>)])
    \o FunSymbols(c)

\* A place: in a declaration, in a function, or in the schema itself.
Places ==
    {[text |-> n[1], decl |-> n[2], fun |-> 0] : n \in Nodes}
    \cup UNION {{[text |-> c, decl |-> 0, fun |-> f] : f \in {0} \cup DOMAIN ws[c].funs} : c \in Positions}
SchemaAt(p) == ws[p.text].name
FormAt(p) == LongForm(SchemaAt(p))

\* The local symbols, innermost first.
LocalLayers(p) ==
    (IF p.decl # 0 THEN <<AttributeSymbols(<<p.text, p.decl>>)>> ELSE <<>>)
    \o (IF p.fun # 0 THEN <<VarSymbols(p.text, p.fun)>> ELSE <<>>)
    \o <<SchemaSymbols(p.text)>>

----------------------------------------------------------------------------
(* Plain names *)

\* Kinds stand in a resource list in the order in which they first came in.
ByKind(list) ==
    FlattenSeq([r \in DOMAIN list |-> Filtered(list, {n \in Range(list) : KindRank(list, Decl(n).kind) = r})])
VisibleDeclarations(s) == Symbols(ByKind(Resources(s)))

Accepted(list, type) == Filtered(list, {y \in Range(list) : y.kind \in Accepts[type]})

\* Mutant: the index as it comes.
IndexAsListed(type) == Accepted(FlattenSeq([i \in DOMAIN ws |-> Exports(listing[i])]), type)
\* The index in the order of the documents' URIs.
Index(type) == Accepted(FlattenSeq([i \in DOMAIN ws |-> Exports(i)]), type)

GlobalKey(type, longForm) == <<type, longForm>>
\* WorkspaceCache.get: the scope under the key is the kept one or a new one.
With(cache, k, scope) == [j \in {k} \cup DOMAIN cache |-> IF j = k THEN scope ELSE cache[j]]

\* A cached scope is a list and the form it was made for.
GlobalScope(type, longForm) ==
    IF GlobalKey(type, longForm) \in DOMAIN globals THEN globals[GlobalKey(type, longForm)]
    ELSE [list |-> Index(type), longForm |-> longForm]
InterfaceScope(s) ==
    IF s \in DOMAIN interfaces THEN interfaces[s] ELSE VisibleDeclarations(s)

PlainTarget(p, type, name) ==
    LET hit(list) == Lookup(Accepted(list, type), name, FormAt(p))
        local(layers) == FirstOf([i \in DOMAIN layers |-> hit(layers[i])], LAMBDA y : y # None)
        indexed(scope) == Lookup(scope.list, name, scope.longForm)
    IN  Otherwise(local(LocalLayers(p)),
                  Otherwise(hit(InterfaceScope(SchemaAt(p))), indexed(GlobalScope(type, FormAt(p)))))

----------------------------------------------------------------------------
(* Names looked up in the container *)

\* Mutant: entities fold in every form.
ControlledEntityFolding(s, name) == Scan(Symbols(OfKind(Resources(s), "Entity")), name, TRUE)
\* SUBTYPE OF and SUPERTYPE expressions
ControlledEntity(s, name) == Scan(Symbols(OfKind(Resources(s), "Entity")), name, LongForm(s))

\* BASED_ON
ControlledType(s, kind, name) == Scan(Symbols(OfKind(Resources(s), kind)), name, LongForm(s))

\* NamedType: the type of an attribute, a parameter, an item of a select.
NamedTarget(s, name) ==
    LET kinds == <<"Entity", "Type", "EnumType", "SelectType">>
    IN  Scan(Symbols(FlattenSeq([k \in DOMAIN kinds |-> OfKind(Resources(s), kinds[k])])), name, LongForm(s))

\* Attributes in levels, nearest first: those an exact lookup may end at, or else
\* those a folded one may.  The order within a level is left open.
AttributeName(a) == ws[a[1]].decls[a[2]].attrs[a[3]].name
Nearest(tiers, name) ==
    LET exact == {i \in DOMAIN tiers : \E a \in tiers[i] : AttributeName(a) = name}
        any == {i \in DOMAIN tiers : tiers[i] # {}}
        first(S) == CHOOSE i \in S : \A j \in S : i <= j
    IN  IF exact # {} THEN {a \in tiers[first(exact)] : AttributeName(a) = name}
        ELSE IF any # {} THEN tiers[first(any)] ELSE {}

Explicit(a) == ~ws[a[1]].decls[a[2]].attrs[a[3]].inverse

\* Mutant: inherited attributes of any kind.
InverseTargetsAny(entity, prefixed, name) ==
    Nearest(AttributeCandidates(entity, name, FALSE), name)
\* INVERSE ... FOR: explicit attributes of the entity, inherited ones included;
\* after an entity prefix only those of the entity the prefix names.
InverseTargets(entity, prefixed, name) ==
    LET candidates == IF prefixed THEN <<AttributesOf(entity, name)>>
                      ELSE AttributeCandidates(entity, name, FALSE)
    IN  Nearest([i \in DOMAIN candidates |-> {a \in candidates[i] : Explicit(a)}], name)

----------------------------------------------------------------------------
(* What an operand stands for: nodes, and how a qualifier reads them *)

NoOperand == [nodes |-> {}, type |-> "Empty"]
\* Overflow, an entity that is not found, and no entity at all are no operand.
Operand(nodes) == IF nodes \in {{}, Overflow} THEN NoOperand ELSE [nodes |-> nodes, type |-> "Entities"]

\* extractTypes, from the syntax tree: the entities of a select's list and of
\* listed selects; a select that extends another one gives nothing.
ExtractTypes[w \in Nodes \X (SUBSET Nodes)] ==
    LET n == w[1]
        under == w[2]
        targets == {NamedTarget(SchemaOf(n), Decl(n).members[i]) : i \in DOMAIN Decl(n).members}
        deeper == {ExtractTypes[<<y.id, under \cup {n}>>] : y \in {z \in targets : z.kind = "Type"}}
    IN  IF Decl(n).kind # "SelectType" \/ Decl(n).base # NoName THEN {}
        ELSE IF n \in under \/ Overflow \in deeper THEN Overflow
        ELSE {y.id : y \in {z \in targets : z.kind = "Entity"}} \cup UNION deeper

\* Mutant: a select gives nothing.
TypesFromEntity(s, name) ==
    IF name = NoName \/ NamedTarget(s, name).kind # "Entity" THEN {} ELSE {NamedTarget(s, name).id}
\* getTypesFromParameterType
TypesFromWritten(s, name) ==
    LET entities(y) == CASE y.kind = "Entity" -> {y.id}
                         [] y.kind = "Type" -> ExtractTypes[<<y.id, {}>>]
                         [] OTHER -> {}
    IN  entities(IF name = NoName THEN None ELSE NamedTarget(s, name))

\* extractInstanceTypes
InstanceTypes[w \in Nodes \X (SUBSET Nodes)] ==
    LET n == w[1]
        under == w[2]
        instances(y) == CASE y.kind = "Entity" -> {y.id}
                          [] y.kind = "Type" -> InstanceTypes[<<y.id, under \cup {n}>>]
                          [] OTHER -> {}
    IN  CASE n \in under -> Overflow
          [] n \notin under /\ Decl(n).kind = "SelectType" -> ExtractTypes[<<n, {}>>]
          [] n \notin under /\ Decl(n).kind = "Type" /\ Decl(n).base # NoName ->
               instances(NamedTarget(SchemaOf(n), Decl(n).base))
          [] OTHER -> {}

\* SELF, and the SELF of a redeclared attribute.
SelfOperand(p) ==
    IF p.decl = 0 THEN NoOperand
    ELSE Operand(IF ws[p.text].decls[p.decl].kind = "Entity" THEN {<<p.text, p.decl>>}
                 ELSE InstanceTypes[<<<<p.text, p.decl>>, {}>>])

\* resolveAttribute: the items of an enumeration are no operand.
AttributeOperand(n, i) ==
    LET entities(values) == IF \E v \in values : Len(v) = 3 THEN {} ELSE values
    IN  Operand(entities(ResolveAttribute(n, i)))

EnumOperand(n) ==
    IF n = NoNode \/ Decl(n).kind # "EnumType" \/ EnumValues[<<n, {}>>] = Overflow THEN NoOperand
    ELSE [nodes |-> EnumValues[<<n, {}>>], type |-> "Enums"]

WrittenType(y) ==
    LET f == ws[y.id[1]].funs[y.id[3]] IN IF y.kind = "Function" THEN f.returns ELSE f.vars[y.id[4]].type

\* getSimpleScopeOptions of the declaration a name is linked to.
SymbolOperand(s, y) ==
    CASE y.kind = "Attribute" -> AttributeOperand(<<y.id[1], y.id[2]>>, y.id[3])
      [] y.kind \in {"Parameter", "Variable", "Function"} ->
           Operand(TypesFromWritten(ws[y.id[1]].name, WrittenType(y)))
      [] y.kind = "Entity" -> Operand({y.id})
      [] y.kind = "Type" /\ Decl(y.id).kind = "EnumType" -> EnumOperand(FindByName(Resources(s), y.name))
      [] OTHER -> NoOperand

ItemName(v) == ws[v[1]].decls[v[2]].members[v[3]]

\* getFullSubSuperGraph: kept under the key of the entity, or computed.  The
\* entity is looked up by the name of the node, even of an enumeration item.
GraphOf(v) ==
    LET graph(n) == CASE n = NoNode -> {}
                      [] n # NoNode /\ key[n] # 0 -> graphs[key[n]]
                      [] OTHER -> Met(n)
        name == IF Len(v) = 2 THEN Decl(v).name ELSE ItemName(v)
    IN  graph(Find(EntitiesOf(SchemaOf(v)), LAMBDA m : Decl(m).name = name))

\* What a lookup by name may end at among the members of S, in any order.
Preferred(S, NameOf(_), name, folds) ==
    LET exact == {v \in S : NameOf(v) = name}
    IN  IF exact # {} \/ ~folds THEN exact ELSE {v \in S : SameIgnoringCase(NameOf(v), name)}

\* What a qualifier may be linked to, given its operand.
GroupTargets(p, o, name) ==
    Preferred(UNION {GraphOf(v) : v \in o.nodes}, LAMBDA n : Decl(n).name, name, FormAt(p))

AttributeTargets(o, name) ==
    CASE o.type = "Entities" ->
           Preferred(UNION {Nearest(AttributeCandidates(n, name, TRUE), name) : n \in o.nodes},
                     AttributeName, name, TRUE)
      [] o.type = "Entity" -> UNION {Preferred(AttributesOf(n, name), AttributeName, name, TRUE) : n \in o.nodes}
      [] o.type = "Enums" -> Preferred(o.nodes, ItemName, name, TRUE)
      [] OTHER -> {}

QualifierTargets(p, o, q) ==
    CASE q.kind = "group" -> GroupTargets(p, o, q.name)
      [] q.kind = "attr" -> AttributeTargets(o, q.name)
      [] OTHER -> {}

\* Mutant: one index is stepped over, not all of them.
OperandPositionOnce(quals, k) == IF k > 1 /\ quals[k - 1].kind = "index" THEN k - 2 ELSE k - 1
\* The nearest qualifier before the k-th that is not an index, 0: the head.
OperandPosition(quals, k) ==
    LET before == {j \in 1..(k - 1) : quals[j].kind # "index"}
    IN  IF before = {} THEN 0 ELSE CHOOSE j \in before : \A i \in before : i <= j

\* The operand after a qualifier was linked to one of its targets.
AfterQualifier(kind, target) ==
    CASE kind = "group" -> [nodes |-> {target}, type |-> "Entity"]
      [] kind = "attr" /\ ws[target[1]].decls[target[2]].kind = "Entity" ->
           AttributeOperand(<<target[1], target[2]>>, target[3])
      [] OTHER -> NoOperand

\* qualifierOperand: what the k-th qualifier may be read against, given what the
\* head stands for; and what the last one may be linked to.
OperandsFrom(p, heads, quals) ==
    LET operands[k \in 1..Len(quals)] ==
            IF OperandPosition(quals, k) = 0 THEN heads
            ELSE LET j == OperandPosition(quals, k)
                 IN  UNION {{AfterQualifier(quals[j].kind, t) : t \in QualifierTargets(p, o, quals[j])} :
                               o \in operands[j]}
    IN  operands
TargetsFrom(p, heads, quals) ==
    UNION {QualifierTargets(p, o, quals[Len(quals)]) : o \in OperandsFrom(p, heads, quals)[Len(quals)]}

\* findEntityByInsensitiveName, for the role of a USEDIN call.
RoleEntity(role) ==
    Find(EntitiesOfAll(Filtered(Order, {s \in SchemaNames : SameIgnoringCase(s, role[1])})),
         LAMBDA n : SameIgnoringCase(Decl(n).name, role[2]))

\* A name, SELF or a USEDIN call without qualifiers.
HeadOperand(p, source) ==
    CASE source.head = "SELF" -> SelfOperand(p)
      [] source.head = "USEDIN" -> Operand({RoleEntity(source.role)})
      [] OTHER -> SymbolOperand(SchemaAt(p), PlainTarget(p, "Complex", source.head))

\* The source of a query: a head, or a path that ends at an attribute.
SourceOperands(p, head, quals) ==
    CASE quals = <<>> -> {head}
      [] quals # <<>> /\ quals[Len(quals)].kind = "attr" ->
           {AfterQualifier("attr", t) : t \in TargetsFrom(p, {head}, quals)}
      [] OTHER -> {NoOperand}

\* What the head of a path stands for; the variable of a query stands for the
\* elements of its source.
HeadOperands(p, path) ==
    LET source == IF path.head = "QUERY" THEN path.source ELSE [head |-> path.head, quals |-> <<>>]
    IN  SourceOperands(p, HeadOperand(p, source), source.quals)

----------------------------------------------------------------------------
(* The container answers, and references are linked *)

LinkInit ==
    /\ Init
    /\ listing \in Listings /\ Len(listing) = Len(ws)
    /\ globals = <<>> /\ interfaces = <<>>

\* Both caches are cleared when documents change.
Relink ==
    /\ Build
    /\ globals' = <<>> /\ interfaces' = <<>>
    /\ UNCHANGED listing

Loading ==
    /\ \/ LoadSchema \/ InterfaceSchema \/ NameSupertypes \/ WireSchema \/ EnterSubtypes \/ Interrupt
    /\ UNCHANGED <<listing, caches>>

\* A plain reference from schema text c fills both caches, and the second one
\* asks the container for what the schema sees.
LinkPlain(c, type) ==
    LET s == ws[c].name
    IN  /\ Answers(c)
        /\ globals' = With(globals, GlobalKey(type, LongForm(s)), GlobalScope(type, LongForm(s)))
        /\ interfaces' = With(interfaces, s, InterfaceScope(s))
        /\ memo' = IF s \in DOMAIN interfaces THEN memo ELSE RememberResources(s)
        /\ UNCHANGED <<graphs, key, levels, listing>>

\* The other references: a group, an attribute, a named type or SUBTYPE OF.
LinkGroup(n) == AskGraph(n) /\ UNCHANGED <<listing, caches>>
LinkAttribute(n) == AskVisible(n) /\ UNCHANGED <<listing, caches>>
LinkNamed(c) == AskResources(c) /\ UNCHANGED <<listing, caches>>

LinkNext ==
    \/ Relink \/ Loading
    \/ \E c \in Positions : LinkNamed(c) \/ \E type \in ReferenceTypes : LinkPlain(c, type)
    \/ \E n \in Nodes : LinkGroup(n) \/ LinkAttribute(n)

LinkSpec == LinkInit /\ [][LinkNext]_linkVars

----------------------------------------------------------------------------
(* Properties *)

\* A plain reference is linked to a symbol of the innermost place that has one
\* for it, otherwise to one that clause 11 makes visible, and to an unrelated
\* schema only when there is neither: then to the first document by URI.  An exact
\* spelling in the chosen layer wins.  What was linked before and how the
\* documents were listed do not matter.
PlainReferencesAreScoped ==
    stage = "built" =>
      LET declared == UNION {Range(Exports(c)) : c \in Positions}
          visible == [s \in {ws[c].name : c \in Positions} |-> {DeclSymbol(n) : n \in SeenByClause11(s)}]
      IN  \A p \in Places, type \in ReferenceTypes : \A name \in IF type = "Schema" THEN SchemaNames ELSE Names :
            LET target == PlainTarget(p, type, name)
                exact(S) == {y \in S : y.kind \in Accepts[type] /\ y.name = name}
                folded(S) == {y \in S : /\ y.kind \in Accepts[type] /\ SameIgnoringCase(y.name, name)
                                        /\ FormAt(p) \/ y.kind \notin {"Entity", "Schema"}}
                best(S) == IF exact(S) # {} THEN exact(S) ELSE folded(S)
                locals == [i \in DOMAIN LocalLayers(p) |-> best(Range(LocalLayers(p)[i]))]
                inner == {i \in DOMAIN locals : locals[i] # {}}
                seen == best(visible[SchemaAt(p)])
                foreign == best(declared)
            IN  CASE inner # {} ->
                       \E i \in inner : target \in locals[i] /\ \A j \in inner : i <= j
                  [] inner = {} /\ seen # {} -> target \in seen
                  [] inner = {} /\ seen = {} /\ foreign # {} ->
                       target \in foreign /\ \A y \in foreign : target.id[1] <= y.id[1]
                  [] OTHER -> target = None

\* SUBTYPE OF and BASED_ON are linked to the entities and types which the
\* container took for the supertypes and the base: the linked tree and the wired
\* one are the same.
LinksAgreeWithContainer ==
    stage = "built" => \A n \in Nodes :
        LET s == SchemaOf(n)
        IN  /\ Object(n) = n => Range(supers[n]) = {ControlledEntity(s, w).id : w \in Range(Decl(n).supers)} \ {NoNode}
            /\ n \in Range(TypesOf(schemas[s])) /\ Decl(n).kind # "Type" /\ Decl(n).base # NoName =>
                 types[n].base = ControlledType(s, Decl(n).kind, Decl(n).base).id

\* 9.2.1.3: the attribute an inverse attribute names is an explicit one which the
\* entity has or, without a prefix, inherits; it is found whenever there is one.
InverseAttributesAreExplicit ==
    stage = "built" => \A n \in {m \in Nodes : Decl(m).kind = "Entity"}, prefixed \in BOOLEAN :
        \A name \in UNION {{Decl(m).attrs[i].name : i \in DOMAIN Decl(m).attrs} : m \in Nodes} :
            LET above == {n} \cup IF prefixed THEN {} ELSE Reached([m \in Nodes |-> AstSupers(m)], n)
                all == {a \in UNION {AttributesOf(m, name) : m \in above} : Explicit(a)}
                found == InverseTargets(n, prefixed, name)
            IN  found \subseteq all /\ (found = {} <=> all = {})

Linked == [n \in Nodes |-> Range(supers[n]) \cup Range(Subtypes(n))]

\* 12.7.3 and 12.7.4: a group reference leads to an entity of the graphs of its
\* operand, an attribute after it to that entity's own, an attribute of an entity
\* to the entity or its supertypes or subtypes.  Indexes change nothing, however
\* many there are.
Graph(n) == IF Object(n) = NoNode THEN {} ELSE {Object(n)} \cup Reached(Linked, Object(n))
Kin(n) == {n} \cup IF Object(n) = n THEN Relatives(n, "up") \cup Relatives(n, "down")
                   ELSE Reached([m \in Nodes |-> AstSupers(m)], n)
LeadsWithin(o, q, targets) ==
    CASE q.kind = "group" -> o.type = "Enums" \/ targets \subseteq UNION {Graph(n) : n \in o.nodes}
      [] o.type = "Entity" -> \A a \in targets : o.nodes = {<<a[1], a[2]>>}
      [] o.type = "Entities" -> \A a \in targets : \E n \in o.nodes : <<a[1], a[2]>> \in Kin(n)
      [] OTHER -> targets \subseteq o.nodes
StaysWithin(p, quals, bare, operands) ==
    /\ \A k \in DOMAIN quals : \A o \in operands[quals][k] :
          LeadsWithin(o, quals[k], QualifierTargets(p, o, quals[k]))
    /\ operands[quals][Len(quals)] = operands[bare][Len(bare)]
QualifiersStayInTheGraph ==
    stage = "built" => \A path \in Paths : \A p \in {q \in Places : q.text = path.text} :
        LET bare == Filtered(path.quals, {q \in Range(path.quals) : q.kind # "index"})
            operands(heads) == [quals \in {path.quals, bare} |-> OperandsFrom(p, heads, quals)]
        IN  StaysWithin(p, path.quals, bare, operands(HeadOperands(p, path)))

NamesAreUnique ==
    /\ \A s, t \in Positions : ws[s].name = ws[t].name => s = t
    /\ \A m, n \in Nodes : Folded[Decl(m).name] = Folded[Decl(n).name] => m = n
\* Where every name is declared once and no select extends another, a variable
\* and an attribute of one written type stand for the same entities, although one
\* is read from the syntax tree and the other from the container.
OperandsAgree ==
    stage = "built" /\ NamesAreUnique /\ (\A n \in Nodes : Decl(n).kind = "SelectType" => Decl(n).base = NoName) =>
        \A n \in Nodes : \A i \in DOMAIN Decl(n).attrs :
            AttributeOperand(n, i) = Operand(TypesFromWritten(SchemaOf(n), Decl(n).attrs[i].type))
=============================================================================

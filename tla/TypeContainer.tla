--------------------------- MODULE TypeContainer ---------------------------
(***************************************************************************)
(* The type container (src/language/express-p11-type-container.ts), the    *)
(* objects it keeps for schemas, entities and types                        *)
(* (express-p11-type-utilities.ts) and its memo pool                       *)
(* (express-p11-memo-pool.ts).  A build clears everything, makes an object *)
(* for every schema text, reads the interface specifications, resolves     *)
(* SUBTYPE OF clauses twice (a first resolution over names and the one the *)
(* program uses, over objects) and then answers: which declarations a      *)
(* schema sees, the supertypes, subtypes and whole graph of an entity, the *)
(* attributes visible from it and the type of an attribute.  Most answers  *)
(* are kept until the next build.                                          *)
(*                                                                         *)
(* A build gives way to other work between two schemas; it may be          *)
(* cancelled there, and a request for a document that is not being rebuilt *)
(* may be answered there.                                                  *)
(***************************************************************************)
EXTENDS Integers, SequencesExt

CONSTANTS
    Names, Folded,          \* identifiers; identifier -> the identifier in lower case
    SchemaNames, LongForms, \* names of schemas; those ending in _lf
    NoName,                 \* no written name
    Workspaces,             \* what the documents may say: sequences of schema texts
    Edited,                 \* bound: the workspaces an edit may lead from and to
    MaxBuilds,              \* bound on the builds
    MaxQueries,             \* bound on the requests of a behaviour
    RequestsDuringBuild     \* are requests answered while a build is under way?

Kinds == {"Entity", "Type", "EnumType", "SelectType"}

\* supers: the names in SUBTYPE OF; base: the name after BASED_ON, or of a plain
\* type the type it names, aggregates stripped; members: the names in the list of
\* a SELECT or the items of an ENUMERATION; attrs: the attributes with the
\* written name of their type, aggregates stripped.
Declarations ==
    [kind : Kinds, name : Names, supers : Seq(Names), base : Names \cup {NoName},
     members : Seq(Names),
     attrs : Seq([name : Names, type : Names \cup {NoName}, inverse : BOOLEAN])]
Specifications == [mode : {"use", "reference"}, schema : SchemaNames, items : Seq(Names)]
\* Functions, which the container does not read: parameters and local variables.
Callables == [name : Names, returns : Names \cup {NoName},
              vars : Seq([kind : {"Parameter", "Variable"}, name : Names, type : Names \cup {NoName}])]
SchemaTexts == [name : SchemaNames, decls : Seq(Declarations), specs : Seq(Specifications),
                funs : Seq(Callables)]

ASSUME ContainerAssumption ==
    /\ Folded \in [Names -> Names]
    /\ LongForms \subseteq SchemaNames
    /\ NoName \notin Names
    /\ Workspaces \subseteq Seq(SchemaTexts) \ {<<>>}
    /\ Edited \subseteq Workspaces
    /\ {MaxBuilds, MaxQueries} \subseteq Nat
    /\ RequestsDuringBuild \in BOOLEAN

VARIABLES
    ws,         \* the schema texts of the current syntax trees, documents by URI
    kept,       \* schemas whose document is not rebuilt, so that requests for it do not wait
    builds,     \* builds so far
    queries,    \* requests so far
    stage, at,  \* what the build does; the position of the schema it does next
    schemas,    \* container.schemas: name -> the text its object was made from, 0: none
    full, partial,  \* fullInterfaces, partiallyInterfacedResourceRegistry of the objects
    supers,     \* entity._supertypes
    missing,    \* entity.unresolvedSupertypes
    types,      \* type -> its resolved base and list
    named,      \* localEntities: supertypes as the first resolution names them
    heirs,      \* localEntities: subtypes, entered from `named`
    memo,       \* the memo pool: supertypes, subtypes, resources
    graphs,     \* the memo pool: graph key -> members
    key,        \* entity.graphKey, 0: NIL
    levels      \* entity.visibleMemo

texts == <<ws, kept, builds>>
objects == <<schemas, full, partial, supers, missing, types, named, heirs>>
memos == <<memo, graphs, key, levels>>
vars == <<texts, queries, stage, at, objects, memos>>

NoNode == <<0, 0>>
Unset == {NoNode}
Positions == DOMAIN ws
Nodes == UNION {{<<s, d>> : d \in DOMAIN ws[s].decls} : s \in Positions}
Decl(n) == ws[n[1]].decls[n[2]]
SchemaOf(n) == ws[n[1]].name
LongForm(s) == s \in LongForms

Stages == <<"load", "interface", "name", "wire", "enter", "built">>

TypeOK ==
    /\ ws \in Workspaces /\ kept \subseteq Positions
    /\ builds \in 1..MaxBuilds /\ queries \in 0..MaxQueries
    /\ stage \in Range(Stages) \cup {"stopped"} /\ at \in Positions
    /\ schemas \in [SchemaNames -> {0} \cup Positions]
    /\ \A s \in SchemaNames :
         /\ \A i \in Range(full[s]) : i.mode \in {"use", "reference"} /\ i.schema \in SchemaNames
         /\ \A i \in Range(partial[s]) : i.node \in Nodes
         /\ memo.resources[s] = <<NoNode>> \/ Range(memo.resources[s]) \subseteq Nodes
    /\ \A n \in Nodes :
         /\ Range(supers[n]) \subseteq Nodes
         /\ types[n].base \in Nodes \cup {NoNode} /\ Range(types[n].members) \subseteq Nodes
         /\ \A dir \in {"up", "down"} : memo[dir][n] = Unset \/ memo[dir][n] \subseteq Nodes
    /\ \A k \in DOMAIN graphs : graphs[k] \subseteq Nodes
    /\ key \in [Nodes -> {0} \cup DOMAIN graphs]

----------------------------------------------------------------------------
(* Looking up names *)

ElementAt(list, i) == IF i = 0 THEN NoNode ELSE list[i]
Find(list, Test(_)) == ElementAt(list, SelectInSeq(list, Test))
OrElse(n, m) == IF n # NoNode THEN n ELSE m

\* Of a kind, exact spelling first; otherwise, if the kind folds, the first in any case.
UnderCaseRule(list, kind, name, folds) ==
    OrElse(Find(list, LAMBDA n : Decl(n).kind = kind /\ Decl(n).name = name),
           IF folds THEN Find(list, LAMBDA n : Decl(n).kind = kind /\ Folded[Decl(n).name] = Folded[name])
           ELSE NoNode)

\* Those of a list that are in a set, in their order.
Filtered(list, set) ==
    FlattenSeq([i \in DOMAIN list |-> IF list[i] \in set THEN <<list[i]>> ELSE <<>>])

OfKind(list, kind) == Filtered(list, {n \in Range(list) : Decl(n).kind = kind})

\* Map.set: an entry with the same key is replaced where it stands.
PutAt(list, i, n) == IF i = 0 THEN Append(list, n) ELSE [list EXCEPT ![i] = n]
Put(list, n, SameKey(_, _)) ==
    PutAt(list, SelectInSeq(list, LAMBDA m : SameKey(Decl(m), Decl(n))), n)

TextNodes(c) == [d \in DOMAIN ws[c].decls |-> <<c, d>>]
Earlier(n) == {m \in Nodes : m[1] = n[1] /\ m[2] < n[2] /\ Decl(m).kind = Decl(n).kind
                                /\ Decl(m).name = Decl(n).name}

\* addEntity: an entity whose name is taken by an entity is dropped.
Entities(c) == Filtered(TextNodes(c), {n \in Nodes : Decl(n).kind = "Entity" /\ Earlier(n) = {}})

\* addType: a type replaces the type of its name; both enter the registry of
\* the schema under their name alone.
LocalRegistry(c) ==
    FoldLeft(LAMBDA list, n : IF Decl(n).kind = "Entity" /\ Earlier(n) # {} THEN list
                              ELSE Put(list, n, LAMBDA x, y : x.name = y.name),
             <<>>, TextNodes(c))

TypesOf(c) ==
    FoldLeft(LAMBDA list, n : Put(list, n, LAMBDA x, y : x.name = y.name), <<>>,
             Filtered(TextNodes(c), {n \in Nodes : Decl(n).kind # "Entity"}))

\* getLocalDefinitionUnderCaseRule, as the interface specifications call it.
LocalDefinition(c, name) ==
    OrElse(Find(LocalRegistry(c), LAMBDA n : Decl(n).name = name),
           Find(LocalRegistry(c), LAMBDA n : /\ Folded[Decl(n).name] = Folded[name]
                                             /\ Decl(n).kind # "Entity"))

----------------------------------------------------------------------------
(* What a schema sees.  The schemas already visited are shared by all      *)
(* branches of the walk.                                                   *)

SameResource(x, y) == x.kind = y.kind /\ x.name = y.name
PutAll(list, more) == FoldLeft(LAMBDA l, n : Put(l, n, SameResource), list, more)
Merge(walk, foreign) == [list |-> PutAll(walk.list, foreign.list), seen |-> foreign.seen]

PartialItems(s, reference) ==
    LET items == Filtered(partial[s], {i \in Range(partial[s]) : reference \/ i.mode = "use"})
    IN  [i \in DOMAIN items |-> items[i].node]

FullTargets(s, mode) ==
    LET targets == Filtered(full[s], {i \in Range(full[s]) : i.mode = mode})
    IN  [i \in DOMAIN targets |-> targets[i].schema]

\* Mutant: what a foreign schema references is passed on.
WholeTargetsChained(s, reference) == FullTargets(s, "reference") \o FullTargets(s, "use")
WholeTargets(s, reference) ==
    (IF reference THEN FullTargets(s, "reference") ELSE <<>>) \o FullTargets(s, "use")

OwnResources(s, reference) == PutAll(LocalRegistry(schemas[s]), PartialItems(s, reference))

Loaded == {s \in SchemaNames : schemas[s] # 0}   \* those that have an object

\* ExpressP11Schema.getAllResources without the pool: own declarations, listed
\* items, what fully referenced schemas declare or use, what fully used ones do.
AllResources(s) ==
    LET collect[w \in [schema : Loaded, reference : BOOLEAN, seen : SUBSET Loaded]] ==
            IF w.schema \in w.seen THEN [list |-> <<>>, seen |-> w.seen]
            ELSE FoldLeft(LAMBDA walk, t :
                              Merge(walk, collect[[schema |-> t, reference |-> FALSE, seen |-> walk.seen]]),
                          [list |-> OwnResources(w.schema, w.reference), seen |-> w.seen \cup {w.schema}],
                          WholeTargets(w.schema, w.reference))
    IN  collect[[schema |-> s, reference |-> TRUE, seen |-> {}]].list

Memoized(s) == memo.resources[s] # <<NoNode>>
Resources(s) == IF Memoized(s) THEN memo.resources[s] ELSE AllResources(s)
RememberResources(s) == [memo EXCEPT !.resources[s] = Resources(s)]

SeesEntity(s, written) == UnderCaseRule(Resources(s), "Entity", written, LongForm(s))

Written(names, Resolve(_)) == Filtered([i \in DOMAIN names |-> Resolve(names[i])], Nodes)

----------------------------------------------------------------------------
(* The build *)

\* The names of the schema objects in the order of Map `schemas`.
Order ==
    LET first == Filtered([i \in DOMAIN ws |-> i],
                          {i \in Positions : \A j \in 1..(i - 1) : ws[j].name # ws[i].name})
    IN  [k \in DOMAIN first |-> ws[first[k]].name]

Advance(last) ==
    IF at < last THEN at' = at + 1 /\ UNCHANGED stage
    ELSE /\ at' = 1
         /\ stage' = Stages[CHOOSE i \in 2..Len(Stages) : Stages[i - 1] = stage]

NothingKept(w) ==
    LET nodes == UNION {{<<s, d>> : d \in DOMAIN w[s].decls} : s \in DOMAIN w}
    IN  [schemas |-> [s \in SchemaNames |-> 0], lists |-> [s \in SchemaNames |-> <<>>],
         empty |-> [n \in nodes |-> <<>>],
         types |-> [n \in nodes |-> [base |-> NoNode, members |-> <<>>]],
         memo |-> [up |-> [n \in nodes |-> Unset], down |-> [n \in nodes |-> Unset],
                   resources |-> [s \in SchemaNames |-> <<NoNode>>]],
         key |-> [n \in nodes |-> 0], levels |-> [n \in nodes |-> [up |-> <<>>, down |-> <<Unset>>]]]

ClearObjects(w) ==
    /\ schemas' = NothingKept(w).schemas
    /\ full' = NothingKept(w).lists /\ partial' = NothingKept(w).lists
    /\ supers' = NothingKept(w).empty /\ missing' = NothingKept(w).empty
    /\ types' = NothingKept(w).types
    /\ named' = NothingKept(w).empty /\ heirs' = NothingKept(w).empty

\* Mutant: the objects keep what they computed.
ClearPoolOnly(w) ==
    /\ memo' = NothingKept(w).memo /\ graphs' = <<>>
    /\ UNCHANGED <<key, levels>>
ClearMemos(w) ==
    /\ memo' = NothingKept(w).memo /\ graphs' = <<>>
    /\ key' = NothingKept(w).key /\ levels' = NothingKept(w).levels

Init ==
    /\ ws \in Workspaces
    /\ kept = {}
    /\ builds = 1 /\ queries = 0
    /\ stage = "load" /\ at = 1
    /\ schemas = NothingKept(ws).schemas
    /\ full = NothingKept(ws).lists /\ partial = NothingKept(ws).lists
    /\ supers = NothingKept(ws).empty /\ missing = NothingKept(ws).empty
    /\ types = NothingKept(ws).types
    /\ named = NothingKept(ws).empty /\ heirs = NothingKept(ws).empty
    /\ memo = NothingKept(ws).memo /\ graphs = <<>>
    /\ key = NothingKept(ws).key /\ levels = NothingKept(ws).levels

\* Schemas an edit from v to w leaves alone: their text is the same and they
\* interface no schema whose text is not.
Untouched(v, w) ==
    LET same == {s \in (DOMAIN v) \cap (DOMAIN w) : v[s] = w[s]}
    IN  {s \in same : \A i \in DOMAIN w[s].specs :
            \A t \in DOMAIN w : w[t].name = w[s].specs[i].schema => t \in same}

\* build: reset.  The syntax trees have changed since the last build; a document
\* that is left alone keeps the state a completed build gave it.
Build ==
    /\ stage \in {"built", "stopped"} /\ builds < MaxBuilds /\ ws \in Edited
    /\ \E w \in Edited \ {ws} :
         /\ ws' = w
         /\ kept' = {s \in Untouched(ws, w) : stage = "built" \/ s \in kept}
         /\ ClearObjects(w) /\ ClearMemos(w)
    /\ builds' = builds + 1 /\ stage' = "load" /\ at' = 1
    /\ UNCHANGED queries

\* extractEntities: the last text of a name is the one the schema object has.
LoadSchema ==
    /\ stage = "load"
    /\ schemas' = [schemas EXCEPT ![ws[at].name] = at]
    /\ Advance(Len(ws))
    /\ UNCHANGED <<texts, queries, full, partial, supers, missing, types, named, heirs, memos>>

\* resolveSpecifications for one schema, the part that fills the objects.
ReadSpecifications ==
    LET s == ws[at].name
        specs == Filtered(ws[at].specs, {p \in Range(ws[at].specs) : schemas[p.schema] # 0})
        whole == Filtered(specs, {p \in Range(specs) : p.items = <<>>})
        listed(p) == LET found == Written(p.items, LAMBDA i : LocalDefinition(schemas[p.schema], i))
                     IN  [i \in DOMAIN found |-> [mode |-> p.mode, node |-> found[i]]]
    IN  /\ full' = [full EXCEPT ![s] = @ \o [i \in DOMAIN whole |->
                        [mode |-> whole[i].mode, schema |-> whole[i].schema]]]
        /\ partial' = [partial EXCEPT ![s] = @ \o FlattenSeq([i \in DOMAIN specs |-> listed(specs[i])])]

InterfaceSchema ==
    /\ stage = "interface"
    /\ ReadSpecifications
    /\ Advance(Len(ws))
    /\ UNCHANGED <<texts, queries, schemas, supers, missing, types, named, heirs, memos>>

----------------------------------------------------------------------------
(* The first resolution: names and schema names, all texts of a name       *)
(* together                                                                *)

TextsNamed(s) == Filtered([i \in DOMAIN ws |-> i], {i \in Positions : ws[i].name = s})
ForTexts(s, Op(_)) == LET own == TextsNamed(s) IN FlattenSeq([i \in DOMAIN own |-> Op(own[i])])
LocalTypes(s) == ForTexts(s, LAMBDA c : OfKind(TextNodes(c), "Entity"))
Definitions(list) == [i \in DOMAIN list |-> [name |-> Decl(list[i]).name, schema |-> SchemaOf(list[i])]]

Specs(s, mode) == ForTexts(s, LAMBDA c : SelectSeq(ws[c].specs, LAMBDA p : p.mode = mode))
ListedNames(s, mode) ==
    LET specs == Specs(s, mode)
        locals(p) == Written(p.items, LAMBDA i : Find(LocalTypes(p.schema), LAMBDA n : Decl(n).name = i))
    IN  FlattenSeq([i \in DOMAIN specs |-> Definitions(locals(specs[i]))])
WholeNames(s, mode) ==
    LET specs == SelectSeq(Specs(s, mode), LAMBDA p : p.items = <<>>)
    IN  [i \in DOMAIN specs |-> specs[i].schema]

\* getAllResourceDefinitionFrom: a fully referenced schema gives its own
\* entities only, a fully used one all it uses.
Available[s \in SchemaNames, reference \in BOOLEAN, seen \in SUBSET SchemaNames] ==
    IF s \in seen THEN [list |-> <<>>, seen |-> seen]
    ELSE LET referenced == WholeNames(s, "reference")
             own == Definitions(LocalTypes(s)) \o ListedNames(s, "use") \o
                    (IF reference
                     THEN ListedNames(s, "reference") \o
                          FlattenSeq([i \in DOMAIN referenced |-> Definitions(LocalTypes(referenced[i]))])
                     ELSE <<>>)
         IN  FoldLeft(LAMBDA acc, t : LET used == Available[t, FALSE, acc.seen]
                                      IN  [list |-> acc.list \o used.list, seen |-> used.seen],
                      [list |-> own, seen |-> seen \cup {s}], WholeNames(s, "use"))

\* resolveSuperTypes for one schema text: it visits the entities of every text
\* of that name.
NameSupertypes ==
    LET s == ws[at].name
        available == Available[s, TRUE, {}].list
        exact(w) == SelectInSeq(available, LAMBDA d : d.name = w)
        folded(w) == SelectInSeq(available, LAMBDA d : Folded[d.name] = Folded[w])
        found(w) == IF exact(w) = 0 /\ LongForm(s) THEN folded(w) ELSE exact(w)
        hits(n) == SelectSeq([i \in DOMAIN Decl(n).supers |-> found(Decl(n).supers[i])], LAMBDA i : i # 0)
    IN  /\ stage = "name"
        /\ named' = [n \in Nodes |-> IF n \in Range(LocalTypes(s))
                                     THEN named[n] \o [i \in DOMAIN hits(n) |-> available[hits(n)[i]]]
                                     ELSE named[n]]
        /\ Advance(Len(ws))
        /\ UNCHANGED <<texts, queries, schemas, full, partial, supers, missing, types, heirs, memos>>

\* resolveSubTypes for one schema name; an entity is in localEntities once for
\* every text of its schema's name.
EnterSubtypes ==
    LET s == Order[at]
        times == TextsNamed(s)
        local == FlattenSeq([i \in DOMAIN times |-> LocalTypes(s)])
        findType(d) == Find(LocalTypes(d.schema), LAMBDA n : Decl(n).name = d.name)
        entered(m) == FlattenSeq([i \in DOMAIN local |->
                         LET up == SelectSeq(named[local[i]], LAMBDA d : findType(d) = m)
                         IN  [j \in DOMAIN up |-> Definitions(<<local[i]>>)[1]]])
    IN  /\ stage = "enter"
        /\ heirs' = [m \in Nodes |-> heirs[m] \o entered(m)]
        /\ Advance(Len(Order))
        /\ UNCHANGED <<texts, queries, schemas, full, partial, supers, missing, types, named, memos>>

----------------------------------------------------------------------------
(* The second resolution: objects *)

\* resolve of the types: bases fold case; an item of a select is an entity
\* under the case rule of entities or else a select type, and nothing if it is
\* neither.
ResolvedType(s, n) ==
    LET sees(kind, w) == UnderCaseRule(Resources(s), kind, w, TRUE)
        member(w) == IF SeesEntity(s, w) # NoNode THEN SeesEntity(s, w) ELSE sees("SelectType", w)
    IN  CASE Decl(n).kind = "Type" -> types[n]
          [] Decl(n).kind = "EnumType" ->
               [types[n] EXCEPT !.base = IF Decl(n).base = NoName THEN NoNode ELSE sees("EnumType", Decl(n).base)]
          [] OTHER ->
               [base |-> IF Decl(n).base = NoName THEN NoNode ELSE sees("SelectType", Decl(n).base),
                members |-> Written(Decl(n).members, member)]

\* resolveSuperTypesV2 for one schema object.
WireSchema ==
    LET s == Order[at]
        c == schemas[s]
        wired == Range(Entities(c))
    IN  /\ stage = "wire"
        /\ memo' = RememberResources(s)
        /\ supers' = [n \in Nodes |-> IF n \in wired THEN Written(Decl(n).supers, LAMBDA w : SeesEntity(s, w))
                                      ELSE supers[n]]
        /\ missing' = [n \in Nodes |-> IF n \in wired
                                       THEN Filtered(Decl(n).supers,
                                                {w \in Range(Decl(n).supers) : SeesEntity(s, w) = NoNode})
                                       ELSE missing[n]]
        /\ types' = [n \in Nodes |-> IF n \in Range(TypesOf(c)) THEN ResolvedType(s, n) ELSE types[n]]
        /\ Advance(Len(Order))
        /\ UNCHANGED <<texts, queries, schemas, full, partial, named, heirs, graphs, key, levels>>

\* interruptAndCheck throws: what is there stays there.
Interrupt ==
    /\ stage \notin {"built", "stopped"}
    /\ builds < MaxBuilds /\ ws \in Edited
    /\ stage' = "stopped" /\ at' = 1
    /\ UNCHANGED <<texts, queries, objects, memos>>

----------------------------------------------------------------------------
(* Requests.  A node of the syntax tree is answered through the entity of  *)
(* its name in the schema object of its schema's name.                     *)

EntitiesOf(s) == IF schemas[s] = 0 THEN <<>> ELSE Entities(schemas[s])
Object(n) == Find(EntitiesOf(SchemaOf(n)), LAMBDA m : Decl(m).name = Decl(n).name)

EntitiesOfAll(names) == FlattenSeq([i \in DOMAIN names |-> EntitiesOf(names[i])])
Subtypes(n) == Filtered(EntitiesOfAll(Order), {m \in Nodes : n \in Range(supers[m])})
Neighbours(n, dir) == IF dir = "up" THEN supers[n] ELSE Subtypes(n)

\* Mutant: an entity met before counts as under way, kept or not.
KnownUnlessMet(n, seen, pool) == n \notin seen /\ pool[n] # Unset
Known(n, seen, pool) == pool[n] # Unset

Pools == [Nodes -> SUBSET (Nodes \cup {NoNode})]

\* getSuperTypes and getSubTypes: the pool first, then nothing for an entity
\* under way; the answer of every entity met is kept.
Collected(n, dir, pool) ==
    LET collect[w \in [node : Nodes, seen : SUBSET Nodes, pool : Pools]] ==
            IF Known(w.node, w.seen, w.pool)
            THEN [found |-> w.pool[w.node], seen |-> w.seen, pool |-> w.pool]
            ELSE IF w.node \in w.seen THEN [found |-> {}, seen |-> w.seen, pool |-> w.pool]
            ELSE LET walk == FoldLeft(LAMBDA acc, t :
                                LET rest == collect[[node |-> t, seen |-> acc.seen, pool |-> acc.pool]]
                                IN  [found |-> acc.found \cup {t} \cup rest.found, seen |-> rest.seen,
                                     pool |-> rest.pool],
                             [found |-> {}, seen |-> w.seen \cup {w.node}, pool |-> w.pool],
                             Neighbours(w.node, dir))
                 IN  [walk EXCEPT !.pool[w.node] = walk.found]
    IN  collect[[node |-> n, seen |-> {}, pool |-> pool]]

\* computeSubSuper: the entities met from n, but not through those seen before.
Met(n) ==
    LET meet[w \in Nodes \X (SUBSET Nodes)] ==
            FoldLeft(LAMBDA acc, t : IF t \in acc THEN acc ELSE meet[<<t, acc>>],
                     w[2] \cup {w[1]}, supers[w[1]] \o Subtypes(w[1]))
    IN  meet[<<n, {}>>]

\* The levels of `visible`: breadth first in one direction, past the visited.
Levels(n, dir, visited) ==
    LET expand[w \in (SUBSET Nodes) \X (SUBSET Nodes)] ==
            LET level == w[1]
                past == w[2] \cup level
            IN  IF level = {} THEN <<>>
                ELSE <<level>> \o expand[<<(UNION {Range(Neighbours(m, dir)) : m \in level}) \ past, past>>]
    IN  Tail(expand[<<{n}, visited>>])

VisibleWith(n, ancestors) ==
    [up |-> ancestors, down |-> Levels(n, "down", UNION Range(ancestors))]
Visible(n) == VisibleWith(n, Levels(n, "up", {}))

LevelsOf(n) == IF levels[n].down # <<Unset>> THEN levels[n] ELSE Visible(n)

\* Where a request may be answered: after the build, or during it for a
\* document that is not rebuilt.
Answers(s) ==
    /\ queries < MaxQueries
    /\ \/ stage = "built"
       \/ RequestsDuringBuild /\ s \in kept /\ schemas[ws[s].name] # 0
    /\ queries' = queries + 1
    /\ UNCHANGED <<texts, stage, at, objects>>

AskResources(s) ==
    /\ Answers(s)
    /\ memo' = RememberResources(ws[s].name)
    /\ UNCHANGED <<graphs, key, levels>>

\* getSuperTypesFromDefinition, getSubTypesFromDefinition
AskRelatives(n, dir) ==
    /\ Answers(n[1]) /\ Object(n) # NoNode
    /\ memo' = [memo EXCEPT ![dir] = Collected(Object(n), dir, memo[dir]).pool]
    /\ UNCHANGED <<graphs, key, levels>>

\* Mutant: only the entity asked for gets the key of its graph.
KeyForOne(n) ==
    /\ Answers(n[1]) /\ Object(n) # NoNode /\ key[Object(n)] = 0
    /\ graphs' = Append(graphs, Met(Object(n)))
    /\ key' = [key EXCEPT ![Object(n)] = Len(graphs) + 1]
    /\ UNCHANGED <<memo, levels>>

\* getFullSubSuperGraph, computed: every entity of the graph gets its key.  An
\* entity that has a key has its graph in the pool, and nothing changes.
AskGraph(n) ==
    /\ Answers(n[1]) /\ Object(n) # NoNode /\ key[Object(n)] = 0
    /\ graphs' = Append(graphs, Met(Object(n)))
    /\ key' = [m \in Nodes |-> IF m \in Met(Object(n)) THEN Len(graphs) + 1 ELSE key[m]]
    /\ UNCHANGED <<memo, levels>>

\* getVisibleAttributeCandidates and hasUnresolvedSupertypes of a node that
\* has an object; they ask for its levels.
AskVisible(n) ==
    /\ Answers(n[1]) /\ Object(n) = n
    /\ levels' = [levels EXCEPT ![n] = LevelsOf(n)]
    /\ UNCHANGED <<memo, graphs, key>>

Next ==
    \/ Build \/ LoadSchema \/ InterfaceSchema \/ NameSupertypes \/ WireSchema \/ EnterSubtypes
    \/ Interrupt
    \/ \E s \in Positions : AskResources(s)
    \/ \E n \in Nodes : AskRelatives(n, "up") \/ AskRelatives(n, "down") \/ AskGraph(n) \/ AskVisible(n)

Spec == Init /\ [][Next]_vars

----------------------------------------------------------------------------
(* Answers without memory: attributes and their types                      *)

AttributesOf(n, filter) ==
    {<<n[1], n[2], i>> : i \in {j \in DOMAIN Decl(n).attrs : Folded[Decl(n).attrs[j].name] = Folded[filter]}}

\* astAncestorLevels: the linked SUBTYPE OF references of the node itself, for
\* a node whose schema object is another text's.
AstSupers(n) == {SeesEntity(SchemaOf(n), w) : w \in Range(Decl(n).supers)} \ {NoNode}
AstLevels(n) ==
    LET expand[w \in (SUBSET Nodes) \X (SUBSET Nodes)] ==
            LET level == w[1]
                past == w[2] \cup level
            IN  IF level = {} THEN <<>>
                ELSE <<level>> \o expand[<<(UNION {AstSupers(m) : m \in level}) \ past, past>>]
    IN  expand[<<{n}, {}>>]

\* getVisibleAttributeCandidates: itself, supertypes, then subtypes, each
\* nearest first.
AttributesIn(nodes, filter) == [i \in DOMAIN nodes |-> UNION {AttributesOf(m, filter) : m \in nodes[i]}]
NodesIn(n, visible, descendants) ==
    IF descendants THEN <<{n}>> \o visible.up \o visible.down ELSE <<{n}>> \o visible.up
AttributeCandidates(n, filter, descendants) ==
    AttributesIn(IF Object(n) = n THEN NodesIn(n, LevelsOf(n), descendants) ELSE AstLevels(n), filter)

\* Mutant: only the names the entity itself writes.
HasUnresolvedOwn(n) == \E w \in Range(Decl(n).supers) : SeesEntity(SchemaOf(n), w) = NoNode
HasUnresolvedSupertypes(n) ==
    IF Object(n) = n
    THEN \E m \in UNION Range(NodesIn(n, LevelsOf(n), FALSE)) : missing[m] # <<>>
    ELSE \E m \in UNION Range(AstLevels(n)) :
            \E w \in Range(Decl(m).supers) : SeesEntity(SchemaOf(m), w) = NoNode

\* findByName: the last kind that has the name.  Kinds stand in the order in
\* which they first came into the list.
KindRank(list, kind) == SelectInSeq(list, LAMBDA n : Decl(n).kind = kind)
FindByName(list, name) ==
    LET exact == {n \in Range(list) : Decl(n).name = name}
    IN  IF exact = {} THEN NoNode
        ELSE CHOOSE n \in exact :
                \A m \in exact : KindRank(list, Decl(m).kind) <= KindRank(list, Decl(n).kind)

\* Mutant: the first of the name in any case.
FindInAnyCase(list, name, longForm) == Find(list, LAMBDA n : Folded[Decl(n).name] = Folded[name])
\* findByNameUnderCaseRule: that, otherwise in any case in the first kind that folds.
FindResource(list, name, longForm) ==
    LET folded == {k \in Kinds : (k # "Entity" \/ longForm) /\ \E n \in Range(list) :
                                     Decl(n).kind = k /\ Folded[Decl(n).name] = Folded[name]}
        first == CHOOSE k \in folded : \A l \in folded : KindRank(list, k) <= KindRank(list, l)
    IN  OrElse(FindByName(list, name),
               IF folded = {} THEN NoNode
               ELSE Find(OfKind(list, first), LAMBDA n : Folded[Decl(n).name] = Folded[name]))

Overflow == {NoNode}    \* the recursion of getValues does not end: an exception, no scope

\* getValues of a select: entities of its list, of its base, of listed selects.
SelectValues[w \in Nodes \X (SUBSET Nodes)] ==
    LET n == w[1]
        under == w[2]
        next == (Range(types[n].members) \cup {types[n].base}) \ {NoNode}
        deeper == {SelectValues[<<m, under \cup {n}>>] : m \in {k \in next : Decl(k).kind = "SelectType"}}
    IN  IF n \in under \/ Overflow \in deeper THEN Overflow
        ELSE {m \in next : Decl(m).kind = "Entity"} \cup UNION deeper

EnumValues[w \in Nodes \X (SUBSET Nodes)] ==
    LET n == w[1]
        under == w[2]
        items == {<<n[1], n[2], i>> : i \in DOMAIN Decl(n).members}
    IN  IF n \in under THEN Overflow
        ELSE IF types[n].base = NoNode THEN items
        ELSE LET deeper == EnumValues[<<types[n].base, under \cup {n}>>]
             IN  IF deeper = Overflow THEN Overflow ELSE items \cup deeper

\* ExpressP11ParameterTypeResolver: what an attribute of that written type may
\* hold: entities or enumeration items; nothing for other types.
Instances(n) ==
    CASE n = NoNode -> {}
      [] n # NoNode /\ Decl(n).kind = "Entity" -> {n}
      [] n # NoNode /\ Decl(n).kind = "SelectType" -> SelectValues[<<n, {}>>]
      [] n # NoNode /\ Decl(n).kind = "EnumType" -> EnumValues[<<n, {}>>]
      [] OTHER -> {}
ResolveWritten(s, a) ==
    Instances(CASE a.type = NoName -> NoNode
                [] a.type # NoName /\ a.inverse -> SeesEntity(s, a.type)
                [] OTHER -> FindResource(Resources(s), a.type, LongForm(s)))
ResolveAttribute(n, i) == ResolveWritten(SchemaOf(n), Decl(n).attrs[i])

----------------------------------------------------------------------------
(* Properties.  The references are stated over the texts and as closures   *)
(* of relations, not as walks.                                             *)

\* Everything next leads to from x, in one step or more.
Reached(next, x) ==
    LET grow[S \in SUBSET DOMAIN next] ==
            LET more == S \cup UNION {next[y] : y \in S} IN IF more = S THEN S ELSE grow[more]
    IN  grow[next[x]]

\* What schema s interfaces as a whole.
Interfaces(s, mode) ==
    {p.schema : p \in {q \in UNION {Range(ws[c].specs) : c \in Range(TextsNamed(s))} :
                          q.mode = mode /\ q.items = <<>> /\ schemas[q.schema] # 0}}

\* The declarations that the specifications of schema s list, each in the schema
\* its specification names.
ListedItems(s, modes) ==
    {n \in Nodes : \E c \in Range(TextsNamed(s)) : \E p \in Range(ws[c].specs) : \E i \in Range(p.items) :
        p.mode \in modes /\ schemas[p.schema] # 0 /\ n = LocalDefinition(schemas[p.schema], i)}

\* Clause 11: its own declarations and listed items, and those that are
\* declared in or used by the schemas it interfaces as a whole.
Sources(s) ==
    LET uses == [t \in Loaded |-> Interfaces(t, "use")]
        referenced == Interfaces(s, "reference")
    IN  {s} \cup referenced \cup Reached(uses, s) \cup UNION {Reached(uses, t) : t \in referenced}
SeenByClause11(s) ==
    ListedItems(s, {"use", "reference"}) \cup
    UNION {Range(LocalRegistry(schemas[t])) \cup ListedItems(t, {"use"}) : t \in Sources(s)}

\* The kept list of a schema names what clause 11 makes visible in it, however
\* the interfaces are chained or cyclic, and whatever was asked before.
ResourcesFollowClause11 ==
    stage = "built" => \A s \in SchemaNames : Memoized(s) =>
        LET names(nodes) == {<<Decl(n).kind, Decl(n).name>> : n \in nodes}
        IN  /\ Range(memo.resources[s]) \subseteq SeenByClause11(s)
            /\ names(Range(memo.resources[s])) = names(SeenByClause11(s))

Relatives(n, dir) == Reached([m \in Nodes |-> Range(Neighbours(m, dir))], n)

\* The kept supertypes and subtypes of an entity are all it has, unless its
\* SUBTYPE OF clauses lead back to it; then they are some of them, among them
\* the direct ones.
RelativesAreComplete ==
    stage = "built" => \A n \in Nodes, dir \in {"up", "down"} : memo[dir][n] # Unset =>
        LET all == Relatives(n, dir)
        IN  /\ Range(Neighbours(n, dir)) \subseteq memo[dir][n]
            /\ memo[dir][n] \subseteq all
            /\ (\A m \in {n} \cup all : m \notin Relatives(m, dir)) => memo[dir][n] = all

\* Every kept graph is a whole connected component, kept once, and its key is
\* on exactly its members.
GraphsAreComponents ==
    stage = "built" =>
        LET linked == [n \in Nodes |-> Range(supers[n]) \cup Range(Subtypes(n))]
        IN  \A k \in DOMAIN graphs :
              /\ graphs[k] = {n \in Nodes : key[n] = k}
              /\ \A n \in graphs[k] : graphs[k] = {n} \cup Reached(linked, n)

\* The kept levels are the set of 12.7.3, each entity once and nearest first:
\* its way to the next level is not shorter through another one.  Subtypes may
\* be missing only where a SUBTYPE OF cycle makes a supertype also a subtype:
\* both directions share the visited set.
LevelsAreNearestFirst ==
    stage = "built" => \A n \in Nodes : levels[n].down # <<Unset>> =>
        LET up == <<{n}>> \o levels[n].up
            down == <<{n}>> \o levels[n].down
            nearest(list, dir) == \A i \in 2..Len(list) : \A m \in list[i] :
                {j \in 1..(i - 1) : \E k \in list[j] : m \in Range(Neighbours(k, dir))} = {i - 1}
            once(list) == \A i, j \in DOMAIN list : i # j => list[i] \cap list[j] = {}
            ancestors == {n} \cup Relatives(n, "up")
            descendants == {n} \cup Relatives(n, "down")
        IN  /\ UNION Range(up) = ancestors
            /\ UNION Range(down) \subseteq descendants
            /\ ancestors \cap descendants = {n} => UNION Range(down) = descendants
            /\ nearest(up, "up")
            /\ once(up \o levels[n].down)

\* An attribute whose written type is visible under that spelling, or else in
\* another case, holds the entities or the items which that type reaches through
\* bases, lists and listed selects; what an inverse attribute writes is looked up
\* among the entities.  A type that contains itself gives no answer.
AttributeTypesAreInstances ==
    stage = "built" =>
        LET within == [n \in Nodes |-> (Range(types[n].members) \cup {types[n].base}) \ {NoNode}]
            reached(m) == {m} \cup Reached(within, m)
            values(m) == IF \E k \in reached(m) : k \in Reached(within, k) THEN Overflow
                         ELSE {k \in reached(m) : Decl(k).kind = "Entity"}
                              \cup UNION {{<<k[1], k[2], j>> : j \in DOMAIN Decl(k).members} :
                                             k \in {l \in reached(m) : Decl(m).kind = "EnumType"}}
        IN  \A n \in Nodes : \A i \in DOMAIN Decl(n).attrs :
              LET written == Decl(n).attrs[i].type
                  seen == {m \in Range(Resources(SchemaOf(n))) :
                              /\ written # NoName /\ Folded[Decl(m).name] = Folded[written]
                              /\ Decl(n).attrs[i].inverse => Decl(m).kind = "Entity"}
                  exact == {m \in seen : Decl(m).name = written}
              IN  ResolveAttribute(n, i) # {} =>
                    \E m \in IF exact = {} THEN seen ELSE exact : ResolveAttribute(n, i) = values(m)

\* The candidates for an attribute name are the attributes of that name which
\* an entity has or inherits, for an object from its kept levels and for a
\* shadowed text of its schema's name from the syntax tree, and a supertype that
\* nothing declares is noticed wherever it is written above the entity.
AttributesAreInherited ==
    stage = "built" => \A n \in {m \in Nodes : Decl(m).kind = "Entity"} :
        LET up == [m \in Nodes |-> AstSupers(m)]
            all == {n} \cup Reached(up, n)
        IN  /\ \A a \in UNION {{Decl(m).attrs[i].name : i \in DOMAIN Decl(m).attrs} : m \in Nodes} :
                 UNION Range(AttributeCandidates(n, a, FALSE)) = UNION {AttributesOf(m, a) : m \in all}
            /\ HasUnresolvedSupertypes(n) <=>
                 \E m \in all : \E w \in Range(Decl(m).supers) : SeesEntity(SchemaOf(m), w) = NoNode

=============================================================================

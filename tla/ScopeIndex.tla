----------------------------- MODULE ScopeIndex -----------------------------
(***************************************************************************)
(* The schema scopes of the workspace                                      *)
(* (src/language/express-p11-scope-index.ts): which identifiers a schema   *)
(* re-exports along USE chains, computed by rounds over all schemas until  *)
(* a round adds nothing, which are visible in it, and which clash.  Around *)
(* it: edits that give a document a new syntax tree, saves that select     *)
(* documents to relink, the build that makes the index again, the          *)
(* validator that shows its clashes, and the command that asks for them    *)
(* (src/language/schema-closure-duplicates.ts).                            *)
(*                                                                         *)
(* Schemas are numbered in the order of the index: documents by URI, then  *)
(* the order in the document.  A declaration is a kind and a name in its   *)
(* home schema.  A schema brings specifications in; an identifier on its   *)
(* way through them is an entry, a declaration under an effective name.    *)
(***************************************************************************)
EXTENDS Integers, FiniteSets

CONSTANTS
    N,              \* number of schemas
    SchemaNames, SchemaName,    \* schema -> its name
    Document,       \* schema -> its document
    LongForms,      \* schema names ending in _lf
    Names, Folded,  \* identifiers; identifier -> the identifier in lower case
    Decls, Home, Kind, Ident,   \* declaration -> schema, kind, name as written
    NoName,         \* an item that is not renamed
    Workspaces,     \* what the interface specifications of the schemas may be
    Edited,         \* bound: the workspaces that see edits, validation and commands
    MaxEdits        \* bound on the edits

Schemas == 1..N
Documents == {Document[s] : s \in Schemas}
Kinds == {"ENTITY", "TYPE", "FUNCTION", "PROCEDURE", "RULE", "SUBTYPE_CONSTRAINT", "CONSTANT"}
NamedTypes == {"ENTITY", "TYPE"}
ReferenceableKinds == {"CONSTANT", "ENTITY", "FUNCTION", "PROCEDURE", "TYPE"}

\* An interface specification; without items it interfaces the whole schema.
Items == [written : Names, as : Names \cup {NoName}]
Specifications == [mode : {"use", "reference"}, schema : SchemaNames, items : SUBSET Items]

ASSUME ScopeAssumption ==
    /\ N \in Nat \ {0}
    /\ SchemaName \in [Schemas -> SchemaNames]
    /\ LongForms \subseteq SchemaNames
    /\ IsFiniteSet(SchemaNames) /\ IsFiniteSet(Names)
    /\ Folded \in [Names -> Names]
    /\ Home \in [Decls -> Schemas]
    /\ Kind \in [Decls -> Kinds]
    /\ Ident \in [Decls -> Names]
    /\ NoName \notin Names
    /\ Workspaces \subseteq [Schemas -> SUBSET Specifications]
    /\ Edited \subseteq Workspaces
    /\ MaxEdits \in Nat

Entries == [decl : Decls, name : Names]
NoSchema == 0
Unfilled == {NoName}    \* no set of clashes: none cached, none shown

VARIABLES
    specs,      \* the specifications in the current syntax trees
    built,      \* the specifications the index was made from
    known,      \* schemas whose current tree has a record in the index
    exports,    \* record.exports: schema -> entries it re-exports
    at,         \* the schema the round visits next; N + 1: the round is over
    round,      \* rounds before this one
    changed,    \* an entry was added in this round
    done,       \* the table is computed
    due,        \* an update came after the index was built
    pending,    \* documents that are not validated since an update put them down
    unsaved,    \* documents edited since their last save
    cache,      \* clashCache: schema -> clashes, or Unfilled
    shown,      \* what the validator last reported in a schema
    answer,     \* the last answer of the command: schema and clashes
    edits

index == <<built, exports, at, round, changed, done>>
updates == <<specs, pending, unsaved, edits>>
vars == <<specs, built, known, exports, at, round, changed, done, due, pending, unsaved,
          cache, shown, answer, edits>>

TypeOK ==
    /\ {specs, built} \subseteq [Schemas -> SUBSET Specifications]
    /\ known \subseteq Schemas
    /\ exports \in [Schemas -> SUBSET Entries]
    /\ at \in 1..(N + 1)
    /\ round \in Nat
    /\ {changed, done, due} \subseteq BOOLEAN
    /\ {pending, unsaved} \subseteq SUBSET Documents
    /\ cache \in [Schemas -> (SUBSET Names) \cup {Unfilled}]
    /\ shown \in [Schemas -> (SUBSET Names) \cup {Unfilled}]
    /\ answer \in [schema : Schemas \cup {NoSchema}, clashes : SUBSET Names]
    /\ edits \in 0..MaxEdits

----------------------------------------------------------------------------
(* Entries and where specifications lead *)

Declared(s, kinds) ==
    {[decl |-> d, name |-> Ident[d]] : d \in {e \in Decls : Home[e] = s /\ Kind[e] \in kinds}}

Seed(s) == Declared(s, NamedTypes)

First(S) == {t \in S : \A u \in S : t <= u}

\* Mutant: the first schema of the name, copies in the same document or not.
ResolveFirst(s, name) == First({t \in Schemas : SchemaName[t] = name})

\* The schema of that name in the document of s, or else the first one; empty
\* if there is none.
ResolveTarget(s, name) ==
    LET candidates == {t \in Schemas : SchemaName[t] = name}
        own == {t \in candidates : Document[t] = Document[s]}
    IN  First(IF own # {} THEN own ELSE candidates)

\* Exact spelling first; otherwise any case, entities excepted.
ResolveIn(pool, written) ==
    LET exact == {e \in pool : e.name = written}
    IN  IF exact # {} THEN exact
        ELSE {e \in pool : Kind[e.decl] # "ENTITY" /\ Folded[e.name] = Folded[written]}

Renamed(e, item) == IF item.as = NoName THEN e ELSE [e EXCEPT !.name = item.as]

Brought(pool, spec) ==
    IF spec.items = {} THEN pool
    ELSE UNION {{Renamed(e, i) : e \in ResolveIn(pool, i.written)} : i \in spec.items}

Uses(s) == {p \in built[s] : p.mode = "use"}

\* What the USE specifications of s bring from a table of exports; one that
\* leads back to s is passed over.
Used(s, table) ==
    UNION {UNION {Brought(table[t], p) : t \in ResolveTarget(s, p.schema) \ {s}} : p \in Uses(s)}

Referenceable(t) == Declared(t, ReferenceableKinds) \cup exports[t]

\* Mutant: a scope looks one USE step far.
PoolOfLocals(t, mode) ==
    IF mode = "use" THEN Seed(t) ELSE Declared(t, ReferenceableKinds)

Pool(t, mode) == IF mode = "use" THEN exports[t] ELSE Referenceable(t)

Visible(s) ==
    Declared(s, Kinds) \cup
    UNION {UNION {Brought(Pool(t, p.mode), p) : t \in ResolveTarget(s, p.schema)} : p \in built[s]}

ScopeKey(s, e) ==
    IF Kind[e.decl] # "ENTITY" \/ SchemaName[s] \in LongForms THEN Folded[e.name] ELSE e.name

Clashes(s) ==
    LET scope == Visible(s)
    IN  {ScopeKey(s, e) : e \in {f \in scope : \E g \in scope :
                                    f.decl # g.decl /\ ScopeKey(s, f) = ScopeKey(s, g)}}

\* clashesIn: the cached clashes, or computed and then cached.
ClashesIn(s) == IF cache[s] # Unfilled THEN cache[s] ELSE Clashes(s)

----------------------------------------------------------------------------
(* build and computeExports: one synchronous call, so nothing else runs    *)
(* between Build and EndRound with done                                    *)

Renames ==
    UNION {UNION {{<<s, p, i>> : i \in {j \in p.items : j.as # NoName}} : p \in built[s]} :
              s \in Schemas}
\* Mutant: the bound on the rounds forgets the renames.
BoundWithoutRenames == N + 2

Bound == N * (1 + Cardinality(Renames)) + 2

\* Mutant: the clash cache outlives the index.
BuildKeepsCache ==
    /\ done
    /\ due
    /\ built' = specs
    /\ known' = Schemas
    /\ exports' = [s \in Schemas |-> Seed(s)]
    /\ at' = 1
    /\ round' = 0
    /\ changed' = FALSE
    /\ done' = FALSE
    /\ due' = FALSE
    /\ UNCHANGED <<updates, cache, shown, answer>>

Build ==
    /\ done
    /\ due
    /\ built' = specs
    /\ known' = Schemas
    /\ exports' = [s \in Schemas |-> Seed(s)]
    /\ at' = 1
    /\ round' = 0
    /\ changed' = FALSE
    /\ done' = FALSE
    /\ due' = FALSE
    /\ cache' = [s \in Schemas |-> Unfilled]
    /\ UNCHANGED <<updates, shown, answer>>

\* Mutant: "nothing changed" is decided by the last schema of the round.
VisitForgetsChange ==
    /\ ~done
    /\ at \in Schemas
    /\ exports' = [exports EXCEPT ![at] = @ \cup Used(at, exports)]
    /\ changed' = (exports' # exports)
    /\ at' = at + 1
    /\ UNCHANGED <<updates, built, known, round, done, due, cache, shown, answer>>

VisitSchema ==
    /\ ~done
    /\ at \in Schemas
    /\ exports' = [exports EXCEPT ![at] = @ \cup Used(at, exports)]
    /\ changed' = (changed \/ exports' # exports)
    /\ at' = at + 1
    /\ UNCHANGED <<updates, built, known, round, done, due, cache, shown, answer>>

EndRound ==
    /\ ~done
    /\ at = N + 1
    /\ done' = (~changed \/ round + 1 >= Bound)
    /\ round' = IF done' THEN round ELSE round + 1
    /\ at' = IF done' THEN at ELSE 1
    /\ changed' = IF done' THEN changed ELSE FALSE
    /\ UNCHANGED <<updates, built, known, exports, due, cache, shown, answer>>

----------------------------------------------------------------------------
(* Edits, the validator and the command *)

\* An edit of one document: its schemas get new trees, which may say the same.
Edit(d) ==
    /\ done
    /\ edits < MaxEdits
    /\ specs \in Edited
    /\ specs' \in {w \in Edited : \A s \in Schemas : Document[s] # d => w[s] = specs[s]}
    /\ known' = {s \in known : Document[s] # d}
    /\ pending' = pending \cup {d}
    /\ unsaved' = unsaved \cup {d}
    /\ edits' = edits + 1
    /\ due' = TRUE
    /\ UNCHANGED <<index, cache, shown, answer>>

\* A document with a reference into d or a broken one.  The reference of a
\* specification leads to the first schema of the name.
IsAffected(e, d) ==
    \E s \in Schemas : Document[s] = e /\ \E p \in specs[s] :
        \A t \in First({u \in Schemas : SchemaName[u] = p.schema}) : Document[t] = d

\* Mutant: a save puts down the saved document only.
SaveAlone(d) ==
    /\ done
    /\ d \in unsaved
    /\ unsaved' = unsaved \ {d}
    /\ pending' = pending \cup {d}
    /\ due' = TRUE
    /\ UNCHANGED <<index, specs, known, cache, shown, answer, edits>>

\* The save of a document relinks those that refer to it.  Bound: the document
\* was edited, and the first load is over (until then an edit relinks too).
Save(d) ==
    /\ done
    /\ d \in unsaved
    /\ unsaved' = unsaved \ {d}
    /\ pending' = pending \cup {d} \cup {e \in Documents : IsAffected(e, d)}
    /\ due' = TRUE
    /\ UNCHANGED <<index, specs, known, cache, shown, answer, edits>>

\* checkDuplicateInterfacedDeclarations in each schema of a document; the
\* validation follows the build of the index.
Validate(d) ==
    /\ done
    /\ specs \in Edited
    /\ d \in pending
    /\ ~due
    /\ shown' = [s \in Schemas |-> IF Document[s] = d THEN ClashesIn(s) ELSE shown[s]]
    /\ cache' = [s \in Schemas |-> IF Document[s] = d THEN ClashesIn(s) ELSE cache[s]]
    /\ pending' = pending \ {d}
    /\ UNCHANGED <<index, specs, known, due, unsaved, answer, edits>>

\* Mutant: the cached clashes are returned whether they were computed or not.
AskTrustsCache(s) ==
    /\ done
    /\ answer' = [schema |-> s, clashes |-> IF s \in known THEN cache[s] ELSE {}]
    /\ UNCHANGED <<index, updates, known, due, cache, shown>>

\* The command finds the schema in the current tree; without a record of that
\* tree the index knows no clash.
Ask(s) ==
    /\ done
    /\ specs \in Edited
    /\ answer' = [schema |-> s, clashes |-> IF s \in known THEN ClashesIn(s) ELSE {}]
    /\ cache' = IF s \in known THEN [cache EXCEPT ![s] = ClashesIn(s)] ELSE cache
    /\ UNCHANGED <<index, updates, known, due, shown>>

Init ==
    /\ specs \in Workspaces
    /\ built = specs
    /\ known = Schemas
    /\ exports = [s \in Schemas |-> Seed(s)]
    /\ at = 1
    /\ round = 0
    /\ changed = FALSE
    /\ done = FALSE
    /\ due = FALSE
    /\ pending = Documents
    /\ unsaved = {}
    /\ cache = [s \in Schemas |-> Unfilled]
    /\ shown = [s \in Schemas |-> Unfilled]
    /\ answer = [schema |-> NoSchema, clashes |-> {}]
    /\ edits = 0

Next ==
    \/ Build
    \/ VisitSchema
    \/ EndRound
    \/ \E d \in Documents : Edit(d) \/ Save(d) \/ Validate(d)
    \/ \E s \in Schemas : Ask(s)

Spec == Init /\ [][Next]_vars

----------------------------------------------------------------------------
(* Properties *)

\* The table is closed when the rounds stop, whether they stop at "no change"
\* or at the bound: every named type a schema declares and everything its USE
\* specifications bring from the final table is in it (computeExports).
ExportsClosed ==
    done => \A s \in Schemas : Seed(s) \cup Used(s, exports) \subseteq exports[s]

\* The tables of rounds that read only the round before, as Export is defined:
\* what has a derivation of at most k USE steps.
Derivable ==
    LET f[k \in 0..(N * Cardinality(Names))] ==
            IF k = 0 THEN [s \in Schemas |-> Seed(s)]
            ELSE LET before == f[k - 1]
                 IN  [s \in Schemas |-> Seed(s) \cup Used(s, before)]
    IN  f[N * Cardinality(Names)]

\* What the rounds in place compute is what has a derivation: nothing reaches
\* an export around a USE cycle only by itself (computeExports).
ExportsDerived == done => exports = Derivable

\* scopeKey keeps an entity of a short form and another declaration apart where
\* their identifier has a capital, even if it is the same.
KeptApart(t, e, f) ==
    /\ SchemaName[t] \notin LongForms
    /\ (Kind[e.decl] = "ENTITY") # (Kind[f.decl] = "ENTITY")
    /\ Folded[e.name] # e.name

\* If the schema an item is listed from has no clash, the item stands for one
\* declaration at most, but for such pairs (clashesIn against resolveIn).
ListedItemsAreUnique ==
    done => \A s \in Schemas : \A p \in Uses(s) : \A t \in ResolveTarget(s, p.schema) :
        Clashes(t) = {} =>
            \A i \in p.items : \A e, f \in ResolveIn(exports[t], i.written) :
                e.decl = f.decl \/ KeptApart(t, e, f)

\* A file whose specifications all name schemas of the file sees only its own
\* declarations, whatever other copies of these schemas the workspace holds and
\* whatever chains lead through them (resolveTarget).
OwnCopies ==
    done => \A d \in {Document[s] : s \in Schemas} :
        LET own == {s \in Schemas : Document[s] = d}
        IN  (\A s \in own : \A p \in built[s] : \E t \in own : SchemaName[t] = p.schema)
               => \A s \in own : \A e \in Visible(s) : Home[e.decl] \in own

\* A cached answer is what the index built last says (clashesIn and build).
CacheIsFresh ==
    done => \A s \in Schemas : cache[s] # Unfilled => cache[s] = Clashes(s)

\* Every document is saved, and validated since it was last put down.
AtRest == done /\ pending = {} /\ unsaved = {}

\* The scopes of a set of schemas read only schemas of the set.
ReadsItself(own) == \A s \in own : \A p \in built[s] : ResolveTarget(s, p.schema) \subseteq own

\* At rest the Problems view shows the clashes of every schema whose scope only
\* reads, through any number of specifications, its own document and documents
\* that its document refers to, whatever document the last change was in
\* (shouldRelink against clashesIn).
NamedClashesAreShown ==
    AtRest =>
        \A own \in SUBSET Schemas : ReadsItself(own) =>
            \A s \in own :
                (\A t \in own : Document[t] = Document[s] \/ IsAffected(Document[s], Document[t]))
                    => shown[s] = Clashes(s)

=============================================================================

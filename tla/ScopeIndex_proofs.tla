------------------------- MODULE ScopeIndex_proofs -------------------------
(***************************************************************************)
(* What the scope index guarantees for every workspace, with any number of *)
(* schemas, specifications, copies and rename cycles: the export tables    *)
(* are closed and, where identifiers differ in more than case, hold only   *)
(* what has a derivation; the cap on the rounds never cuts them off; files *)
(* see their own schemas; listed items are clear; cached clashes are fresh.*)
(***************************************************************************)
EXTENDS ScopeIndex, DataLemmas, TLAPS

\* Folding to lower case identifies no two identifiers.
ExactNames == \A n, m \in Names : Folded[n] = Folded[m] => n = m

Tables == [Schemas -> SUBSET Entries]

Closed(table) == \A s \in Schemas : Seed(s) \cup Used(s, table) \subseteq table[s]

\* The table holds only what every closed table holds.
BelowClosed ==
    \A table \in Tables : Closed(table) => \A s \in Schemas : exports[s] \subseteq table[s]

\* As long as a round has added nothing, what it has visited is closed.
VisitedInv ==
    /\ \A s \in Schemas : Seed(s) \subseteq exports[s]
    /\ ~changed => \A s \in 1..(at - 1) : Used(s, exports) \subseteq exports[s]
    /\ done => at = N + 1

IInv == TypeOK /\ VisitedInv

----------------------------------------------------------------------------
(* Entries and specifications *)

LEMMA SeedType == \A s \in Schemas : Seed(s) \subseteq Entries
  BY ScopeAssumption DEF Seed, Declared, Entries

LEMMA TargetType ==
    \A s \in Schemas : \A name : ResolveTarget(s, name) \subseteq Schemas
  BY DEF ResolveTarget, First

LEMMA BroughtType ==
    ASSUME NEW pool \in SUBSET Entries, NEW p \in Specifications
    PROVE  Brought(pool, p) \subseteq Entries
  <1>1. CASE p.items = {}
    BY <1>1 DEF Brought
  <1>2. CASE p.items # {}
    <2> SUFFICES ASSUME NEW i \in p.items, NEW e \in ResolveIn(pool, i.written)
                 PROVE  Renamed(e, i) \in Entries
      BY <1>2 DEF Brought
    <2>1. i \in Items
      BY DEF Specifications
    <2>2. e \in Entries
      BY DEF ResolveIn
    <2> QED
      BY <2>1, <2>2 DEF Renamed, Items, Entries
  <1> QED
    BY <1>1, <1>2

LEMMA UsedType ==
    ASSUME TypeOK, NEW s \in Schemas, NEW table \in Tables
    PROVE  Used(s, table) \subseteq Entries
  <1> SUFFICES ASSUME NEW p \in Uses(s), NEW t \in ResolveTarget(s, p.schema) \ {s}
               PROVE  Brought(table[t], p) \subseteq Entries
    BY DEF Used
  <1>1. p \in Specifications
    BY DEF TypeOK, Uses
  <1>2. t \in Schemas
    BY TargetType
  <1>3. table[t] \in SUBSET Entries
    BY <1>2 DEF Tables
  <1> QED
    BY <1>1, <1>3, BroughtType

\* With exact names a listed item stands for the entries of its name, so that
\* a larger pool brings more.
LEMMA BroughtGrows ==
    ASSUME ScopeAssumption, ExactNames, NEW p \in Specifications,
           NEW pool \in SUBSET Entries, NEW larger \in SUBSET Entries, pool \subseteq larger
    PROVE  Brought(pool, p) \subseteq Brought(larger, p)
  <1>1. CASE p.items = {}
    BY <1>1 DEF Brought
  <1>2. CASE p.items # {}
    <2> SUFFICES ASSUME NEW i \in p.items
                 PROVE  ResolveIn(pool, i.written) \subseteq ResolveIn(larger, i.written)
      BY <1>2 DEF Brought
    <2>1. i.written \in Names
      BY DEF Specifications, Items
    <2>2. ASSUME NEW q \in SUBSET Entries
          PROVE  ResolveIn(q, i.written) = {e \in q : e.name = i.written}
      <3>1. \A e \in q : e.name \in Names
        BY DEF Entries
      <3> QED
        BY <2>1, <3>1 DEF ResolveIn, ExactNames
    <2> QED
      BY <2>2
  <1> QED
    BY <1>1, <1>2

LEMMA UsedGrows ==
    ASSUME ScopeAssumption, ExactNames, TypeOK, NEW s \in Schemas,
           NEW table \in Tables, NEW larger \in Tables,
           \A t \in Schemas : table[t] \subseteq larger[t]
    PROVE  Used(s, table) \subseteq Used(s, larger)
  <1> SUFFICES ASSUME NEW p \in Uses(s), NEW t \in ResolveTarget(s, p.schema) \ {s}
               PROVE  Brought(table[t], p) \subseteq Brought(larger[t], p)
    <2>1. ASSUME NEW e \in Used(s, table) PROVE e \in Used(s, larger)
      <3>1. PICK p \in Uses(s) : \E t \in ResolveTarget(s, p.schema) \ {s} : e \in Brought(table[t], p)
        BY DEF Used
      <3>2. PICK t \in ResolveTarget(s, p.schema) \ {s} : e \in Brought(table[t], p)
        BY <3>1
      <3>3. e \in Brought(larger[t], p)
        BY <3>2
      <3> QED
        BY <3>3 DEF Used
    <2> QED
      BY <2>1
  <1>1. p \in Specifications
    BY DEF TypeOK, Uses
  <1>2. t \in Schemas
    BY TargetType
  <1>3. /\ table[t] \in SUBSET Entries /\ larger[t] \in SUBSET Entries
        /\ table[t] \subseteq larger[t]
    BY <1>2 DEF Tables
  <1> QED
    BY <1>1, <1>3, BroughtGrows

\* Clashes are names.
LEMMA ClashesType ==
    ASSUME IInv, NEW s \in Schemas
    PROVE  Clashes(s) \subseteq Names
  <1>1. \A t \in Schemas : \A kinds : Declared(t, kinds) \subseteq Entries
    BY ScopeAssumption DEF Declared, Entries
  <1>2. \A t \in Schemas : \A mode : Pool(t, mode) \in SUBSET Entries
    BY <1>1 DEF Pool, Referenceable, IInv, TypeOK
  <1>3. Visible(s) \subseteq Entries
    <2> SUFFICES ASSUME NEW p \in built[s], NEW t \in ResolveTarget(s, p.schema)
                 PROVE  Brought(Pool(t, p.mode), p) \subseteq Entries
      BY <1>1 DEF Visible
    <2>1. p \in Specifications /\ t \in Schemas
      BY TargetType DEF IInv, TypeOK
    <2> QED
      BY <1>2, <2>1, BroughtType
  <1>4. \A e \in Entries : ScopeKey(s, e) \in Names
    BY ScopeAssumption DEF ScopeKey, Entries
  <1> SUFFICES ASSUME NEW e \in Visible(s) PROVE ScopeKey(s, e) \in Names
    BY DEF Clashes
  <1> QED
    BY <1>3, <1>4

LEMMA ClashesInType ==
    ASSUME IInv, NEW s \in Schemas
    PROVE  ClashesIn(s) \in SUBSET Names
  <1>1. cache[s] \in (SUBSET Names) \cup {Unfilled}
    BY DEF IInv, TypeOK
  <1>2. Clashes(s) \in SUBSET Names
    BY ClashesType
  <1> QED
    BY <1>1, <1>2 DEF ClashesIn

----------------------------------------------------------------------------
(* The inductive invariant *)

LEMMA StartState == [s \in Schemas |-> Seed(s)] \in Tables
  BY SeedType DEF Tables

LEMMA InitInv == Init => IInv
  <1> SUFFICES ASSUME Init PROVE IInv
    OBVIOUS
  <1>1. N \in Nat \ {0} /\ specs \in [Schemas -> SUBSET Specifications] /\ MaxEdits \in Nat
    BY ScopeAssumption DEF Init
  <1>2. exports \in [Schemas -> SUBSET Entries]
    BY StartState DEF Init, Tables
  <1>3. TypeOK
    <2>1. at \in 1..(N + 1) /\ round \in Nat /\ edits \in 0..MaxEdits
      BY <1>1 DEF Init
    <2>2. cache \in [Schemas -> (SUBSET Names) \cup {Unfilled}]
      BY DEF Init
    <2>3. shown \in [Schemas -> (SUBSET Names) \cup {Unfilled}]
      BY DEF Init
    <2>4. answer \in [schema : Schemas \cup {NoSchema}, clashes : SUBSET Names]
      BY DEF Init
    <2> QED
      BY <1>1, <1>2, <2>1, <2>2, <2>3, <2>4 DEF Init, TypeOK
  <1>4. VisitedInv
    BY <1>1 DEF Init, VisitedInv
  <1> QED
    BY <1>3, <1>4 DEF IInv

LEMMA BuildInv == IInv /\ Build => IInv'
  <1> SUFFICES ASSUME IInv, Build PROVE IInv'
    OBVIOUS
  <1>1. exports' \in [Schemas -> SUBSET Entries]
    BY StartState DEF Build, Tables
  <1>2. TypeOK'
    <2>1. at' \in 1..(N + 1) /\ round' \in Nat
      BY ScopeAssumption DEF Build
    <2>2. cache' \in [Schemas -> (SUBSET Names) \cup {Unfilled}]
      BY DEF Build
    <2> QED
      BY <1>1, <2>1, <2>2 DEF Build, IInv, TypeOK, updates
  <1>3. VisitedInv'
    BY DEF Build, VisitedInv, Seed
  <1> QED
    BY <1>2, <1>3 DEF IInv

LEMMA VisitInv == IInv /\ VisitSchema => IInv'
  <1> SUFFICES ASSUME IInv, VisitSchema PROVE IInv'
    OBVIOUS
  <1>1. exports \in Tables /\ at \in Schemas
    BY DEF VisitSchema, IInv, TypeOK, Tables
  <1>2. Used(at, exports) \subseteq Entries
    BY <1>1, UsedType DEF IInv
  <1>3. /\ exports' \in Tables
        /\ exports'[at] = exports[at] \cup Used(at, exports)
        /\ \A s \in Schemas : exports[s] \subseteq exports'[s]
    BY <1>1, <1>2 DEF VisitSchema, Tables
  <1>4. TypeOK'
    <2>1. at' \in 1..(N + 1) /\ changed' \in BOOLEAN
      BY <1>1, ScopeAssumption DEF VisitSchema, Schemas, IInv, TypeOK
    <2> QED
      BY <1>3, <2>1 DEF VisitSchema, IInv, TypeOK, Tables, updates
  <1>5. VisitedInv'
    <2>1. \A s \in Schemas : Seed(s)' = Seed(s)
      BY DEF Seed
    <2>2. ASSUME ~changed', NEW s \in 1..(at' - 1)
          PROVE  (Used(s, exports) \subseteq exports[s])'
      <3>1. ~changed /\ exports' = exports /\ built' = built
        BY <2>2 DEF VisitSchema
      <3>2. s \in 1..(at - 1) \/ s = at
        BY <1>1 DEF VisitSchema, Schemas
      <3>3. Used(s, exports) \subseteq exports[s]
        BY <1>3, <3>1, <3>2 DEF IInv, VisitedInv
      <3> QED
        BY <3>1, <3>3 DEF Used, Uses
    <2> QED
      BY <1>3, <2>1, <2>2 DEF VisitSchema, IInv, VisitedInv
  <1> QED
    BY <1>4, <1>5 DEF IInv

LEMMA EndRoundInv == IInv /\ EndRound => IInv'
  <1> SUFFICES ASSUME IInv, EndRound PROVE IInv'
    OBVIOUS
  <1>1. done' \in BOOLEAN
    BY DEF EndRound
  <1>2. round' \in Nat /\ at' \in 1..(N + 1) /\ changed' \in BOOLEAN
    <2>1. N \in Nat /\ round \in Nat /\ at \in 1..(N + 1) /\ changed \in BOOLEAN
      BY ScopeAssumption DEF IInv, TypeOK
    <2>2. /\ round' = IF done' THEN round ELSE round + 1
          /\ at' = IF done' THEN at ELSE 1
          /\ changed' = IF done' THEN changed ELSE FALSE
      BY DEF EndRound
    <2>3. CASE done'
      BY <2>1, <2>2, <2>3
    <2>4. CASE ~done'
      BY <2>1, <2>2, <2>4
    <2> QED
      BY <2>3, <2>4
  <1>3. TypeOK'
    BY <1>1, <1>2 DEF EndRound, IInv, TypeOK, updates
  <1>4. VisitedInv'
    <2>1. exports' = exports /\ built' = built /\ (done' => at' = N + 1)
      BY DEF EndRound
    <2>2. (at' = at /\ changed' = changed) \/ at' = 1
      BY DEF EndRound
    <2>3. at' = 1 => 1..(at' - 1) = {}
      OBVIOUS
    <2> QED
      BY <2>1, <2>2, <2>3 DEF IInv, VisitedInv, Seed, Used, Uses
  <1> QED
    BY <1>3, <1>4 DEF IInv

\* The other steps leave the index alone but for the clash cache.
Other ==
    \/ \E d \in Documents : Edit(d) \/ Save(d) \/ Validate(d)
    \/ \E s \in Schemas : Ask(s)

LEMMA OtherInv == IInv /\ Other => IInv'
  <1> SUFFICES ASSUME IInv, Other PROVE IInv'
    OBVIOUS
  <1>1. UNCHANGED <<built, exports, at, round, changed, done>>
    BY DEF Other, Edit, Save, Validate, Ask, index
  <1>2. TypeOK'
    <2> USE DEF index, updates
    <2>1. ASSUME NEW d \in Documents, Edit(d) PROVE TypeOK'
      BY <2>1, ScopeAssumption DEF Edit, IInv, TypeOK
    <2>2. ASSUME NEW d \in Documents, Save(d) PROVE TypeOK'
      BY <2>2 DEF Save, IInv, TypeOK
    <2>3. ASSUME NEW d \in Documents, Validate(d) PROVE TypeOK'
      <3>1. \A s \in Schemas : ClashesIn(s) \in SUBSET Names
        BY ClashesInType
      <3>2. shown' \in [Schemas -> (SUBSET Names) \cup {Unfilled}]
        BY <2>3, <3>1 DEF Validate, IInv, TypeOK
      <3>3. cache' \in [Schemas -> (SUBSET Names) \cup {Unfilled}]
        BY <2>3, <3>1 DEF Validate, IInv, TypeOK
      <3> QED
        BY <2>3, <3>2, <3>3 DEF Validate, IInv, TypeOK
    <2>4. ASSUME NEW s \in Schemas, Ask(s) PROVE TypeOK'
      BY <2>4, ClashesInType DEF Ask, IInv, TypeOK
    <2> QED
      BY <2>1, <2>2, <2>3, <2>4 DEF Other
  <1>3. VisitedInv'
    BY <1>1 DEF IInv, VisitedInv, Seed, Used, Uses
  <1> QED
    BY <1>2, <1>3 DEF IInv

LEMMA StepInv == IInv /\ [Next]_vars => IInv'
  <1>1. CASE UNCHANGED vars
    BY <1>1 DEF vars, IInv, TypeOK, VisitedInv, Seed, Used, Uses
  <1> QED
    BY <1>1, BuildInv, VisitInv, EndRoundInv, OtherInv DEF Next, Other

\* The variables keep their types (TypeOK of the run ScopeIndex).
THEOREM Typing == Spec => []TypeOK
  <1>1. IInv => TypeOK
    BY DEF IInv
  <1> QED
    BY <1>1, InitInv, StepInv, PTL DEF Spec

\* Stopping at "no change" is enough: whenever computeExports stops because a
\* round added nothing, the table contains what a further round would bring.
THEOREM NoChangeIsClosed == Spec => [](~changed => ExportsClosed)
  <1>1. IInv => (~changed => ExportsClosed)
    <2> SUFFICES ASSUME IInv, ~changed, done PROVE \A s \in Schemas :
                     Seed(s) \cup Used(s, exports) \subseteq exports[s]
      BY DEF ExportsClosed
    <2>1. 1..(at - 1) = Schemas
      BY ScopeAssumption DEF IInv, VisitedInv, Schemas
    <2> QED
      BY <2>1 DEF IInv, VisitedInv
  <1> QED
    BY <1>1, InitInv, StepInv, PTL DEF Spec

----------------------------------------------------------------------------
(* The clash cache *)

\* Nothing is cached while the table grows.
CacheInv == \A s \in Schemas : cache[s] # Unfilled => done /\ cache[s] = Clashes(s)

\* Clashes only look at the table and the specifications it was made from.
LEMMA ClashesStay ==
    ASSUME UNCHANGED <<built, exports>>, NEW s \in Schemas
    PROVE  Clashes(s)' = Clashes(s)
  BY DEF Clashes, ScopeKey, Visible, Pool, Referenceable

LEMMA CacheStep == IInv /\ CacheInv /\ [Next]_vars => CacheInv'
  <1> SUFFICES ASSUME IInv, CacheInv, [Next]_vars PROVE CacheInv'
    OBVIOUS
  <1>1. CASE Build
    BY <1>1 DEF Build, CacheInv
  <1>2. CASE VisitSchema \/ EndRound
    BY <1>2 DEF VisitSchema, EndRound, CacheInv
  <1>3. CASE (\E d \in Documents : Validate(d)) \/ \E s \in Schemas : Ask(s)
    <2>1. /\ UNCHANGED <<built, exports, done>> /\ done
          /\ \A t \in Schemas : cache'[t] = cache[t] \/ cache'[t] = ClashesIn(t)
      BY <1>3 DEF Validate, Ask, index, IInv, TypeOK
    <2>2. \A t \in Schemas : Clashes(t)' = Clashes(t)
      BY <2>1, ClashesStay
    <2>3. \A t \in Schemas : ClashesIn(t) = Clashes(t)
      BY DEF ClashesIn, CacheInv
    <2> QED
      BY <2>1, <2>2, <2>3 DEF CacheInv
  <1>4. CASE UNCHANGED <<built, exports, done, cache>>
    BY <1>4, ClashesStay DEF CacheInv
  <1>5. \/ Build \/ VisitSchema \/ EndRound
        \/ (\E d \in Documents : Validate(d)) \/ \E s \in Schemas : Ask(s)
        \/ UNCHANGED <<built, exports, done, cache>>
    BY DEF Next, vars, Edit, Save, index
  <1> QED
    BY <1>1, <1>2, <1>3, <1>4, <1>5

\* A cached answer is the answer of the index built last, whatever edits,
\* builds, validations and commands came between (clashesIn and build).
THEOREM CachedClashesAreFresh == Spec => []CacheIsFresh
  <1>1. Init => CacheInv
    BY DEF Init, CacheInv
  <1>2. CacheInv => CacheIsFresh
    BY DEF CacheInv, CacheIsFresh
  <1> QED
    BY <1>1, <1>2, InitInv, StepInv, CacheStep, PTL DEF Spec

----------------------------------------------------------------------------
(* Exact names: the least closed table *)

LEMMA BelowInit == Init => BelowClosed
  BY DEF Init, BelowClosed, Closed

LEMMA BelowStep ==
    ASSUME ScopeAssumption, ExactNames, IInv, BelowClosed, [Next]_vars
    PROVE  BelowClosed'
  <1>1. CASE Build
    BY <1>1 DEF Build, BelowClosed, Closed, Seed
  <1>2. CASE VisitSchema
    <2> SUFFICES ASSUME NEW table \in Tables, Closed(table)', NEW s \in Schemas
                 PROVE  exports'[s] \subseteq table[s]
      BY DEF BelowClosed
    <2>1. Closed(table)
      BY <1>2 DEF VisitSchema, Closed, Seed, Used, Uses
    <2>2. \A t \in Schemas : exports[t] \subseteq table[t]
      BY <2>1 DEF BelowClosed
    <2>3. exports \in Tables /\ at \in Schemas /\ TypeOK
      BY <1>2 DEF VisitSchema, IInv, TypeOK, Tables
    <2>4. Used(at, exports) \subseteq Used(at, table)
      BY <2>2, <2>3, UsedGrows
    <2>5. Used(at, table) \subseteq table[at]
      BY <2>1, <2>3 DEF Closed
    <2>6. exports'[s] = IF s = at THEN exports[s] \cup Used(at, exports) ELSE exports[s]
      BY <1>2, <2>3 DEF VisitSchema, Tables
    <2> QED
      BY <2>2, <2>4, <2>5, <2>6
  <1>3. CASE UNCHANGED <<built, exports>>
    BY <1>3 DEF BelowClosed, Closed, Seed, Used, Uses
  <1>4. Build \/ VisitSchema \/ UNCHANGED <<built, exports>>
    BY DEF Next, vars, EndRound, Edit, Save, Validate, Ask, index
  <1> QED
    BY <1>1, <1>2, <1>3, <1>4

\* Where identifiers differ in more than case, computeExports puts nothing in
\* the table that is not in every table closed under the USE specifications:
\* with NoChangeIsClosed, it stops at the least closed table.
THEOREM ExportsAreLeast == ASSUME ExactNames PROVE Spec => []BelowClosed
  <1>1. IInv /\ BelowClosed /\ [Next]_vars => BelowClosed'
    BY BelowStep, ScopeAssumption
  <1> QED
    BY <1>1, BelowInit, InitInv, StepInv, PTL DEF Spec

----------------------------------------------------------------------------
(* Files that interface their own schemas only *)

OwnSchemas(d) == {s \in Schemas : Document[s] = d}

\* Every specification of the file names a schema of the file.
Alone(d) ==
    \A s \in OwnSchemas(d) : \A p \in built[s] : \E t \in OwnSchemas(d) : SchemaName[t] = p.schema

\* What a schema of such a file re-exports is declared in the file.
OwnInv ==
    \A d \in Documents : Alone(d) =>
        \A s \in OwnSchemas(d) : \A e \in exports[s] : Home[e.decl] \in OwnSchemas(d)

\* A specification of such a file leads to a schema of the file.
LEMMA OwnTargets ==
    ASSUME NEW d \in Documents, Alone(d), NEW s \in OwnSchemas(d), NEW p \in built[s]
    PROVE  ResolveTarget(s, p.schema) \subseteq OwnSchemas(d)
  <1>1. PICK t \in OwnSchemas(d) : SchemaName[t] = p.schema
    BY DEF Alone
  <1>2. t \in {u \in {v \in Schemas : SchemaName[v] = p.schema} : Document[u] = Document[s]}
    BY <1>1 DEF OwnSchemas
  <1> QED
    BY <1>2 DEF ResolveTarget, First, OwnSchemas

\* A specification brings declarations of the pool.
LEMMA BroughtFromPool ==
    ASSUME NEW pool \in SUBSET Entries, NEW p \in Specifications, NEW e \in Brought(pool, p)
    PROVE  \E f \in pool : f.decl = e.decl
  <1>1. CASE p.items = {}
    BY <1>1 DEF Brought
  <1>2. CASE p.items # {}
    <2>1. PICK i \in p.items : \E f \in ResolveIn(pool, i.written) : e = Renamed(f, i)
      BY <1>2 DEF Brought
    <2>2. PICK f \in ResolveIn(pool, i.written) : e = Renamed(f, i)
      BY <2>1
    <2>3. f \in pool /\ f \in Entries
      BY <2>2 DEF ResolveIn
    <2>4. e.decl = f.decl
      BY <2>2, <2>3 DEF Renamed, Entries
    <2> QED
      BY <2>3, <2>4
  <1> QED
    BY <1>1, <1>2

LEMMA OwnStep == IInv /\ OwnInv /\ [Next]_vars => OwnInv'
  <1> SUFFICES ASSUME IInv, OwnInv, [Next]_vars PROVE OwnInv'
    OBVIOUS
  <1>1. CASE Build
    <2>1. \A s \in Schemas : \A e \in exports'[s] : Home[e.decl] = s
      BY <1>1 DEF Build, Seed, Declared
    <2> QED
      BY <2>1 DEF OwnInv, OwnSchemas
  <1>2. CASE VisitSchema
    <2> SUFFICES ASSUME NEW d \in Documents, Alone(d)', NEW s \in OwnSchemas(d), NEW e \in exports'[s]
                 PROVE  Home[e.decl] \in OwnSchemas(d)
      BY DEF OwnInv, OwnSchemas
    <2>1. Alone(d)
      BY <1>2 DEF VisitSchema, Alone, OwnSchemas
    <2>2. exports \in Tables /\ at \in Schemas /\ s \in Schemas
      BY <1>2 DEF VisitSchema, IInv, TypeOK, Tables, OwnSchemas
    <2>3. CASE e \in exports[s]
      BY <2>1, <2>3 DEF OwnInv
    <2>4. CASE e \notin exports[s]
      <3>1. s = at /\ e \in Used(s, exports)
        BY <1>2, <2>2, <2>4 DEF VisitSchema, Tables
      <3>2. PICK p \in Uses(s) : \E t \in ResolveTarget(s, p.schema) \ {s} : e \in Brought(exports[t], p)
        BY <3>1 DEF Used
      <3>3. PICK t \in ResolveTarget(s, p.schema) \ {s} : e \in Brought(exports[t], p)
        BY <3>2
      <3>4. p \in built[s] /\ p \in Specifications
        BY <2>2 DEF Uses, IInv, TypeOK
      <3>5. t \in OwnSchemas(d) /\ exports[t] \in SUBSET Entries
        BY <2>1, <2>2, <3>4, OwnTargets, TargetType DEF Tables
      <3>6. PICK f \in exports[t] : f.decl = e.decl
        BY <3>3, <3>4, <3>5, BroughtFromPool
      <3> QED
        BY <2>1, <3>5, <3>6 DEF OwnInv
    <2> QED
      BY <2>3, <2>4
  <1>3. CASE UNCHANGED <<built, exports>>
    BY <1>3 DEF OwnInv, Alone, OwnSchemas
  <1>4. Build \/ VisitSchema \/ UNCHANGED <<built, exports>>
    BY DEF Next, vars, EndRound, Edit, Save, Validate, Ask, index
  <1> QED
    BY <1>1, <1>2, <1>3, <1>4

\* A file that names schemas of its own only sees its own declarations, whatever
\* copies of them the workspace holds (resolveTarget).
THEOREM FilesSeeTheirOwn == Spec => []OwnCopies
  <1>1. Init => OwnInv
    BY DEF Init, OwnInv, OwnSchemas, Seed, Declared
  <1>2. IInv /\ OwnInv => OwnCopies
    <2> SUFFICES ASSUME IInv, OwnInv, NEW d \in Documents, Alone(d),
                        NEW s \in OwnSchemas(d), NEW e \in Visible(s)
                 PROVE  Home[e.decl] \in OwnSchemas(d)
      BY DEF OwnCopies, OwnSchemas, Alone, Documents
    <2>0. s \in Schemas /\ Document[s] = d
      BY DEF OwnSchemas
    <2>1. CASE e \in Declared(s, Kinds)
      BY <2>0, <2>1 DEF Declared, OwnSchemas
    <2>2. ASSUME NEW p \in built[s], NEW t \in ResolveTarget(s, p.schema), e \in Brought(Pool(t, p.mode), p)
          PROVE  Home[e.decl] \in OwnSchemas(d)
      <3>1. t \in OwnSchemas(d) /\ t \in Schemas /\ p \in Specifications
        BY <2>0, OwnTargets, TargetType DEF IInv, TypeOK
      <3>2. \A f \in Pool(t, p.mode) : Home[f.decl] \in OwnSchemas(d)
        <4>1. \A f \in exports[t] : Home[f.decl] \in OwnSchemas(d)
          BY <3>1 DEF OwnInv
        <4>2. \A f \in Declared(t, ReferenceableKinds) : Home[f.decl] = t
          BY DEF Declared
        <4> QED
          BY <3>1, <4>1, <4>2 DEF Pool, Referenceable
      <3>3. Pool(t, p.mode) \in SUBSET Entries
        <4>1. Declared(t, ReferenceableKinds) \subseteq Entries
          BY ScopeAssumption DEF Declared, Entries
        <4> QED
          BY <3>1, <4>1 DEF Pool, Referenceable, IInv, TypeOK
      <3> QED
        BY <2>2, <3>1, <3>2, <3>3, BroughtFromPool
    <2> QED
      BY <2>1, <2>2 DEF Visible
  <1> QED
    BY <1>1, <1>2, InitInv, StepInv, OwnStep, PTL DEF Spec

----------------------------------------------------------------------------
(* Exact names: what a listed item stands for *)

\* What is in the table is declared or brought by a specification.
SupportInv == \A s \in Schemas : exports[s] \subseteq Seed(s) \cup Used(s, exports)

LEMMA SupportStep ==
    ASSUME ScopeAssumption, ExactNames, IInv, SupportInv, [Next]_vars
    PROVE  SupportInv'
  <1>1. CASE Build
    BY <1>1 DEF Build, SupportInv, Seed
  <1>2. CASE VisitSchema
    <2> SUFFICES ASSUME NEW s \in Schemas PROVE exports'[s] \subseteq Seed(s) \cup Used(s, exports')
      BY <1>2 DEF VisitSchema, SupportInv, Seed, Used, Uses
    <2>1. exports \in Tables /\ at \in Schemas /\ TypeOK
      BY <1>2 DEF VisitSchema, IInv, TypeOK, Tables
    <2>2. \A t \in Schemas : exports'[t] = IF t = at THEN exports[t] \cup Used(at, exports) ELSE exports[t]
      BY <1>2, <2>1 DEF VisitSchema, Tables
    <2>3. exports' \in Tables
      BY <1>2, VisitInv DEF IInv, TypeOK, Tables
    <2>4. Used(s, exports) \subseteq Used(s, exports')
      BY <2>1, <2>2, <2>3, UsedGrows
    <2> QED
      BY <2>2, <2>4 DEF SupportInv
  <1>3. CASE UNCHANGED <<built, exports>>
    BY <1>3 DEF SupportInv, Seed, Used, Uses
  <1>4. Build \/ VisitSchema \/ UNCHANGED <<built, exports>>
    BY DEF Next, vars, EndRound, Edit, Save, Validate, Ask, index
  <1> QED
    BY <1>1, <1>2, <1>3, <1>4

\* What a schema re-exports is visible in it.
LEMMA ExportsAreVisible ==
    ASSUME SupportInv, NEW t \in Schemas
    PROVE  exports[t] \subseteq Visible(t)
  <1> SUFFICES ASSUME NEW e \in exports[t] PROVE e \in Visible(t)
    OBVIOUS
  <1>1. CASE e \in Seed(t)
    BY <1>1 DEF Seed, Declared, Visible, Kinds, NamedTypes
  <1>2. CASE e \in Used(t, exports)
    <2>1. PICK p \in Uses(t) : \E u \in ResolveTarget(t, p.schema) \ {t} : e \in Brought(exports[u], p)
      BY <1>2 DEF Used
    <2>2. PICK u \in ResolveTarget(t, p.schema) \ {t} : e \in Brought(exports[u], p)
      BY <2>1
    <2>3. p \in built[t] /\ Pool(u, p.mode) = exports[u]
      BY DEF Uses, Pool
    <2> QED
      BY <2>2, <2>3 DEF Visible
  <1> QED
    BY <1>1, <1>2 DEF SupportInv

\* Where identifiers differ in more than case, a schema without clashes lends
\* every listed item one meaning at most, but for an entity and another
\* declaration that scopeKey keeps apart.
THEOREM ListedItemsAreClear == ASSUME ExactNames PROVE Spec => []ListedItemsAreUnique
  <1>1. Init => SupportInv
    BY DEF Init, SupportInv
  <1>2. IInv /\ SupportInv => ListedItemsAreUnique
    <2> SUFFICES ASSUME IInv, SupportInv, NEW s \in Schemas, NEW p \in Uses(s),
                        NEW t \in ResolveTarget(s, p.schema), Clashes(t) = {}, NEW i \in p.items,
                        NEW e \in ResolveIn(exports[t], i.written),
                        NEW f \in ResolveIn(exports[t], i.written), e.decl # f.decl
                 PROVE  KeptApart(t, e, f)
      BY DEF ListedItemsAreUnique
    <2>1. p \in Specifications /\ i.written \in Names
      BY DEF Uses, IInv, TypeOK, Specifications, Items
    <2>2. t \in Schemas /\ exports[t] \subseteq Entries
      BY TargetType DEF IInv, TypeOK
    <2>3. e \in exports[t] /\ f \in exports[t] /\ e.name = i.written /\ f.name = i.written
      BY <2>1, <2>2 DEF ResolveIn, ExactNames, Entries
    <2>4. ScopeKey(t, e) # ScopeKey(t, f)
      BY <2>2, <2>3, ExportsAreVisible DEF Clashes
    <2> QED
      BY <2>3, <2>4 DEF ScopeKey, KeptApart
  <1>3. IInv /\ SupportInv /\ [Next]_vars => SupportInv'
    BY SupportStep, ScopeAssumption
  <1> QED
    BY <1>1, <1>2, <1>3, InitInv, StepInv, PTL DEF Spec

----------------------------------------------------------------------------
(* The cap never cuts the rounds off.  What the specifications bring of one *)
(* declaration depends on where that declaration is; how the table grows    *)
(* elsewhere can only take an item's case fallback away.  So each round     *)
(* that is not the last one takes some declaration further, which every     *)
(* round before took further, too, and there are only so many places: a     *)
(* schema, and the declaration's own name or one of a renaming item.        *)

\* Where a table has the declaration: schemas and names.
Places(d, table) == {x \in Schemas \X Names : [decl |-> d, name |-> x[2]] \in table[x[1]]}

\* The specifications of s bring nothing of the declaration that s has not.
SettledAt(d, s, table) ==
    \A n \in Names : [decl |-> d, name |-> n] \in Used(s, table) => [decl |-> d, name |-> n] \in table[s]
Settled(d, table) == \A s \in Schemas : SettledAt(d, s, table)

\* A larger table with the same places of a declaration brings no more of it.
LEMMA UsedOfDeclaration ==
    ASSUME TypeOK, NEW d \in Decls, NEW s \in Schemas, NEW n \in Names,
           NEW table \in Tables, NEW larger \in Tables,
           \A t \in Schemas : table[t] \subseteq larger[t],
           Places(d, table) = Places(d, larger),
           [decl |-> d, name |-> n] \in Used(s, larger)
    PROVE  [decl |-> d, name |-> n] \in Used(s, table)
  <1> DEFINE e == [decl |-> d, name |-> n]
  <1>1. PICK p \in Uses(s) : \E t \in ResolveTarget(s, p.schema) \ {s} : e \in Brought(larger[t], p)
    BY DEF Used
  <1>2. PICK t \in ResolveTarget(s, p.schema) \ {s} : e \in Brought(larger[t], p)
    BY <1>1
  <1>3. /\ p \in Specifications /\ t \in Schemas
        /\ table[t] \subseteq Entries /\ larger[t] \subseteq Entries /\ table[t] \subseteq larger[t]
    BY TargetType DEF TypeOK, Uses, Tables
  <1>4. ASSUME NEW f \in larger[t], f.decl = d PROVE f \in table[t]
    <2>1. f \in Entries
      BY <1>3
    <2>2. f.name \in Names /\ f = [decl |-> d, name |-> f.name]
      BY <1>4, <2>1 DEF Entries
    <2>3. <<t, f.name>> \in Places(d, larger)
      BY <1>3, <2>2 DEF Places
    <2>4. <<t, f.name>> \in Places(d, table)
      BY <2>3
    <2> QED
      BY <2>2, <2>4 DEF Places
  <1>5. e \in Brought(table[t], p)
    <2>1. CASE p.items = {}
      BY <1>2, <1>4, <2>1 DEF Brought
    <2>2. CASE p.items # {}
      <3>1. PICK i \in p.items : \E f \in ResolveIn(larger[t], i.written) : e = Renamed(f, i)
        BY <1>2, <2>2 DEF Brought
      <3>2. PICK f \in ResolveIn(larger[t], i.written) : e = Renamed(f, i)
        BY <3>1
      <3>3. f \in larger[t]
        BY DEF ResolveIn
      <3>4. f.decl = d
        BY <1>3, <3>2, <3>3 DEF Renamed, Entries
      <3>5. f \in table[t]
        BY <1>4, <3>3, <3>4
      <3>6. f \in ResolveIn(table[t], i.written)
        BY <1>3, <3>5 DEF ResolveIn
      <3> QED
        BY <2>2, <3>2, <3>6 DEF Brought
    <2> QED
      BY <2>1, <2>2
  <1> QED
    BY <1>2, <1>5 DEF Used

\* How the table grows in other declarations does not unsettle one.
LEMMA SettledStays ==
    ASSUME TypeOK, NEW d \in Decls, NEW s \in Schemas,
           NEW table \in Tables, NEW larger \in Tables,
           \A t \in Schemas : table[t] \subseteq larger[t],
           Places(d, table) = Places(d, larger),
           SettledAt(d, s, table)
    PROVE  SettledAt(d, s, larger)
  <1> SUFFICES ASSUME NEW n \in Names, [decl |-> d, name |-> n] \in Used(s, larger)
               PROVE  [decl |-> d, name |-> n] \in larger[s]
    BY DEF SettledAt
  <1> QED
    BY UsedOfDeclaration DEF SettledAt

\* Places are finitely many.
LEMMA PlacesAreFinite ==
    ASSUME ScopeAssumption, NEW d, NEW table
    PROVE  IsFiniteSet(Places(d, table)) /\ Cardinality(Places(d, table)) \in Nat
  <1>1. IsFiniteSet(Schemas) /\ IsFiniteSet(Names)
    BY FS_Interval, ScopeAssumption DEF Schemas
  <1>2. IsFiniteSet(Schemas \X Names)
    BY <1>1, FS_Product
  <1>3. Places(d, table) \in SUBSET (Schemas \X Names)
    BY DEF Places
  <1>4. IsFiniteSet(Places(d, table))
    BY <1>2, <1>3, FS_Subset
  <1> QED
    BY <1>4, FS_CardinalityType

\* A place more makes the number of places larger.
LEMMA MorePlaces ==
    ASSUME ScopeAssumption, NEW d, NEW table, NEW larger,
           Places(d, table) \subseteq Places(d, larger)
    PROVE  /\ Cardinality(Places(d, table)) <= Cardinality(Places(d, larger))
           /\ Places(d, table) # Places(d, larger) =>
                  Cardinality(Places(d, larger)) >= Cardinality(Places(d, table)) + 1
  <1>1. IsFiniteSet(Places(d, larger)) /\ Places(d, table) \in SUBSET Places(d, larger)
    BY PlacesAreFinite
  <1>2. /\ Cardinality(Places(d, table)) <= Cardinality(Places(d, larger))
        /\ Cardinality(Places(d, larger)) = Cardinality(Places(d, table))
               => Places(d, larger) = Places(d, table)
    BY <1>1, FS_Subset
  <1> QED
    BY <1>2, PlacesAreFinite

\* Items, specifications and renaming items are finitely many.
LEMMA ItemsAreFinite == ASSUME ScopeAssumption PROVE IsFiniteSet(Items)
  <1> DEFINE S == Names \X (Names \cup {NoName})
             f == [x \in S |-> [written |-> x[1], as |-> x[2]]]
  <1>1. IsFiniteSet(S)
    BY FS_AddElement, FS_Product DEF ScopeAssumption
  <1>2. f \in [S -> Items]
    BY DEF Items
  <1>3. ASSUME NEW y \in Items PROVE \E x \in S : f[x] = y
    <2>1. <<y.written, y.as>> \in S /\ f[<<y.written, y.as>>] = y
      BY DEF Items
    <2> QED
      BY <2>1
  <1> HIDE DEF S, f
  <1> QED
    BY <1>1, <1>2, <1>3, ImageIsSmaller

LEMMA SpecificationsAreFinite == ASSUME ScopeAssumption PROVE IsFiniteSet(Specifications)
  <1> DEFINE S == ({"use", "reference"} \X SchemaNames) \X SUBSET Items
             f == [x \in S |-> [mode |-> x[1][1], schema |-> x[1][2], items |-> x[2]]]
  <1>1. IsFiniteSet({"use", "reference"})
    <2>1. IsFiniteSet({"use"})
      BY FS_Singleton
    <2>2. IsFiniteSet({"use"} \cup {"reference"})
      BY <2>1, FS_AddElement
    <2>3. {"use", "reference"} = {"use"} \cup {"reference"}
      OBVIOUS
    <2> QED
      BY <2>2, <2>3
  <1>2. IsFiniteSet({"use", "reference"} \X SchemaNames)
    BY <1>1, FS_Product DEF ScopeAssumption
  <1>3. IsFiniteSet(SUBSET Items)
    BY ItemsAreFinite, FS_SUBSET
  <1>4. IsFiniteSet(S)
    BY <1>2, <1>3, FS_Product
  <1>5. f \in [S -> Specifications]
    BY DEF Specifications
  <1>6. ASSUME NEW y \in Specifications PROVE \E x \in S : f[x] = y
    <2>1. <<<<y.mode, y.schema>>, y.items>> \in S /\ f[<<<<y.mode, y.schema>>, y.items>>] = y
      BY DEF Specifications
    <2> QED
      BY <2>1
  <1> HIDE DEF S, f
  <1> QED
    BY <1>4, <1>5, <1>6, ImageIsSmaller

LEMMA RenamesAreFinite ==
    ASSUME ScopeAssumption, built \in [Schemas -> SUBSET Specifications]
    PROVE  IsFiniteSet(Renames) /\ Cardinality(Renames) \in Nat
  <1> DEFINE S == (Schemas \X Specifications) \X Items
             T == Schemas \X Specifications \X Items
             f == [x \in S |-> <<x[1][1], x[1][2], x[2]>>]
  <1>1. IsFiniteSet(Schemas)
    BY FS_Interval DEF ScopeAssumption, Schemas
  <1>2. IsFiniteSet(S)
    <2>1. IsFiniteSet(Schemas \X Specifications)
      BY <1>1, SpecificationsAreFinite, FS_Product
    <2> QED
      BY <2>1, ItemsAreFinite, FS_Product
  <1>3. f \in [S -> T]
    OBVIOUS
  <1>4. ASSUME NEW y \in T PROVE \E x \in S : f[x] = y
    <2>1. <<<<y[1], y[2]>>, y[3]>> \in S /\ f[<<<<y[1], y[2]>>, y[3]>>] = y
      OBVIOUS
    <2> QED
      BY <2>1
  <1>5. Renames \in SUBSET T
    BY DEF Renames, Specifications
  <1> HIDE DEF S, T, f
  <1>6. IsFiniteSet(T)
    BY <1>2, <1>3, <1>4, ImageIsSmaller
  <1>7. IsFiniteSet(Renames)
    BY <1>5, <1>6, FS_Subset
  <1> QED
    BY <1>7, FS_CardinalityType

\* An exported name is the declaration's own or one that an item gives it.
NamesInv == \A s \in Schemas : \A e \in exports[s] : e.name = Ident[e.decl] \/ \E r \in Renames : e.name = r[3].as

\* Until the table is computed, a declaration is settled or has come further in
\* every round so far: also in this one, or it is settled where this round was.
RoundInv ==
    /\ ~done => \A d \in Decls :
         \/ Settled(d, exports)
         \/ Cardinality(Places(d, exports)) >= round + 2
         \/ /\ Cardinality(Places(d, exports)) >= round + 1
            /\ \A s \in 1..(at - 1) : SettledAt(d, s, exports)
    /\ changed => \E d \in Decls : Cardinality(Places(d, exports)) >= round + 2
    /\ done => ~changed

\* Own names and the items' names leave a declaration so many places.
LEMMA PlacesAreBounded ==
    ASSUME IInv, NamesInv, NEW d \in Decls
    PROVE  Cardinality(Places(d, exports)) <= N * (1 + Cardinality(Renames))
  <1> DEFINE R == Renames \cup {<<>>}
             given == [r \in R |-> IF r = <<>> THEN Ident[d] ELSE r[3].as]
             G == {given[r] : r \in R}
  <1>1. IsFiniteSet(Renames) /\ Cardinality(Renames) \in Nat
    BY ScopeAssumption, RenamesAreFinite DEF IInv, TypeOK
  <1>2. <<>> \notin Renames
    BY DEF Renames
  <1>3. IsFiniteSet(R) /\ Cardinality(R) = Cardinality(Renames) + 1
    BY <1>1, <1>2, FS_AddElement
  <1>4. IsFiniteSet(G) /\ Cardinality(G) <= Cardinality(R)
    <2>1. given \in [R -> G] /\ \A y \in G : \E r \in R : given[r] = y
      OBVIOUS
    <2> HIDE DEF R, given, G
    <2> QED
      BY <1>3, <2>1, ImageIsSmaller
  <1>5. IsFiniteSet(Schemas) /\ Cardinality(Schemas) = N /\ N \in Nat
    BY FS_Interval, ScopeAssumption DEF Schemas
  <1>6. Places(d, exports) \in SUBSET (Schemas \X G)
    <2> SUFFICES ASSUME NEW x \in Places(d, exports) PROVE x \in Schemas \X G
      OBVIOUS
    <2>1. x \in Schemas \X Names /\ [decl |-> d, name |-> x[2]] \in exports[x[1]]
      BY DEF Places
    <2>2. x[2] = Ident[d] \/ \E r \in Renames : x[2] = r[3].as
      BY <2>1 DEF NamesInv
    <2>3. CASE x[2] = Ident[d]
      <3>1. <<>> \in R /\ given[<<>>] = Ident[d]
        OBVIOUS
      <3>2. x[2] \in G
        BY <2>3, <3>1
      <3> QED
        BY <2>1, <3>2
    <2>4. CASE \E r \in Renames : x[2] = r[3].as
      <3>1. PICK r \in Renames : x[2] = r[3].as
        BY <2>4
      <3>2. r \in R /\ given[r] = r[3].as
        BY <1>2
      <3>3. x[2] \in G
        BY <3>1, <3>2
      <3> QED
        BY <2>1, <3>3
    <2> QED
      BY <2>2, <2>3, <2>4
  <1> HIDE DEF R, given, G
  <1>7. /\ IsFiniteSet(Schemas \X G)
        /\ Cardinality(Schemas \X G) = Cardinality(Schemas) * Cardinality(G)
    BY <1>4, <1>5, FS_Product
  <1>8. Cardinality(Places(d, exports)) <= Cardinality(Schemas \X G)
    BY <1>6, <1>7, FS_Subset
  <1>9. Cardinality(G) \in Nat /\ Cardinality(Places(d, exports)) \in Nat
    BY <1>4, PlacesAreFinite, ScopeAssumption, FS_CardinalityType
  <1>10. \A g, c \in Nat : g <= c + 1 => N * g <= N * (1 + c)
    <2> SUFFICES ASSUME NEW g \in Nat, NEW c \in Nat, g <= c + 1 PROVE N * g <= N * (1 + c)
      OBVIOUS
    <2>1. PICK m \in Nat : 1 + c = g + m
      <3>1. (c + 1) - g \in Nat /\ 1 + c = g + ((c + 1) - g)
        OBVIOUS
      <3> QED
        BY <3>1
    <2>2. N * (1 + c) = N * g + N * m
      BY <1>5, <2>1
    <2>3. N * m \in Nat /\ N * g \in Nat
      BY <1>5
    <2> QED
      BY <2>2, <2>3
  <1> QED
    BY <1>1, <1>3, <1>4, <1>5, <1>7, <1>8, <1>9, <1>10

LEMMA NamesStep == IInv /\ NamesInv /\ [Next]_vars => NamesInv'
  <1> SUFFICES ASSUME IInv, NamesInv, [Next]_vars PROVE NamesInv'
    OBVIOUS
  <1>1. CASE Build
    <2> SUFFICES ASSUME NEW s \in Schemas, NEW e \in exports'[s] PROVE e.name = Ident[e.decl]
      BY DEF NamesInv
    <2>1. e \in Seed(s)
      BY <1>1 DEF Build
    <2> QED
      BY <2>1 DEF Seed, Declared
  <1>2. CASE VisitSchema
    <2>1. Renames' = Renames
      BY <1>2 DEF VisitSchema, Renames
    <2>2. at \in Schemas /\ exports' = [exports EXCEPT ![at] = @ \cup Used(at, exports)]
      BY <1>2 DEF VisitSchema
    <2>3. exports \in [Schemas -> SUBSET Entries] /\ built \in [Schemas -> SUBSET Specifications]
      BY DEF IInv, TypeOK
    <2>4. ASSUME NEW e \in Used(at, exports)
          PROVE  e.name = Ident[e.decl] \/ \E r \in Renames : e.name = r[3].as
      <3>1. PICK p \in Uses(at) : \E t \in ResolveTarget(at, p.schema) \ {at} : e \in Brought(exports[t], p)
        BY DEF Used
      <3>2. PICK t \in ResolveTarget(at, p.schema) \ {at} : e \in Brought(exports[t], p)
        BY <3>1
      <3>3. t \in Schemas /\ p \in built[at]
        BY <2>2, TargetType DEF Uses
      <3>4. CASE e \in exports[t]
        BY <3>3, <3>4 DEF NamesInv
      <3>5. CASE e \notin exports[t]
        <4>1. PICK i \in p.items : \E f \in ResolveIn(exports[t], i.written) : e = Renamed(f, i)
          BY <3>2, <3>5 DEF Brought
        <4>2. PICK f \in ResolveIn(exports[t], i.written) : e = Renamed(f, i)
          BY <4>1
        <4>3. f \in exports[t] /\ f \in Entries
          BY <2>3, <3>3 DEF ResolveIn
        <4>4. i.as # NoName /\ e.name = i.as
          BY <3>5, <4>2, <4>3 DEF Renamed, Entries
        <4>5. <<at, p, i>> \in Renames
          BY <2>2, <3>3, <4>4 DEF Renames
        <4> QED
          BY <4>4, <4>5
      <3> QED
        BY <3>4, <3>5
    <2>5. ASSUME NEW s \in Schemas, NEW e \in exports'[s]
          PROVE  e.name = Ident[e.decl] \/ \E r \in Renames : e.name = r[3].as
      <3>1. e \in exports[s] \/ e \in Used(at, exports)
        BY <2>2, <2>3
      <3> QED
        BY <2>4, <3>1 DEF NamesInv
    <2> QED
      BY <2>1, <2>5 DEF NamesInv
  <1>3. CASE ~Build /\ ~VisitSchema
    <2>1. exports' = exports /\ built' = built
      BY <1>3 DEF Next, EndRound, Edit, Save, Validate, Ask, index, vars
    <2> QED
      BY <2>1 DEF NamesInv, Renames
  <1> QED
    BY <1>1, <1>2, <1>3

\* What is nowhere in a table is settled in it.
LEMMA NowhereIsSettled ==
    ASSUME TypeOK, NEW d \in Decls, NEW table \in Tables
    PROVE  Settled(d, table) \/ Cardinality(Places(d, table)) >= 1
  <1>1. PICK m : m = Cardinality(Places(d, table))
    OBVIOUS
  <1>2. IsFiniteSet(Places(d, table)) /\ m \in Nat
    BY <1>1, PlacesAreFinite, ScopeAssumption
  <1>3. CASE Places(d, table) = {}
    <2> SUFFICES ASSUME NEW s \in Schemas, NEW n \in Names, [decl |-> d, name |-> n] \in Used(s, table)
                 PROVE  FALSE
      BY DEF Settled, SettledAt
    <2>1. PICK p \in Uses(s) :
              \E t \in ResolveTarget(s, p.schema) \ {s} : [decl |-> d, name |-> n] \in Brought(table[t], p)
      BY DEF Used
    <2>2. PICK t \in ResolveTarget(s, p.schema) \ {s} : [decl |-> d, name |-> n] \in Brought(table[t], p)
      BY <2>1
    <2>3. t \in Schemas /\ table[t] \subseteq Entries
      BY TargetType DEF Tables
    <2>4. PICK f \in table[t] : f.decl = d
      <3>1. CASE p.items = {}
        BY <2>2, <3>1 DEF Brought
      <3>2. CASE p.items # {}
        <4>1. PICK i \in p.items : \E f \in ResolveIn(table[t], i.written) : [decl |-> d, name |-> n] = Renamed(f, i)
          BY <2>2, <3>2 DEF Brought
        <4>2. PICK f \in ResolveIn(table[t], i.written) : [decl |-> d, name |-> n] = Renamed(f, i)
          BY <4>1
        <4>3. f \in table[t]
          BY DEF ResolveIn
        <4> QED
          BY <2>3, <4>2, <4>3 DEF Renamed, Entries
      <3> QED
        BY <3>1, <3>2
    <2>5. f \in Entries
      BY <2>3
    <2>6. f.name \in Names /\ f = [decl |-> d, name |-> f.name]
      BY <2>4, <2>5 DEF Entries
    <2>7. <<t, f.name>> \in Places(d, table)
      BY <2>3, <2>6 DEF Places
    <2> QED
      BY <1>3, <2>7
  <1>4. CASE Places(d, table) # {}
    <2>1. m # 0
      BY <1>1, <1>2, <1>4, FS_EmptySet
    <2>2. m >= 1
      BY <1>2, <2>1
    <2> QED
      BY <1>1, <2>2
  <1> QED
    BY <1>3, <1>4

LEMMA RoundsBegin ==
    IInv => \A d \in Decls : Settled(d, exports) \/ Cardinality(Places(d, exports)) >= 1
  <1> SUFFICES ASSUME IInv, NEW d \in Decls
               PROVE  Settled(d, exports) \/ Cardinality(Places(d, exports)) >= 1
    OBVIOUS
  <1>1. TypeOK /\ exports \in Tables
    BY DEF IInv, TypeOK, Tables
  <1> QED
    BY <1>1, NowhereIsSettled

LEMMA RoundInit == Init => RoundInv
  <1> SUFFICES ASSUME Init PROVE RoundInv
    OBVIOUS
  <1>1. round = 0 /\ at = 1 /\ ~changed /\ ~done
    BY DEF Init
  <1>2. ASSUME NEW d \in Decls
        PROVE  Settled(d, exports) \/ Cardinality(Places(d, exports)) >= round + 1
    BY <1>1, InitInv, RoundsBegin
  <1>3. 1..(at - 1) = {}
    BY <1>1
  <1> QED
    BY <1>1, <1>2, <1>3 DEF RoundInv

\* A visit takes a declaration further in the schema it visits, or finds it
\* settled there.
LEMMA VisitTakesFurther ==
    ASSUME IInv, VisitSchema, NEW d \in Decls
    PROVE  /\ \A s \in Schemas : exports[s] \subseteq exports'[s]
           /\ Cardinality(Places(d, exports)) <= Cardinality(Places(d, exports'))
           /\ \/ /\ Places(d, exports) # Places(d, exports')
                 /\ ~SettledAt(d, at, exports)
                 /\ Cardinality(Places(d, exports')) >= Cardinality(Places(d, exports)) + 1
              \/ /\ Places(d, exports) = Places(d, exports')
                 /\ SettledAt(d, at, exports')
  <1>1. exports \in Tables /\ exports' \in Tables /\ at \in Schemas
    BY VisitInv DEF VisitSchema, IInv, TypeOK, Tables
  <1>2. exports' = [exports EXCEPT ![at] = @ \cup Used(at, exports)]
    BY DEF VisitSchema
  <1>3. \A s \in Schemas : exports[s] \subseteq exports'[s]
    BY <1>1, <1>2 DEF Tables
  <1>4. Places(d, exports) \subseteq Places(d, exports')
    BY <1>3 DEF Places
  <1>5. PICK table \in Tables : table = exports'
    BY <1>1
  <1>6. /\ Cardinality(Places(d, exports)) <= Cardinality(Places(d, table))
        /\ Places(d, exports) # Places(d, table) =>
               Cardinality(Places(d, table)) >= Cardinality(Places(d, exports)) + 1
    BY <1>4, <1>5, MorePlaces, ScopeAssumption
  <1>7. ASSUME Places(d, exports) # Places(d, table) PROVE ~SettledAt(d, at, exports)
    <2>1. PICK x \in Places(d, table) : x \notin Places(d, exports)
      BY <1>4, <1>5, <1>7
    <2>2. /\ x \in Schemas \X Names /\ [decl |-> d, name |-> x[2]] \in table[x[1]]
          /\ [decl |-> d, name |-> x[2]] \notin exports[x[1]]
      BY <2>1 DEF Places
    <2>3. x[1] = at /\ [decl |-> d, name |-> x[2]] \in Used(at, exports)
      BY <1>1, <1>2, <1>5, <2>2 DEF Tables
    <2> QED
      BY <2>2, <2>3 DEF SettledAt
  <1>8. ASSUME Places(d, exports) = Places(d, table) PROVE SettledAt(d, at, table)
    <2> SUFFICES ASSUME NEW n \in Names, [decl |-> d, name |-> n] \in Used(at, table)
                 PROVE  [decl |-> d, name |-> n] \in table[at]
      BY DEF SettledAt
    <2>1. [decl |-> d, name |-> n] \in Used(at, exports)
      <3>1. TypeOK
        BY DEF IInv
      <3> QED
        BY <1>1, <1>3, <1>5, <1>8, <3>1, UsedOfDeclaration
    <2> QED
      BY <1>1, <1>2, <1>5, <2>1 DEF Tables
  <1> QED
    BY <1>3, <1>5, <1>6, <1>7, <1>8

\* In the next state a declaration is settled in the next state's table, if the
\* index is still the same.
LEMMA SettledNext ==
    ASSUME built' = built
    PROVE  \A d, s : SettledAt(d, s, exports)' <=> SettledAt(d, s, exports')
  BY DEF SettledAt, Used, Uses

LEMMA RoundVisit == IInv /\ RoundInv /\ VisitSchema => RoundInv'
  <1> SUFFICES ASSUME IInv, RoundInv, VisitSchema PROVE RoundInv'
    OBVIOUS
  <1>1. /\ ~done /\ ~done' /\ round' = round /\ round \in Nat /\ built' = built
        /\ at \in Schemas /\ at' = at + 1
        /\ changed' = (changed \/ exports' # exports)
        /\ TypeOK /\ exports \in Tables
    BY DEF VisitSchema, IInv, TypeOK, Tables
  <1>2. PICK after \in Tables : after = exports'
    BY VisitInv DEF IInv, TypeOK, Tables
  <1> DEFINE Before(d) == Cardinality(Places(d, exports))
             After(d) == Cardinality(Places(d, after))
  <1>3. ASSUME NEW d \in Decls
        PROVE  /\ \A s \in Schemas : exports[s] \subseteq after[s]
               /\ Before(d) \in Nat /\ After(d) \in Nat /\ Before(d) <= After(d)
               /\ \/ /\ Places(d, exports) # Places(d, after)
                     /\ ~SettledAt(d, at, exports)
                     /\ After(d) >= Before(d) + 1
                  \/ /\ Places(d, exports) = Places(d, after)
                     /\ SettledAt(d, at, after)
    BY <1>2, VisitTakesFurther, PlacesAreFinite, ScopeAssumption
  <1>4. ASSUME NEW d \in Decls, NEW s \in Schemas, SettledAt(d, s, exports),
               Places(d, exports) = Places(d, after)
        PROVE  SettledAt(d, s, after)
    BY <1>1, <1>2, <1>3, <1>4, SettledStays
  <1>5. ASSUME NEW d \in Decls
        PROVE  Settled(d, exports) \/ Before(d) >= round + 1
    <2>1. \/ Settled(d, exports) \/ Before(d) >= round + 2 \/ Before(d) >= round + 1
      BY <1>1 DEF RoundInv
    <2> QED
      BY <1>1, <1>3, <2>1
  <1>6. ASSUME NEW d \in Decls
        PROVE  \/ Settled(d, after)
               \/ After(d) >= round + 2
               \/ After(d) >= round + 1 /\ \A s \in 1..at : SettledAt(d, s, after)
    <2>1. CASE Settled(d, exports)
      <3>1. Places(d, exports) = Places(d, after)
        BY <1>1, <1>3, <2>1 DEF Settled
      <3> QED
        BY <1>4, <2>1, <3>1 DEF Settled
    <2>2. CASE Before(d) >= round + 2
      <3>1. After(d) >= round + 2
        BY <1>1, <1>3, <2>2
      <3> QED
        BY <3>1
    <2>3. CASE Before(d) >= round + 1 /\ \A s \in 1..(at - 1) : SettledAt(d, s, exports)
      <3>1. CASE Places(d, exports) # Places(d, after)
        <4>1. After(d) >= round + 2
          BY <1>1, <1>3, <2>3, <3>1
        <4> QED
          BY <4>1
      <3>2. CASE Places(d, exports) = Places(d, after)
        <4>1. After(d) >= round + 1
          BY <1>1, <1>3, <2>3
        <4>2. SettledAt(d, at, after)
          BY <1>3, <3>2
        <4>3. ASSUME NEW s \in 1..at, s # at PROVE SettledAt(d, s, after)
          <5>1. s \in 1..(at - 1) /\ s \in Schemas
            BY <1>1, <4>3, ScopeAssumption DEF Schemas
          <5> QED
            BY <1>4, <2>3, <3>2, <5>1
        <4> QED
          BY <4>1, <4>2, <4>3
      <3> QED
        BY <3>1, <3>2
    <2> QED
      BY <1>1, <2>1, <2>2, <2>3 DEF RoundInv
  <1>7. ASSUME changed' PROVE \E d \in Decls : After(d) >= round + 2
    <2>1. CASE changed
      <3>1. PICK d \in Decls : Before(d) >= round + 2
        BY <2>1 DEF RoundInv
      <3>2. After(d) >= round + 2
        BY <1>1, <1>3, <3>1
      <3> QED
        BY <3>2
    <2>2. CASE exports' # exports
      <3>1. PICK s \in Schemas : exports[s] # after[s]
        BY <1>1, <1>2, <2>2 DEF Tables
      <3>2. PICK e \in Entries : e \in after[s] /\ e \notin exports[s]
        <4>1. /\ \A d \in Decls : exports[s] \subseteq after[s]
              /\ after[s] \subseteq Entries /\ exports[s] \subseteq Entries
          BY <1>1, <1>2, <1>3 DEF Tables
        <4>2. PICK e \in Entries : ~(e \in after[s] <=> e \in exports[s])
          BY <3>1, <4>1
        <4>3. e.decl \in Decls
          BY DEF Entries
        <4> QED
          BY <4>1, <4>2, <4>3
      <3>3. e.decl \in Decls /\ e.name \in Names /\ e = [decl |-> e.decl, name |-> e.name]
        BY DEF Entries
      <3>4. <<s, e.name>> \in Places(e.decl, after) /\ <<s, e.name>> \notin Places(e.decl, exports)
        BY <3>2, <3>3 DEF Places
      <3>5. PICK d \in Decls : Places(d, exports) # Places(d, after)
        BY <3>3, <3>4
      <3>6. ~Settled(d, exports) /\ After(d) >= Before(d) + 1
        BY <1>1, <1>3, <3>5 DEF Settled
      <3>7. Before(d) >= round + 1
        BY <1>5, <3>6
      <3>8. After(d) >= round + 2
        BY <1>1, <1>3, <3>6, <3>7
      <3> QED
        BY <3>8
    <2> QED
      BY <1>1, <1>7, <2>1, <2>2
  <1>8. ASSUME NEW d \in Decls
        PROVE  (\/ Settled(d, exports)
                \/ Cardinality(Places(d, exports)) >= round + 2
                \/ /\ Cardinality(Places(d, exports)) >= round + 1
                   /\ \A s \in 1..(at - 1) : SettledAt(d, s, exports))'
    <2>1. 1..(at' - 1) = 1..at /\ round' = round
      BY <1>1 DEF Schemas
    <2>2. Settled(d, after) => Settled(d, exports)'
      BY <1>1, <1>2, SettledNext DEF Settled
    <2>3. Cardinality(Places(d, exports))' = After(d)
      BY <1>2 DEF Places
    <2>4. \A s : SettledAt(d, s, after) => SettledAt(d, s, exports)'
      BY <1>1, <1>2, SettledNext
    <2> QED
      BY <1>6, <2>1, <2>2, <2>3, <2>4
  <1>9. (changed => \E d \in Decls : Cardinality(Places(d, exports)) >= round + 2)'
    <2>1. \A d : Cardinality(Places(d, exports))' = After(d)
      BY <1>2 DEF Places
    <2> QED
      BY <1>1, <1>7, <2>1
  <1> QED
    BY <1>1, <1>8, <1>9 DEF RoundInv

\* A round that changed something ended before the bound, so that the next one
\* finds each declaration settled or taken further so far.
LEMMA RoundEnd == IInv /\ NamesInv /\ RoundInv /\ EndRound => RoundInv'
  <1> SUFFICES ASSUME IInv, NamesInv, RoundInv, EndRound PROVE RoundInv'
    OBVIOUS
  <1>1. /\ ~done /\ at = N + 1 /\ exports' = exports /\ built' = built
        /\ done' = (~changed \/ round + 1 >= Bound)
        /\ round' = IF done' THEN round ELSE round + 1
        /\ at' = IF done' THEN at ELSE 1
        /\ changed' = IF done' THEN changed ELSE FALSE
        /\ round \in Nat /\ N \in Nat
    BY ScopeAssumption DEF EndRound, IInv, TypeOK
  <1>2. \A d \in Decls : Cardinality(Places(d, exports)) \in Nat
    BY PlacesAreFinite, ScopeAssumption
  <1>3. ASSUME changed PROVE ~done'
    <2>1. PICK d \in Decls : Cardinality(Places(d, exports)) >= round + 2
      BY <1>3 DEF RoundInv
    <2>2. Cardinality(Places(d, exports)) <= N * (1 + Cardinality(Renames))
      BY PlacesAreBounded
    <2>3. Cardinality(Renames) \in Nat
      BY RenamesAreFinite, ScopeAssumption DEF IInv, TypeOK
    <2>4. N * (1 + Cardinality(Renames)) \in Nat
      BY <1>1, <2>3
    <2>5. PICK m \in Nat : m = N * (1 + Cardinality(Renames))
      BY <2>4
    <2>6. ~(round + 1 >= m + 2)
      BY <1>1, <1>2, <2>1, <2>2, <2>5
    <2> QED
      BY <1>1, <1>3, <2>5, <2>6 DEF Bound
  <1>4. ASSUME ~done', NEW d \in Decls
        PROVE  Settled(d, exports) \/ Cardinality(Places(d, exports)) >= round' + 1
    <2>1. round' = round + 1
      BY <1>1, <1>4
    <2>2. 1..(at - 1) = Schemas
      BY <1>1 DEF Schemas
    <2>3. Settled(d, exports) \/ Cardinality(Places(d, exports)) >= round + 2
      BY <1>1, <2>2 DEF RoundInv, Settled
    <2>4. CASE Cardinality(Places(d, exports)) >= round + 2
      <3>1. Cardinality(Places(d, exports)) >= round' + 1
        BY <1>1, <1>2, <2>1, <2>4
      <3> QED
        BY <3>1
    <2> QED
      BY <2>3, <2>4
  <1>5. ASSUME NEW d \in Decls
        PROVE  Cardinality(Places(d, exports))' = Cardinality(Places(d, exports))
    BY <1>1 DEF Places
  <1>6. ASSUME NEW d \in Decls PROVE Settled(d, exports) => Settled(d, exports)'
    BY <1>1, SettledNext DEF Settled
  <1>7. ~done' => at' = 1 /\ 1..(at' - 1) = {}
    BY <1>1
  <1>8. done' => ~changed'
    BY <1>1, <1>3
  <1>9. ~changed'
    BY <1>1, <1>8
  <1> QED
    BY <1>4, <1>5, <1>6, <1>7, <1>8, <1>9 DEF RoundInv

LEMMA RoundStep == IInv /\ NamesInv /\ RoundInv /\ [Next]_vars => RoundInv'
  <1> SUFFICES ASSUME IInv, NamesInv, RoundInv, [Next]_vars PROVE RoundInv'
    OBVIOUS
  <1>1. CASE Build
    <2>1. round' = 0 /\ at' = 1 /\ ~changed' /\ ~done'
      BY <1>1 DEF Build
    <2>2. (\A d \in Decls : Settled(d, exports) \/ Cardinality(Places(d, exports)) >= 1)'
      <3>1. IInv'
        BY <1>1, BuildInv
      <3> QED
        BY <3>1, RoundsBegin, PTL
    <2>3. 1..(at' - 1) = {}
      BY <2>1
    <2> QED
      BY <2>1, <2>2, <2>3 DEF RoundInv
  <1>2. CASE VisitSchema
    BY <1>2, RoundVisit
  <1>3. CASE EndRound
    BY <1>3, RoundEnd
  <1>4. CASE ~Build /\ ~VisitSchema /\ ~EndRound
    <2>1. UNCHANGED <<exports, built, at, round, changed, done>>
      BY <1>4 DEF Next, Edit, Save, Validate, Ask, index, vars
    <2>2. \A d, s : SettledAt(d, s, exports)' <=> SettledAt(d, s, exports)
      BY <2>1, SettledNext
    <2>3. \A d : Places(d, exports)' = Places(d, exports)
      BY <2>1 DEF Places
    <2> QED
      BY <2>1, <2>2, <2>3 DEF RoundInv, Settled
  <1> QED
    BY <1>1, <1>2, <1>3, <1>4

\* "The cap only guards against a runaway": the rounds always stop because one
\* changed nothing, never at the bound, whatever the specifications say
\* (computeExports).
THEOREM CapNeverCuts == Spec => [](done => ~changed)
  <1>1. Init => NamesInv
    BY DEF Init, NamesInv, Seed, Declared
  <1>2. RoundInv => (done => ~changed)
    BY DEF RoundInv
  <1> QED
    BY <1>1, <1>2, InitInv, StepInv, NamesStep, RoundInit, RoundStep, PTL DEF Spec

\* So the computed table is closed: every named type a schema declares and
\* everything its USE specifications bring from the table is in it.
THEOREM ExportsAreClosed == Spec => []ExportsClosed
  <1>1. (done => ~changed) /\ (~changed => ExportsClosed) => ExportsClosed
    BY DEF ExportsClosed
  <1> QED
    BY <1>1, CapNeverCuts, NoChangeIsClosed, PTL

----------------------------------------------------------------------------
(* Exact names: what the rounds in place compute is what has a derivation.  *)
(* Rounds that read only the round before grow, too, stay below every       *)
(* closed table, and come to rest for the same reason: each that does not   *)
(* settle a declaration finds another place for it.                         *)

Steps == N * Cardinality(Names)
Seeds == [s \in Schemas |-> Seed(s)]
Further(table) == [s \in Schemas |-> Seed(s) \cup Used(s, table)]

LEMMA FurtherType ==
    ASSUME TypeOK, NEW table \in Tables
    PROVE  Further(table) \in Tables
  BY SeedType, UsedType DEF Further, Tables

LEMMA StepsType == Steps \in Nat /\ Cardinality(Schemas) = N /\ IsFiniteSet(Schemas)
  <1>1. IsFiniteSet(Names) /\ N \in Nat \ {0}
    BY ScopeAssumption
  <1>2. Cardinality(Names) \in Nat
    BY <1>1, FS_CardinalityType
  <1>3. Steps \in Nat
    BY <1>1, <1>2 DEF Steps
  <1>4. Cardinality(1..N) = N /\ IsFiniteSet(1..N)
    BY <1>1, FS_Interval
  <1> QED
    BY <1>3, <1>4 DEF Schemas

\* The recursive definition of Derivable makes these rounds.
LEMMA DerivableRounds ==
    ASSUME TypeOK
    PROVE  \E f : /\ \A k \in 0..Steps : f[k] \in Tables
                  /\ f[0] = Seeds
                  /\ \A k \in 1..Steps : f[k] = Further(f[k - 1])
                  /\ Derivable = f[Steps]
  <1> DEFINE D == 0..Steps
             Body(g, k) == IF k = 0 THEN Seeds ELSE Further(g[k - 1])
             F == CHOOSE g : g = [k \in D |-> Body(g, k)]
             step == [table \in Tables |-> Further(table)]
  <1>1. Steps \in Nat
    BY StepsType
  <1>2. Seeds \in Tables /\ step \in [Tables -> Tables]
    BY StartState, FurtherType DEF Seeds
  <1>3. PICK g \in [D -> Tables] : g[0] = Seeds /\ \A k \in 1..Steps : g[k] = step[g[k - 1]]
    <2>1. PICK st \in [Tables -> Tables] : st = step
      BY <1>2
    <2> HIDE DEF step, Body, F
    <2>2. \A T : \A start \in T : \A other \in [T -> T] : \A K \in Nat :
             \E g \in [0..K -> T] : g[0] = start /\ \A k \in 1..K : g[k] = other[g[k - 1]]
      BY RoundsExist
    <2>3. \E g \in [0..Steps -> Tables] : g[0] = Seeds /\ \A k \in 1..Steps : g[k] = st[g[k - 1]]
      BY <1>1, <1>2, <2>1, <2>2, SMT
    <2> QED
      BY <2>1, <2>3
  <1>4. g = [k \in D |-> Body(g, k)]
    <2>1. ASSUME NEW k \in D PROVE g[k] = Body(g, k)
      <3>1. CASE k = 0
        BY <1>3, <3>1
      <3>2. CASE k # 0
        <4>1. k \in 1..Steps /\ k - 1 \in D
          BY <1>1, <3>2
        <4>2. g[k - 1] \in Tables
          BY <1>3, <4>1
        <4> QED
          BY <1>3, <3>2, <4>1, <4>2
      <3> QED
        BY <3>1, <3>2
    <2> HIDE DEF Body
    <2> QED
      BY <1>3, <2>1
  <1>5. F = [k \in D |-> Body(F, k)]
    <2> HIDE DEF Body
    <2> QED
      BY <1>4
  <1>6. Derivable = F[Steps]
    BY DEF Derivable, Steps, Seeds, Further
  <1> HIDE DEF F
  <1>7. 0 \in D /\ F[0] = Seeds
    BY <1>1, <1>5
  <1>8. ASSUME NEW k \in 1..Steps PROVE F[k] = Further(F[k - 1])
    BY <1>1, <1>5
  <1>9. ASSUME NEW k \in D PROVE F[k] \in Tables
    <2> DEFINE S == {m \in Nat : m \in D => F[m] \in Tables}
    <2>1. 0 \in S
      BY <1>2, <1>7
    <2>2. ASSUME NEW m \in Nat, m \in S PROVE m + 1 \in S
      <3> SUFFICES ASSUME m + 1 \in D PROVE F[m + 1] \in Tables
        OBVIOUS
      <3>1. m \in D /\ m + 1 \in 1..Steps /\ (m + 1) - 1 = m
        BY <1>1
      <3>2. F[m] \in Tables /\ F[m + 1] = Further(F[m])
        BY <1>8, <2>2, <3>1
      <3> QED
        BY <3>2, FurtherType
    <2> HIDE DEF S
    <2>3. k \in S
      BY <1>1, <2>1, <2>2, SetInduction
    <2> QED
      BY <2>3 DEF S
  <1> QED
    BY <1>6, <1>7, <1>8, <1>9

\* A round further from a table that the round before grew from.
LEMMA FurtherStep ==
    ASSUME ExactNames, TypeOK, NEW table \in Tables, NEW next \in Tables, next = Further(table),
           \A s \in Schemas : Seed(s) \subseteq table[s] /\ table[s] \subseteq next[s], NEW d \in Decls
    PROVE  \/ Settled(d, table) /\ Settled(d, next)
           \/ Cardinality(Places(d, next)) >= Cardinality(Places(d, table)) + 1
  <1>1. Places(d, table) \subseteq Places(d, next)
    BY DEF Places
  <1>2. CASE Places(d, table) # Places(d, next)
    BY <1>1, <1>2, MorePlaces, ScopeAssumption
  <1>3. CASE Places(d, table) = Places(d, next)
    <2>1. ASSUME NEW s \in Schemas PROVE SettledAt(d, s, table)
      <3> SUFFICES ASSUME NEW n \in Names, [decl |-> d, name |-> n] \in Used(s, table)
                   PROVE  [decl |-> d, name |-> n] \in table[s]
        BY DEF SettledAt
      <3>1. [decl |-> d, name |-> n] \in next[s]
        BY DEF Further
      <3>2. <<s, n>> \in Places(d, next)
        BY <3>1 DEF Places
      <3>3. <<s, n>> \in Places(d, table)
        BY <1>3, <3>2
      <3> QED
        BY <3>3 DEF Places
    <2>2. ASSUME NEW s \in Schemas PROVE SettledAt(d, s, next)
      BY <1>3, <2>1, SettledStays
    <2> QED
      BY <2>1, <2>2 DEF Settled
  <1> QED
    BY <1>2, <1>3

\* The rounds of Derivable grow, stay in a closed table, and end closed.
LEMMA DerivableIsClosed ==
    ASSUME ExactNames, TypeOK, NEW table \in Tables, Closed(table)
    PROVE  /\ Derivable \in Tables /\ Closed(Derivable)
           /\ \A s \in Schemas : Derivable[s] \subseteq table[s]
  <1>1. PICK f : /\ \A k \in 0..Steps : f[k] \in Tables
                 /\ f[0] = Seeds
                 /\ \A k \in 1..Steps : f[k] = Further(f[k - 1])
                 /\ Derivable = f[Steps]
    BY DerivableRounds
  <1>2. Steps \in Nat /\ Steps \in 0..Steps
    BY StepsType
  <1> DEFINE Grown(low, high) == \A s \in Schemas : low[s] \subseteq high[s]
             \* Up to round k: above the seeds, below the table, and larger next.
             Good(k) == /\ Grown(Seeds, f[k]) /\ Grown(f[k], table)
                        /\ Grown(f[k], Further(f[k]))
  <1>3. ASSUME NEW low \in Tables, NEW high \in Tables, Grown(low, high)
        PROVE  Grown(Further(low), Further(high))
    BY <1>3, UsedGrows, ScopeAssumption DEF Further
  <1>4. ASSUME NEW k \in 0..Steps PROVE Good(k)
    <2> DEFINE S == {m \in Nat : m \in 0..Steps => Good(m)}
    <2>1. 0 \in S
      <3>1. 0 \in 0..Steps /\ f[0] = Seeds
        BY <1>1, <1>2
      <3>2. Grown(Seeds, Seeds) /\ Grown(Seeds, Further(Seeds)) /\ Grown(Seeds, table)
        BY DEF Seeds, Further, Closed
      <3> QED
        BY <3>1, <3>2
    <2>2. ASSUME NEW m \in Nat, m \in S PROVE m + 1 \in S
      <3> SUFFICES ASSUME m + 1 \in 0..Steps PROVE Good(m + 1)
        OBVIOUS
      <3>1. m \in 0..Steps /\ m + 1 \in 1..Steps /\ (m + 1) - 1 = m
        BY <1>2
      <3>2. f[m] \in Tables /\ f[m + 1] \in Tables /\ f[m + 1] = Further(f[m])
        BY <1>1, <3>1
      <3>3. Good(m)
        BY <2>2, <3>1
      <3>4. Grown(f[m], f[m + 1])
        BY <3>2, <3>3
      <3>5. Grown(Further(f[m]), Further(f[m + 1]))
        BY <1>3, <3>2, <3>4
      <3>6. Grown(f[m + 1], Further(f[m + 1]))
        BY <3>2, <3>5
      <3>7. Grown(Further(f[m]), Further(table))
        BY <1>3, <3>2, <3>3
      <3>8. Grown(Further(table), table)
        BY DEF Closed, Further
      <3>9. Grown(f[m + 1], table)
        BY <3>2, <3>7, <3>8
      <3>10. Grown(Seeds, f[m + 1])
        BY <3>3, <3>4
      <3> QED
        BY <3>6, <3>9, <3>10
    <2> HIDE DEF S
    <2>3. k \in S
      BY <1>2, <2>1, <2>2, SetInduction
    <2> QED
      BY <2>3 DEF S
  <1>5. ASSUME NEW d \in Decls, NEW k \in 0..Steps
        PROVE  Settled(d, f[k]) \/ Cardinality(Places(d, f[k])) >= k + 1
    <2> DEFINE S == {m \in Nat : m \in 0..Steps =>
                         Settled(d, f[m]) \/ Cardinality(Places(d, f[m])) >= m + 1}
    <2>1. 0 \in S
      <3>1. 0 \in 0..Steps /\ f[0] \in Tables
        BY <1>1, <1>2
      <3>2. Settled(d, f[0]) \/ Cardinality(Places(d, f[0])) >= 1
        BY <3>1, NowhereIsSettled
      <3>3. 0 + 1 = 1 /\ 0 \in Nat
        OBVIOUS
      <3> QED
        BY <3>2, <3>3
    <2>2. ASSUME NEW m \in Nat, m \in S PROVE m + 1 \in S
      <3> SUFFICES ASSUME m + 1 \in 0..Steps
                   PROVE  Settled(d, f[m + 1]) \/ Cardinality(Places(d, f[m + 1])) >= (m + 1) + 1
        OBVIOUS
      <3>1. m \in 0..Steps /\ m + 1 \in 1..Steps /\ (m + 1) - 1 = m
        BY <1>2
      <3>2. f[m] \in Tables /\ f[m + 1] \in Tables /\ f[m + 1] = Further(f[m])
        BY <1>1, <3>1
      <3>3. \A s \in Schemas : Seed(s) \subseteq f[m][s] /\ f[m][s] \subseteq f[m + 1][s]
        BY <1>4, <3>1, <3>2 DEF Seeds
      <3>4. \/ Settled(d, f[m]) /\ Settled(d, f[m + 1])
            \/ Cardinality(Places(d, f[m + 1])) >= Cardinality(Places(d, f[m])) + 1
        BY <3>2, <3>3, FurtherStep
      <3>5. Settled(d, f[m]) \/ Cardinality(Places(d, f[m])) >= m + 1
        BY <2>2, <3>1
      <3>6. CASE Settled(d, f[m])
        \* What is settled stays so: the next round adds nothing of it.
        <4>1. Places(d, f[m]) = Places(d, f[m + 1])
          <5> SUFFICES ASSUME NEW x \in Places(d, f[m + 1]) PROVE x \in Places(d, f[m])
            BY <3>3 DEF Places
          <5>1. x \in Schemas \X Names /\ [decl |-> d, name |-> x[2]] \in f[m + 1][x[1]]
            BY DEF Places
          <5>2. \/ [decl |-> d, name |-> x[2]] \in Seed(x[1])
                \/ [decl |-> d, name |-> x[2]] \in Used(x[1], f[m])
            BY <3>2, <5>1 DEF Further
          <5>3. [decl |-> d, name |-> x[2]] \in f[m][x[1]]
            BY <3>3, <3>6, <5>1, <5>2 DEF Settled, SettledAt
          <5> QED
            BY <5>1, <5>3 DEF Places
        <4>2. ASSUME NEW s \in Schemas PROVE SettledAt(d, s, f[m + 1])
          <5>1. SettledAt(d, s, f[m])
            BY <3>6 DEF Settled
          <5> QED
            BY <3>2, <3>3, <4>1, <5>1, SettledStays
        <4> QED
          BY <4>2 DEF Settled
      <3>7. CASE ~Settled(d, f[m])
        <4>1. PICK c \in Nat : c = Cardinality(Places(d, f[m]))
          BY PlacesAreFinite, ScopeAssumption
        <4>2. PICK e \in Nat : e = Cardinality(Places(d, f[m + 1]))
          BY PlacesAreFinite, ScopeAssumption
        <4>3. c >= m + 1 /\ e >= c + 1
          BY <3>4, <3>5, <3>7, <4>1, <4>2
        <4>4. e >= (m + 1) + 1
          BY <4>3
        <4> QED
          BY <4>2, <4>4
      <3> QED
        BY <3>6, <3>7
    <2> HIDE DEF S
    <2>3. k \in S
      BY <1>2, <2>1, <2>2, SetInduction
    <2> QED
      BY <2>3 DEF S
  <1>6. ASSUME NEW d \in Decls PROVE Settled(d, f[Steps])
    <2>1. Cardinality(Schemas \X Names) = Steps /\ IsFiniteSet(Schemas \X Names)
      BY StepsType, FS_Product, ScopeAssumption DEF Steps
    <2>2. Places(d, f[Steps]) \in SUBSET (Schemas \X Names)
      BY DEF Places
    <2>3. Cardinality(Places(d, f[Steps])) <= Steps
      BY <2>1, <2>2, FS_Subset
    <2>4. PICK c \in Nat : c = Cardinality(Places(d, f[Steps]))
      BY PlacesAreFinite, ScopeAssumption
    <2>5. ~(c >= Steps + 1)
      BY <1>2, <2>3, <2>4
    <2> QED
      BY <1>2, <1>5, <2>4, <2>5
  <1>7. f[Steps] \in Tables /\ Good(Steps)
    BY <1>1, <1>2, <1>4
  <1>8. Closed(f[Steps])
    <2> SUFFICES ASSUME NEW s \in Schemas, NEW e \in Used(s, f[Steps]) PROVE e \in f[Steps][s]
      BY <1>7 DEF Closed, Seeds
    <2>1. e \in Entries
      BY <1>7, UsedType
    <2>2. e.decl \in Decls /\ e.name \in Names /\ e = [decl |-> e.decl, name |-> e.name]
      BY <2>1 DEF Entries
    <2> QED
      BY <1>6, <2>2 DEF Settled, SettledAt
  <1> QED
    BY <1>1, <1>7, <1>8

\* What computeExports computes in place, visiting schema after schema, is what
\* has a derivation of USE steps from a declaration, where identifiers differ in
\* more than case: nothing is missing, and nothing reaches an export around a
\* USE cycle only by itself.
THEOREM ExportsHaveDerivations == ASSUME ExactNames PROVE Spec => []ExportsDerived
  <1>1. TypeOK /\ BelowClosed /\ ExportsClosed => ExportsDerived
    <2> SUFFICES ASSUME TypeOK, BelowClosed, ExportsClosed, done PROVE exports = Derivable
      BY DEF ExportsDerived
    <2>1. exports \in Tables /\ Closed(exports)
      BY DEF TypeOK, Tables, ExportsClosed, Closed
    <2>2. /\ Derivable \in Tables /\ Closed(Derivable)
          /\ \A s \in Schemas : Derivable[s] \subseteq exports[s]
      BY <2>1, DerivableIsClosed
    <2>3. \A s \in Schemas : exports[s] \subseteq Derivable[s]
      BY <2>2 DEF BelowClosed
    <2> QED
      BY <2>1, <2>2, <2>3 DEF Tables
  <1> QED
    BY <1>1, Typing, ExportsAreLeast, ExportsAreClosed, PTL

----------------------------------------------------------------------------
(* What the Problems view shows.  The table of a set of schemas that reads  *)
(* only itself depends on nothing else: the visits to other schemas leave   *)
(* it alone, and where the rounds come to rest there is determined by the   *)
(* specifications of the set.  So clashes shown for earlier trees are right *)
(* as long as no schema of the set has changed since.                       *)

SpecTables == [Schemas -> SUBSET Specifications]

\* The operators of the scopes, for any specifications and any table.
UsesOf(w, s) == {p \in w[s] : p.mode = "use"}

UsedIn(w, s, table) ==
    UNION {UNION {Brought(table[t], p) : t \in ResolveTarget(s, p.schema) \ {s}} : p \in UsesOf(w, s)}

PoolIn(table, t, mode) ==
    IF mode = "use" THEN table[t] ELSE Declared(t, ReferenceableKinds) \cup table[t]

VisibleIn(w, s, table) ==
    Declared(s, Kinds) \cup
    UNION {UNION {Brought(PoolIn(table, t, p.mode), p) : t \in ResolveTarget(s, p.schema)} : p \in w[s]}

ClashesOf(w, s, table) ==
    LET scope == VisibleIn(w, s, table)
    IN  {ScopeKey(s, e) : e \in {f \in scope : \E g \in scope :
                                    f.decl # g.decl /\ ScopeKey(s, f) = ScopeKey(s, g)}}

ReadsItselfIn(w, own) == \A s \in own : \A p \in w[s] : ResolveTarget(s, p.schema) \subseteq own

\* A moment of the rounds, seen from a set of schemas: the schema visited next
\* and the exports of the set.  A round follows the round before.
PartTables(own) == [own -> SUBSET Entries]
Moments(own) == Schemas \X PartTables(own)
Beginning(own) == <<1, [s \in own |-> Seed(s)]>>
After(a) == IF a = N THEN 1 ELSE a + 1
Extended(w, own, a, t) == IF a \in own THEN [t EXCEPT ![a] = @ \cup UsedIn(w, a, t)] ELSE t
Visited(w, own, x) == <<After(x[1]), Extended(w, own, x[1], x[2])>>

Steady(w, own, S) == \A x \in S : Visited(w, own, x) \in S

\* The moments that come, however often the schemas are visited.
Comes(w, own, x) ==
    \A S \in SUBSET Moments(own) : Beginning(own) \in S /\ Steady(w, own, S) => x \in S

\* Visits to the set add nothing any more.
Stable(w, own, t) == \A s \in own : UsedIn(w, s, t) \subseteq t[s]

LEMMA SeenInIndex ==
    /\ \A s : Used(s, exports) = UsedIn(built, s, exports)
    /\ \A s : Clashes(s) = ClashesOf(built, s, exports)
    /\ \A own : ReadsItself(own) <=> ReadsItselfIn(built, own)
  <1>1. \A s : Used(s, exports) = UsedIn(built, s, exports)
    BY DEF Used, Uses, UsedIn, UsesOf
  <1>2. \A t, mode : Pool(t, mode) = PoolIn(exports, t, mode)
    BY DEF Pool, PoolIn, Referenceable
  <1>3. \A s : Visible(s) = VisibleIn(built, s, exports)
    BY <1>2 DEF Visible, VisibleIn
  <1>4. \A s : Clashes(s) = ClashesOf(built, s, exports)
    BY <1>3 DEF Clashes, ClashesOf
  <1>5. \A own : ReadsItself(own) <=> ReadsItselfIn(built, own)
    BY DEF ReadsItself, ReadsItselfIn
  <1> QED
    BY <1>1, <1>4, <1>5

\* A scope of the set looks at the specifications and the exports of the set.
LEMMA UsedOfPart ==
    ASSUME NEW own \in SUBSET Schemas, NEW w, NEW v, ReadsItselfIn(w, own),
           \A s \in own : w[s] = v[s],
           NEW table, NEW t, \A s \in own : table[s] = t[s], NEW s \in own
    PROVE  UsedIn(w, s, table) = UsedIn(v, s, t)
  <1>1. UsesOf(w, s) = UsesOf(v, s)
    BY DEF UsesOf
  <1>2. ASSUME NEW p \in UsesOf(w, s), NEW r \in ResolveTarget(s, p.schema) \ {s}
        PROVE  Brought(table[r], p) = Brought(t[r], p)
    <2>1. r \in own
      BY DEF ReadsItselfIn, UsesOf
    <2> QED
      BY <2>1
  <1>3. ASSUME NEW p \in UsesOf(w, s)
        PROVE  UNION {Brought(table[r], p) : r \in ResolveTarget(s, p.schema) \ {s}}
             = UNION {Brought(t[r], p) : r \in ResolveTarget(s, p.schema) \ {s}}
    BY <1>2
  <1> QED
    BY <1>1, <1>3 DEF UsedIn

LEMMA ClashesOfPart ==
    ASSUME NEW own \in SUBSET Schemas, NEW w, NEW v, ReadsItselfIn(w, own),
           \A s \in own : w[s] = v[s],
           NEW table, NEW t, \A s \in own : table[s] = t[s], NEW s \in own
    PROVE  ClashesOf(w, s, table) = ClashesOf(v, s, t)
  <1>1. w[s] = v[s]
    OBVIOUS
  <1>2. ASSUME NEW p \in w[s], NEW r \in ResolveTarget(s, p.schema)
        PROVE  Brought(PoolIn(table, r, p.mode), p) = Brought(PoolIn(t, r, p.mode), p)
    <2>1. r \in own
      BY DEF ReadsItselfIn
    <2>2. PoolIn(table, r, p.mode) = PoolIn(t, r, p.mode)
      BY <2>1 DEF PoolIn
    <2> QED
      BY <2>2
  <1>3. ASSUME NEW p \in w[s]
        PROVE  UNION {Brought(PoolIn(table, r, p.mode), p) : r \in ResolveTarget(s, p.schema)}
             = UNION {Brought(PoolIn(t, r, p.mode), p) : r \in ResolveTarget(s, p.schema)}
    BY <1>2
  <1>4. VisibleIn(w, s, table) = VisibleIn(v, s, t)
    BY <1>1, <1>3 DEF VisibleIn
  <1> QED
    BY <1>4 DEF ClashesOf

LEMMA UsedInType ==
    ASSUME NEW own \in SUBSET Schemas, NEW w \in SpecTables, ReadsItselfIn(w, own),
           NEW t \in PartTables(own), NEW s \in own
    PROVE  UsedIn(w, s, t) \subseteq Entries
  <1> SUFFICES ASSUME NEW p \in UsesOf(w, s), NEW r \in ResolveTarget(s, p.schema) \ {s}
               PROVE  Brought(t[r], p) \subseteq Entries
    BY DEF UsedIn
  <1>1. s \in Schemas /\ w[s] \in SUBSET Specifications /\ p \in w[s]
    BY DEF SpecTables, UsesOf
  <1>2. r \in own
    BY <1>1 DEF ReadsItselfIn
  <1>3. p \in Specifications /\ t[r] \in SUBSET Entries
    BY <1>1, <1>2 DEF PartTables
  <1> QED
    BY <1>3, BroughtType

LEMMA VisitedType ==
    ASSUME NEW own \in SUBSET Schemas, NEW w \in SpecTables, ReadsItselfIn(w, own),
           NEW x \in Moments(own)
    PROVE  Visited(w, own, x) \in Moments(own)
  <1>1. x[1] \in Schemas /\ x[2] \in PartTables(own)
    BY DEF Moments
  <1>2. After(x[1]) \in Schemas
    BY <1>1, ScopeAssumption DEF After, Schemas
  <1>3. Extended(w, own, x[1], x[2]) \in PartTables(own)
    <2>1. CASE x[1] \in own
      <3>1. UsedIn(w, x[1], x[2]) \subseteq Entries
        BY <1>1, <2>1, UsedInType
      <3> QED
        BY <1>1, <2>1, <3>1 DEF Extended, PartTables
    <2>2. CASE x[1] \notin own
      BY <1>1, <2>2 DEF Extended
    <2> QED
      BY <2>1, <2>2
  <1> QED
    BY <1>2, <1>3 DEF Visited, Moments

\* What comes depends on the specifications of the set only.
LEMMA ComesFromPart ==
    ASSUME NEW own \in SUBSET Schemas, NEW w, NEW v, ReadsItselfIn(w, own),
           \A s \in own : w[s] = v[s], NEW x, Comes(w, own, x)
    PROVE  Comes(v, own, x)
  <1>1. ASSUME NEW y PROVE Visited(w, own, y) = Visited(v, own, y)
    <2>1. CASE y[1] \in own
      <3>1. UsedIn(w, y[1], y[2]) = UsedIn(v, y[1], y[2])
        BY <2>1, UsedOfPart
      <3> QED
        BY <3>1 DEF Visited, Extended
    <2>2. CASE y[1] \notin own
      BY <2>2 DEF Visited, Extended
    <2> QED
      BY <2>1, <2>2
  <1>2. ASSUME NEW S, Steady(v, own, S) PROVE Steady(w, own, S)
    BY <1>1, <1>2 DEF Steady
  <1> QED
    BY <1>2 DEF Comes

\* A visit leads from what comes to what comes.
LEMMA ComesNext ==
    ASSUME NEW own, NEW w, NEW x, Comes(w, own, x)
    PROVE  Comes(w, own, Visited(w, own, x))
  BY DEF Comes, Steady

\* Rounds that have come to rest stay where they are.
LEMMA RestIsSteady ==
    ASSUME NEW own \in SUBSET Schemas, NEW w, NEW t \in PartTables(own), Stable(w, own, t)
    PROVE  Steady(w, own, Schemas \X {t})
  <1> SUFFICES ASSUME NEW x \in Schemas \X {t} PROVE Visited(w, own, x) \in Schemas \X {t}
    BY DEF Steady
  <1>1. x[1] \in Schemas /\ x[2] = t
    OBVIOUS
  <1>2. After(x[1]) \in Schemas
    BY <1>1, ScopeAssumption DEF After, Schemas
  <1>3. Extended(w, own, x[1], t) = t
    <2>1. CASE x[1] \in own
      <3>1. t[x[1]] \cup UsedIn(w, x[1], t) = t[x[1]]
        BY <2>1 DEF Stable
      <3> QED
        BY <2>1, <3>1 DEF Extended, PartTables
    <2>2. CASE x[1] \notin own
      BY <2>2 DEF Extended
    <2> QED
      BY <2>1, <2>2
  <1> QED
    BY <1>1, <1>2, <1>3 DEF Visited

\* They come to rest in one place.  For what lies before one such moment x,
\* and x at rest, are steady together; so another moment at rest lies before x
\* or is x at rest, and what lies before x and is at rest is x.
LEMMA OneRest ==
    ASSUME NEW own \in SUBSET Schemas, NEW w \in SpecTables, ReadsItselfIn(w, own),
           NEW t \in PartTables(own), Comes(w, own, <<1, t>>), Stable(w, own, t),
           NEW u \in PartTables(own), Comes(w, own, <<1, u>>), Stable(w, own, u)
    PROVE  t = u
  <1> DEFINE Rest(v) == Schemas \X {v}
             Leads(y, x) == \A S \in SUBSET Moments(own) : y \in S /\ Steady(w, own, S) => x \in S
             Before(x) == {y \in Moments(own) : Leads(y, x)}
  <1>1. Steady(w, own, Rest(t)) /\ Steady(w, own, Rest(u))
    BY RestIsSteady
  <1>2. Rest(t) \in SUBSET Moments(own) /\ Rest(u) \in SUBSET Moments(own)
    BY DEF Moments
  <1>3. 1 \in Schemas
    BY ScopeAssumption DEF Schemas
  <1>4. <<1, t>> \in Rest(t) /\ <<1, u>> \in Rest(u)
    BY <1>3
  <1> DEFINE All == Before(<<1, t>>) \cup Rest(t)
  <1>5. ASSUME NEW y \in All PROVE Visited(w, own, y) \in All
    <2>1. CASE y \in Rest(t)
      BY <1>1, <2>1 DEF Steady
    <2>2. CASE y \in Before(<<1, t>>)
      <3>1. y \in Moments(own) /\ Leads(y, <<1, t>>)
        BY <2>2
      <3>2. PICK z \in Moments(own) : z = Visited(w, own, y)
        BY <3>1, VisitedType
      <3>3. CASE Leads(z, <<1, t>>)
        BY <3>2, <3>3
      <3>4. CASE ~Leads(z, <<1, t>>)
        <4>1. PICK S \in SUBSET Moments(own) : z \in S /\ Steady(w, own, S) /\ <<1, t>> \notin S
          BY <3>4
        <4>2. Steady(w, own, S \cup {y})
          BY <3>2, <4>1 DEF Steady
        <4>3. S \cup {y} \in SUBSET Moments(own) /\ y \in S \cup {y}
          BY <3>1
        <4>4. <<1, t>> \in S \cup {y}
          BY <3>1, <4>2, <4>3
        <4>5. y = <<1, t>>
          BY <4>1, <4>4
        <4>6. y \in Rest(t)
          BY <1>4, <4>5
        <4> QED
          BY <1>1, <4>6 DEF Steady
      <3> QED
        BY <3>3, <3>4
    <2> HIDE DEF Rest, Before
    <2> QED
      BY <2>1, <2>2
  <1>6. Steady(w, own, All)
    BY <1>5 DEF Steady
  <1>7. All \in SUBSET Moments(own)
    BY <1>2
  <1>8. Beginning(own) \in All
    <2>1. Beginning(own) \in Moments(own)
      <3>1. [s \in own |-> Seed(s)] \in PartTables(own)
        BY SeedType DEF PartTables
      <3> QED
        BY <1>3, <3>1 DEF Beginning, Moments
    <2>2. Leads(Beginning(own), <<1, t>>)
      BY DEF Comes
    <2> QED
      BY <2>1, <2>2
  <1>9. <<1, u>> \in All
    <2> HIDE DEF All
    <2> QED
      BY <1>6, <1>7, <1>8 DEF Comes
  <1>10. CASE <<1, u>> \in Rest(t)
    BY <1>10
  <1>11. CASE <<1, u>> \in Before(<<1, t>>)
    <2>1. Leads(<<1, u>>, <<1, t>>)
      BY <1>11
    <2>2. <<1, t>> \in Rest(u)
      <3> HIDE DEF Rest
      <3> QED
        BY <1>1, <1>2, <1>4, <2>1
    <2> QED
      BY <2>2
  <1> QED
    BY <1>9, <1>10, <1>11

\* Seen from any set of schemas that reads only itself, the index is where the
\* rounds over this set come.
ReachInv ==
    \A own \in SUBSET Schemas :
        ReadsItselfIn(built, own) =>
            Comes(built, own, <<IF at = N + 1 THEN 1 ELSE at, Restrict(exports, own)>>)

LEMMA ReachBegins ==
    ASSUME at = 1, exports = [s \in Schemas |-> Seed(s)]
    PROVE  ReachInv
  <1> SUFFICES ASSUME NEW own \in SUBSET Schemas
               PROVE  Comes(built, own, <<IF at = N + 1 THEN 1 ELSE at, Restrict(exports, own)>>)
    BY DEF ReachInv
  <1>1. Restrict(exports, own) = [s \in own |-> Seed(s)]
    BY DEF Restrict
  <1>2. (IF at = N + 1 THEN 1 ELSE at) = 1
    OBVIOUS
  <1> QED
    BY <1>1, <1>2 DEF Comes, Beginning

LEMMA ReachVisit == IInv /\ ReachInv /\ VisitSchema => ReachInv'
  <1> SUFFICES ASSUME IInv, ReachInv, VisitSchema, NEW own \in SUBSET Schemas,
                      ReadsItselfIn(built, own)'
               PROVE  Comes(built, own, <<IF at = N + 1 THEN 1 ELSE at, Restrict(exports, own)>>)'
    BY DEF ReachInv
  <1>1. /\ at \in Schemas /\ at' = at + 1 /\ built' = built
        /\ exports' = [exports EXCEPT ![at] = @ \cup Used(at, exports)]
        /\ exports \in [Schemas -> SUBSET Entries]
    BY DEF VisitSchema, IInv, TypeOK
  <1>2. ReadsItselfIn(built, own)
    BY <1>1 DEF ReadsItselfIn
  <1> DEFINE here == <<at, Restrict(exports, own)>>
  <1>3. at # N + 1 /\ (IF at' = N + 1 THEN 1 ELSE at') = After(at)
    BY <1>1, ScopeAssumption DEF Schemas, After
  <1>4. Comes(built, own, here)
    BY <1>2, <1>3 DEF ReachInv
  <1>5. Restrict(exports', own) = Extended(built, own, at, Restrict(exports, own))
    <2>1. CASE at \in own
      <3>1. Used(at, exports) = UsedIn(built, at, exports)
        BY SeenInIndex
      <3>2. \A s \in own : exports[s] = Restrict(exports, own)[s]
        BY DEF Restrict
      <3>3. UsedIn(built, at, exports) = UsedIn(built, at, Restrict(exports, own))
        BY <1>2, <2>1, <3>2, UsedOfPart
      <3> QED
        BY <1>1, <2>1, <3>1, <3>3 DEF Restrict, Extended
    <2>2. CASE at \notin own
      BY <1>1, <2>2 DEF Restrict, Extended
    <2> QED
      BY <2>1, <2>2
  <1>6. Visited(built, own, here) = <<After(at), Restrict(exports', own)>>
    BY <1>5 DEF Visited
  <1>7. Comes(built, own, Visited(built, own, here))
    <2> HIDE DEF here
    <2> QED
      BY <1>4, ComesNext
  <1> QED
    BY <1>1, <1>3, <1>6, <1>7 DEF Comes, Steady, Visited, Extended, UsedIn, UsesOf, Beginning, Moments

LEMMA ReachStep == IInv /\ ReachInv /\ [Next]_vars => ReachInv'
  <1> SUFFICES ASSUME IInv, ReachInv, [Next]_vars PROVE ReachInv'
    OBVIOUS
  <1>1. CASE Build
    <2>1. (at = 1 /\ exports = [s \in Schemas |-> Seed(s)])'
      BY <1>1 DEF Build, Seed
    <2> QED
      BY <2>1, ReachBegins, PTL
  <1>2. CASE VisitSchema
    BY <1>2, ReachVisit
  <1>3. CASE EndRound \/ UNCHANGED <<built, exports, at>>
    <2>1. UNCHANGED <<built, exports>>
      BY <1>3 DEF EndRound
    <2>2. (IF at' = N + 1 THEN 1 ELSE at') = (IF at = N + 1 THEN 1 ELSE at)
      BY <1>3 DEF EndRound
    <2>3. ASSUME NEW own PROVE ReadsItselfIn(built, own)' <=> ReadsItselfIn(built, own)
      BY <2>1 DEF ReadsItselfIn
    <2>4. ASSUME NEW own, NEW x PROVE Comes(built', own, x) <=> Comes(built, own, x)
      BY <2>1
    <2> QED
      BY <2>1, <2>2, <2>3, <2>4 DEF ReachInv
  <1>4. Build \/ VisitSchema \/ EndRound \/ UNCHANGED <<built, exports, at>>
    BY DEF Next, vars, Edit, Save, Validate, Ask, index
  <1> QED
    BY <1>1, <1>2, <1>3, <1>4

\* The index is out of date only while a document waits for validation.
DueInv == IF due THEN pending # {} ELSE built = specs

LEMMA DueStep == DueInv /\ [Next]_vars => DueInv'
  <1> SUFFICES ASSUME DueInv, [Next]_vars PROVE DueInv'
    OBVIOUS
  <1>1. CASE Build
    BY <1>1 DEF Build, updates, DueInv
  <1>2. CASE VisitSchema \/ EndRound \/ (\E s \in Schemas : Ask(s)) \/ UNCHANGED vars
    <2>1. UNCHANGED <<due, pending, built, specs>>
      BY <1>2 DEF VisitSchema, EndRound, Ask, index, updates, vars
    <2> QED
      BY <2>1 DEF DueInv
  <1>3. ASSUME NEW d \in Documents, Edit(d) \/ Save(d) PROVE DueInv'
    BY <1>3 DEF Edit, Save, DueInv
  <1>4. ASSUME NEW d \in Documents, Validate(d) PROVE DueInv'
    BY <1>4 DEF Validate, index, DueInv
  <1> QED
    BY <1>1, <1>2, <1>3, <1>4 DEF Next

\* c are the clashes of s under these specifications: those of the table at
\* rest of any set that reads only itself.
ClashesAre(w, s, c) ==
    \A own \in SUBSET Schemas : s \in own /\ ReadsItselfIn(w, own) =>
        \A t \in PartTables(own) :
            Comes(w, own, <<1, t>>) /\ Stable(w, own, t) => c = ClashesOf(w, s, t)

\* When the rounds are over, the part of the table that a set has is at rest.
LEMMA DoneIsRest ==
    ASSUME IInv, ReachInv, ExportsClosed, done,
           NEW own \in SUBSET Schemas, ReadsItselfIn(built, own)
    PROVE  /\ Restrict(exports, own) \in PartTables(own)
           /\ Comes(built, own, <<1, Restrict(exports, own)>>)
           /\ Stable(built, own, Restrict(exports, own))
           /\ \A s \in own : exports[s] = Restrict(exports, own)[s]
  <1>1. \A s \in own : exports[s] = Restrict(exports, own)[s]
    BY DEF Restrict
  <1>2. Restrict(exports, own) \in PartTables(own)
    BY DEF Restrict, PartTables, IInv, TypeOK
  <1>3. Comes(built, own, <<1, Restrict(exports, own)>>)
    BY DEF ReachInv, IInv, VisitedInv
  <1>4. Stable(built, own, Restrict(exports, own))
    <2> SUFFICES ASSUME NEW s \in own
                 PROVE  UsedIn(built, s, Restrict(exports, own)) \subseteq Restrict(exports, own)[s]
      BY DEF Stable
    <2>1. Used(s, exports) \subseteq exports[s]
      BY DEF ExportsClosed
    <2>2. Used(s, exports) = UsedIn(built, s, exports)
      BY SeenInIndex
    <2>3. UsedIn(built, s, exports) = UsedIn(built, s, Restrict(exports, own))
      BY <1>1, UsedOfPart
    <2> QED
      BY <1>1, <2>1, <2>2, <2>3
  <1> QED
    BY <1>1, <1>2, <1>3, <1>4

LEMMA DoneClashes ==
    ASSUME IInv, ReachInv, ExportsClosed, done, NEW s \in Schemas
    PROVE  ClashesAre(built, s, Clashes(s))
  <1> SUFFICES ASSUME NEW own \in SUBSET Schemas, s \in own, ReadsItselfIn(built, own),
                      NEW t \in PartTables(own), Comes(built, own, <<1, t>>), Stable(built, own, t)
               PROVE  Clashes(s) = ClashesOf(built, s, t)
    BY DEF ClashesAre
  <1> DEFINE part == Restrict(exports, own)
  <1>1. /\ part \in PartTables(own) /\ Comes(built, own, <<1, part>>) /\ Stable(built, own, part)
        /\ \A r \in own : exports[r] = part[r]
    BY DoneIsRest
  <1>2. built \in SpecTables
    BY DEF IInv, TypeOK, SpecTables
  <1> HIDE DEF part
  <1>3. part = t
    BY <1>1, <1>2, OneRest
  <1>4. ClashesOf(built, s, exports) = ClashesOf(built, s, part)
    BY <1>1, ClashesOfPart
  <1> QED
    BY <1>3, <1>4, SeenInIndex

\* A schema of a validated document shows the clashes under specifications that
\* its document still has, and so have the saved documents it refers to: an edit
\* of one of those puts it down when it is saved.
ShownInv ==
    \A s \in Schemas : Document[s] \notin pending =>
        \E w \in SpecTables :
            /\ ClashesAre(w, s, shown[s])
            /\ \A t \in Schemas : w[t] # specs[t] =>
                   /\ Document[t] # Document[s]
                   /\ Document[t] \in unsaved \/ ~IsAffected(Document[s], Document[t])

LEMMA EditShown == ASSUME IInv, ShownInv, NEW d \in Documents, Edit(d) PROVE ShownInv'
  <1>1. /\ pending' = pending \cup {d} /\ unsaved' = unsaved \cup {d} /\ shown' = shown
        /\ \A s \in Schemas : Document[s] # d => specs'[s] = specs[s]
    BY DEF Edit
  <1>2. ASSUME NEW e, e # d, NEW f PROVE IsAffected(e, f)' <=> IsAffected(e, f)
    BY <1>1, <1>2 DEF IsAffected
  <1> SUFFICES ASSUME NEW s \in Schemas, Document[s] \notin pending'
               PROVE  \E w \in SpecTables :
                          /\ ClashesAre(w, s, shown'[s])
                          /\ \A t \in Schemas : w[t] # specs'[t] =>
                                 /\ Document[t] # Document[s]
                                 /\ Document[t] \in unsaved' \/ ~IsAffected(Document[s], Document[t])'
    BY DEF ShownInv
  <1>3. Document[s] # d /\ Document[s] \notin pending
    BY <1>1
  <1>4. PICK w \in SpecTables :
            /\ ClashesAre(w, s, shown[s])
            /\ \A t \in Schemas : w[t] # specs[t] =>
                   /\ Document[t] # Document[s]
                   /\ Document[t] \in unsaved \/ ~IsAffected(Document[s], Document[t])
    BY <1>3 DEF ShownInv
  <1>5. ASSUME NEW t \in Schemas, w[t] # specs'[t]
        PROVE  /\ Document[t] # Document[s]
               /\ Document[t] \in unsaved' \/ ~IsAffected(Document[s], Document[t])'
    <2>1. CASE Document[t] = d
      BY <1>1, <1>3, <2>1
    <2>2. CASE Document[t] # d
      <3>1. w[t] # specs[t]
        BY <1>1, <1>5, <2>2
      <3>2. /\ Document[t] # Document[s]
            /\ Document[t] \in unsaved \/ ~IsAffected(Document[s], Document[t])
        BY <1>4, <3>1
      <3> QED
        BY <1>1, <1>2, <1>3, <3>2
    <2> QED
      BY <2>1, <2>2
  <1> QED
    BY <1>1, <1>4, <1>5

LEMMA SaveShown == ASSUME IInv, ShownInv, NEW d \in Documents, Save(d) PROVE ShownInv'
  <1>1. /\ pending' = pending \cup {d} \cup {e \in Documents : IsAffected(e, d)}
        /\ unsaved' = unsaved \ {d} /\ shown' = shown /\ specs' = specs
    BY DEF Save
  <1>2. ASSUME NEW e, NEW f PROVE IsAffected(e, f)' <=> IsAffected(e, f)
    BY <1>1 DEF IsAffected
  <1> SUFFICES ASSUME NEW s \in Schemas, Document[s] \notin pending'
               PROVE  \E w \in SpecTables :
                          /\ ClashesAre(w, s, shown'[s])
                          /\ \A t \in Schemas : w[t] # specs'[t] =>
                                 /\ Document[t] # Document[s]
                                 /\ Document[t] \in unsaved' \/ ~IsAffected(Document[s], Document[t])'
    BY DEF ShownInv
  <1>3. Document[s] \in Documents
    BY DEF Documents
  <1>4. Document[s] # d /\ Document[s] \notin pending /\ ~IsAffected(Document[s], d)
    BY <1>1, <1>3
  <1>5. PICK w \in SpecTables :
            /\ ClashesAre(w, s, shown[s])
            /\ \A t \in Schemas : w[t] # specs[t] =>
                   /\ Document[t] # Document[s]
                   /\ Document[t] \in unsaved \/ ~IsAffected(Document[s], Document[t])
    BY <1>4 DEF ShownInv
  <1>6. ASSUME NEW t \in Schemas, w[t] # specs'[t]
        PROVE  /\ Document[t] # Document[s]
               /\ Document[t] \in unsaved' \/ ~IsAffected(Document[s], Document[t])'
    BY <1>1, <1>2, <1>4, <1>5, <1>6
  <1> QED
    BY <1>1, <1>5, <1>6

LEMMA ValidateShown ==
    ASSUME IInv, CacheInv, ReachInv, ExportsClosed, DueInv, ShownInv,
           NEW d \in Documents, Validate(d)
    PROVE  ShownInv'
  <1>1. /\ done /\ ~due /\ pending' = pending \ {d} /\ unsaved' = unsaved /\ specs' = specs
        /\ shown' = [s \in Schemas |-> IF Document[s] = d THEN ClashesIn(s) ELSE shown[s]]
    BY DEF Validate
  <1>2. ASSUME NEW e, NEW f PROVE IsAffected(e, f)' <=> IsAffected(e, f)
    BY <1>1 DEF IsAffected
  <1> SUFFICES ASSUME NEW s \in Schemas, Document[s] \notin pending'
               PROVE  \E w \in SpecTables :
                          /\ ClashesAre(w, s, shown'[s])
                          /\ \A t \in Schemas : w[t] # specs'[t] =>
                                 /\ Document[t] # Document[s]
                                 /\ Document[t] \in unsaved' \/ ~IsAffected(Document[s], Document[t])'
    BY DEF ShownInv
  <1>3. CASE Document[s] = d
    <2>1. built = specs /\ built \in SpecTables
      BY <1>1 DEF DueInv, IInv, TypeOK, SpecTables
    <2>2. ClashesIn(s) = Clashes(s)
      BY DEF ClashesIn, CacheInv
    <2>3. ClashesAre(built, s, Clashes(s))
      BY <1>1, DoneClashes
    <2>4. ClashesAre(built, s, shown'[s])
      BY <1>1, <1>3, <2>2, <2>3
    <2> QED
      BY <1>1, <2>1, <2>4
  <1>4. CASE Document[s] # d
    <2>1. Document[s] \notin pending /\ shown'[s] = shown[s]
      BY <1>1, <1>4
    <2>2. PICK w \in SpecTables :
              /\ ClashesAre(w, s, shown[s])
              /\ \A t \in Schemas : w[t] # specs[t] =>
                     /\ Document[t] # Document[s]
                     /\ Document[t] \in unsaved \/ ~IsAffected(Document[s], Document[t])
      BY <2>1 DEF ShownInv
    <2> QED
      BY <1>1, <1>2, <2>1, <2>2
  <1> QED
    BY <1>3, <1>4

LEMMA ShownStep ==
    IInv /\ CacheInv /\ ReachInv /\ ExportsClosed /\ DueInv /\ ShownInv /\ [Next]_vars => ShownInv'
  <1> SUFFICES ASSUME IInv, CacheInv, ReachInv, ExportsClosed, DueInv, ShownInv, [Next]_vars
               PROVE  ShownInv'
    OBVIOUS
  <1>1. CASE UNCHANGED <<specs, pending, unsaved, shown>>
    <2>1. ASSUME NEW e, NEW f PROVE IsAffected(e, f)' <=> IsAffected(e, f)
      BY <1>1 DEF IsAffected
    <2> QED
      BY <1>1, <2>1 DEF ShownInv
  <1>2. ASSUME NEW d \in Documents, Edit(d) \/ Save(d) \/ Validate(d) PROVE ShownInv'
    BY <1>2, EditShown, SaveShown, ValidateShown
  <1>3. \/ UNCHANGED <<specs, pending, unsaved, shown>>
        \/ \E d \in Documents : Edit(d) \/ Save(d) \/ Validate(d)
    BY DEF Next, vars, Build, VisitSchema, EndRound, Ask, updates, index
  <1> QED
    BY <1>1, <1>2, <1>3

LEMMA AtRestShown ==
    ASSUME IInv, ReachInv, ExportsClosed, DueInv, ShownInv
    PROVE  NamedClashesAreShown
  <1> SUFFICES ASSUME AtRest, NEW own \in SUBSET Schemas, ReadsItself(own), NEW s \in own,
                      \A t \in own : Document[t] = Document[s]
                                     \/ IsAffected(Document[s], Document[t])
               PROVE  shown[s] = Clashes(s)
    BY DEF NamedClashesAreShown
  <1>1. done /\ pending = {} /\ unsaved = {} /\ built = specs
    BY DEF AtRest, DueInv
  <1>2. PICK w \in SpecTables :
            /\ ClashesAre(w, s, shown[s])
            /\ \A t \in Schemas : w[t] # specs[t] =>
                   /\ Document[t] # Document[s]
                   /\ Document[t] \in unsaved \/ ~IsAffected(Document[s], Document[t])
    BY <1>1 DEF ShownInv
  <1>3. \A t \in own : built[t] = w[t]
    BY <1>1, <1>2
  <1>4. ReadsItselfIn(built, own)
    BY SeenInIndex
  <1>5. ReadsItselfIn(w, own)
    BY <1>3, <1>4 DEF ReadsItselfIn
  <1>6. PICK t \in PartTables(own) :
            /\ Comes(built, own, <<1, t>>) /\ Stable(built, own, t)
            /\ \A r \in own : exports[r] = t[r]
    BY <1>1, <1>4, DoneIsRest
  <1>7. Comes(w, own, <<1, t>>)
    BY <1>3, <1>4, <1>6, ComesFromPart
  <1>8. Stable(w, own, t)
    <2> SUFFICES ASSUME NEW r \in own PROVE UsedIn(w, r, t) \subseteq t[r]
      BY DEF Stable
    <2>1. UsedIn(built, r, t) = UsedIn(w, r, t)
      BY <1>3, <1>4, UsedOfPart
    <2> QED
      BY <1>6, <2>1 DEF Stable
  <1>9. shown[s] = ClashesOf(w, s, t)
    BY <1>2, <1>5, <1>7, <1>8 DEF ClashesAre
  <1>10. ClashesOf(built, s, exports) = ClashesOf(w, s, t)
    BY <1>3, <1>4, <1>6, ClashesOfPart
  <1> QED
    BY <1>9, <1>10, SeenInIndex

\* Whatever edits, saves, builds, validations and commands came, in whatever
\* order: when every document is saved and validated, the Problems view shows
\* the clashes of a schema whose scope reads only its own document and documents
\* that its document refers to, though a save puts down no other document
\* (shouldRelink, checkDuplicateInterfacedDeclarations, clashesIn).
THEOREM NamedClashesShown == Spec => []NamedClashesAreShown
  <1>1. Init => CacheInv /\ DueInv /\ ShownInv
    <2>1. Init => CacheInv /\ DueInv
      BY DEF Init, CacheInv, DueInv
    <2>2. Init => ShownInv
      BY DEF Init, ShownInv, Documents
    <2> QED
      BY <2>1, <2>2
  <1>2. Init => ReachInv
    BY ReachBegins DEF Init
  <1>3. Spec => [](IInv /\ CacheInv /\ ReachInv /\ DueInv)
    BY <1>1, <1>2, InitInv, StepInv, CacheStep, ReachStep, DueStep, PTL DEF Spec
  <1>4. Spec => []ShownInv
    BY <1>1, <1>3, ExportsAreClosed, ShownStep, PTL DEF Spec
  <1>5. IInv /\ ReachInv /\ ExportsClosed /\ DueInv /\ ShownInv => NamedClashesAreShown
    BY AtRestShown
  <1> QED
    BY <1>3, <1>4, <1>5, ExportsAreClosed, PTL

=============================================================================

------------------------ MODULE TypeContainer_proofs ------------------------
(***************************************************************************)
(* What the type container keeps for every workspace: the levels above and *)
(* below an entity, its graph, its supertypes and subtypes, what a schema  *)
(* sees, and from these the attributes of an entity, for any number of     *)
(* schemas and declarations and any SUBTYPE OF clauses, cyclic ones        *)
(* included.  The walks are recursive functions; what each of them returns *)
(* is proved by induction over what it has not visited, and compared with  *)
(* the least set that is closed under the relation it walks.  The last     *)
(* parts are about the linker, which runs over the container - each of its *)
(* steps is one of the container's or changes none of its state, and what  *)
(* its scopes answer is the declaration the case rule puts first - and     *)
(* about what attributes hold: what their types reach.                     *)
(***************************************************************************)
EXTENDS ReferenceScopes, DataLemmas, TLAPS

\* The theorems are about a container that answers no request while it is built.
Serial == RequestsDuringBuild = FALSE

----------------------------------------------------------------------------
(* Closures *)

\* The recursion in Reached computes the closure.
LEMMA ReachedIsClosure ==
    ASSUME NEW D, IsFiniteSet(D), NEW next \in [D -> SUBSET D], NEW x \in D
    PROVE  Reached(next, x) = Closure(next, next[x])
  <1> DEFINE F == CHOOSE grow : IsGrowth(grow, next)
  <1>1. IsGrowth(F, next)
    BY ClosureIsGrowth
  <1>2. Reached(next, x) = F[next[x]]
    BY DEF Reached, IsGrowth, Onward
  <1> HIDE DEF F
  <1> QED
    BY <1>1, <1>2, GrowthIsClosure

----------------------------------------------------------------------------
(* Levels *)

LEMMA AboveAndBelow ==
    ASSUME NEW D, NEW above, NEW below, NEW n, NEW E, NEW V, NEW F,
           BothWays(D, above, below, n, E, V, F)
    PROVE  WhatBothWaysMake(above, below, n, E, F)
  <1> USE DEF BothWays
  <1>1. /\ E \in Seq(SUBSET D) /\ E # <<>> /\ E[1] = {n}
        /\ F \in Seq(SUBSET D) /\ F # <<>> /\ F[1] = {n}
    BY DEF Levelled
  <1>2. /\ Tail(E) \in Seq(SUBSET D) /\ <<{n}>> \o Tail(E) = E
        /\ Len(E) \in Nat \ {0} /\ Len(Tail(E)) = Len(E) - 1
        /\ \A i \in 1..(Len(E) - 1) : Tail(E)[i] = E[i + 1]
    <2> HIDE DEF Levelled
    <2> QED
      BY <1>1, FirstAndRest
  <1>3. /\ Tail(F) \in Seq(SUBSET D) /\ <<{n}>> \o Tail(F) = F
        /\ Len(F) \in Nat \ {0} /\ Len(Tail(F)) = Len(F) - 1
        /\ \A i \in 1..(Len(F) - 1) : Tail(F)[i] = F[i + 1]
    BY <1>1, FirstAndRest
  <1>4. V \in SUBSET D /\ \A m : m \in V <=> \E i \in 1..(Len(E) - 1) : m \in E[i + 1]
    <2>1. PICK t \in Seq(SUBSET D) : t = Tail(E)
      BY <1>2
    <2>2. V \in SUBSET D /\ \A m : m \in V <=> \E i \in 1..Len(t) : m \in t[i]
      BY <2>1, UnionOfLevels
    <2>3. Len(t) = Len(E) - 1 /\ \A i \in 1..(Len(E) - 1) : t[i] = E[i + 1]
      BY <1>2, <2>1
    <2> QED
      BY <2>2, <2>3
  <1>5. /\ UNION Range(E) \in SUBSET D /\ \A m : m \in UNION Range(E) <=> \E i \in 1..Len(E) : m \in E[i]
        /\ UNION Range(F) \in SUBSET D /\ \A m : m \in UNION Range(F) <=> \E i \in 1..Len(F) : m \in F[i]
    BY <1>1, UnionOfLevels
  <1> DEFINE UE == UNION Range(E)
             UF == UNION Range(F)
             CE == Closure(above, {n})
             CF == Closure(below, {n})
  <1>6. /\ CE \in SUBSET D /\ n \in CE /\ IsClosed(above, CE)
        /\ \A C \in SUBSET D : n \in C /\ IsClosed(above, C) => CE \subseteq C
        /\ CF \in SUBSET D /\ n \in CF /\ IsClosed(below, CF)
        /\ \A C \in SUBSET D : n \in C /\ IsClosed(below, C) => CF \subseteq C
    <2>1. {n} \in SUBSET D
      OBVIOUS
    <2> QED
      BY <2>1, ClosureIsLeast
  <1> HIDE DEF UE, UF, CE, CF
  <1>7. n \in UE /\ n \in UF
    <2>1. 1 \in 1..Len(E) /\ n \in E[1] /\ 1 \in 1..Len(F) /\ n \in F[1]
      BY <1>1, <1>2, <1>3
    <2> QED
      BY <1>5, <2>1 DEF UE, UF
  <1>8. UE \subseteq CE
    <2>1. \A i \in 1..Len(E) : E[i] \subseteq CE
      BY <1>6 DEF Levelled
    <2> QED
      BY <1>5, <2>1 DEF UE
  <1>9. UF \subseteq CF
    <2>1. \A i \in 1..Len(F) : F[i] \subseteq CF
      BY <1>6 DEF Levelled
    <2> QED
      BY <1>5, <2>1 DEF UF
  <1>10. IsClosed(above, UE)
    <2> SUFFICES ASSUME NEW k \in UE, NEW m \in above[k] PROVE m \in UE
      BY DEF IsClosed
    <2>1. PICK i \in 1..Len(E) : k \in E[i]
      BY <1>5 DEF UE
    <2>2. \E j \in 1..Len(E) : m \in E[j]
      BY <2>1 DEF Levelled
    <2> QED
      BY <1>5, <2>2 DEF UE
  <1>11. UE = CE
    BY <1>5, <1>6, <1>7, <1>8, <1>10 DEF UE
  <1>12. V \subseteq UE
    <2>1. ASSUME NEW i \in 1..(Len(E) - 1) PROVE i + 1 \in 1..Len(E)
      BY <1>2
    <2> QED
      BY <1>4, <1>5, <2>1 DEF UE
  <1>13. n \notin V
    <2>1. ASSUME NEW i \in 1..(Len(E) - 1) PROVE i + 1 \in 2..Len(E)
      BY <1>2
    <2>2. \A i \in 2..Len(E) : n \notin E[i]
      BY DEF Levelled
    <2> QED
      BY <1>4, <2>1, <2>2
  <1>14. ASSUME CE \cap CF = {n} PROVE UF = CF
    <2> SUFFICES ASSUME NEW k \in UF, NEW m \in below[k] PROVE m \in UF
      BY <1>5, <1>6, <1>7, <1>9 DEF IsClosed, UF
    <2>1. PICK i \in 1..Len(F) : k \in F[i]
      BY <1>5 DEF UF
    <2>2. m \in V \/ \E j \in 1..Len(F) : m \in F[j]
      BY <2>1 DEF Levelled
    <2>3. m \in CF
      BY <1>6, <1>9 DEF IsClosed
    <2>4. m \in V => m = n
      BY <1>11, <1>12, <1>14, <2>3
    <2> QED
      BY <1>5, <1>13, <2>2, <2>4 DEF UF
  <1>16. OnceIn(E \o Tail(F))
    <2> SUFFICES ASSUME NEW c, c = E \o Tail(F), NEW e \in Nat, e = Len(E), NEW f \in Nat, f = Len(F), f # 0
                 PROVE  OnceIn(c)
      BY <1>2, <1>3
    <2>1. /\ c \in Seq(SUBSET D) /\ Len(c) = e + (f - 1)
          /\ \A i \in 1..(e + (f - 1)) : c[i] = IF i <= e THEN E[i] ELSE Tail(F)[i - e]
      BY <1>1, <1>3, ConcatProperties
    <2>2. DOMAIN c = 1..(e + (f - 1))
      BY <2>1
    <2>3. ASSUME NEW i \in 1..(e + (f - 1)), i > e
          PROVE  /\ i - e + 1 \in 2..f /\ i - e + 1 \in 1..f
                 /\ c[i] = F[i - e + 1] /\ c[i] \cap (V \cup {n}) = {}
      <3>1. i - e \in 1..(f - 1) /\ i - e + 1 \in 2..f /\ i - e + 1 \in 1..f /\ ~(i <= e)
        BY <2>3
      <3>2. c[i] = F[i - e + 1]
        BY <1>3, <2>1, <3>1
      <3>3. F[i - e + 1] \cap (V \cup {n}) = {}
        BY <3>1 DEF Levelled
      <3> QED
        BY <3>1, <3>2, <3>3
    <2>4. ASSUME NEW i \in 1..(e + (f - 1)), i <= e
          PROVE  i \in 1..e /\ c[i] = E[i] /\ c[i] \subseteq V \cup {n}
      <3>1. i \in 1..e /\ c[i] = E[i]
        BY <2>1, <2>4
      <3>2. CASE i = 1
        BY <1>1, <3>1, <3>2
      <3>3. CASE i # 1
        <4>1. i - 1 \in 1..(Len(E) - 1) /\ (i - 1) + 1 = i
          BY <3>1, <3>3
        <4> QED
          BY <1>4, <3>1, <4>1
      <3> QED
        BY <3>1, <3>2, <3>3
    <2>5. ASSUME NEW i \in 1..(e + (f - 1)), NEW j \in 1..(e + (f - 1)), i # j
          PROVE  c[i] \cap c[j] = {}
      <3>1. CASE i <= e /\ j <= e
        <4>1. E[i] \cap E[j] = {}
          BY <2>4, <2>5, <3>1 DEF Levelled
        <4> QED
          BY <2>4, <3>1, <4>1
      <3>2. CASE i > e /\ j > e
        <4>1. PICK a \in 1..f, b \in 1..f : a = i - e + 1 /\ b = j - e + 1 /\ c[i] = F[a] /\ c[j] = F[b]
          BY <2>3, <3>2
        <4>2. a # b
          BY <2>5, <4>1
        <4>3. F[a] \cap F[b] = {}
          BY <4>2 DEF Levelled
        <4> QED
          BY <4>1, <4>3
      <3>3. CASE i <= e /\ j > e
        BY <2>3, <2>4, <3>3
      <3>4. CASE i > e /\ j <= e
        BY <2>3, <2>4, <3>4
      <3> QED
        BY <3>1, <3>2, <3>3, <3>4
    <2> QED
      BY <2>2, <2>5 DEF OnceIn
  <1> QED
    BY <1>2, <1>3, <1>9, <1>11, <1>14, <1>16 DEF UE, UF, CE, CF, WhatBothWaysMake

----------------------------------------------------------------------------
(* The texts and the objects *)

\* A workspace has texts, and finitely many declarations.
LEMMA TextsTyped ==
    ASSUME ws \in Workspaces
    PROVE  /\ ws \in Seq(SchemaTexts) /\ ws # <<>> /\ Len(ws) \in Nat \ {0} /\ Positions = 1..Len(ws)
           /\ \A s \in Positions : /\ ws[s].name \in SchemaNames
                                   /\ ws[s].decls \in Seq(Declarations)
                                   /\ DOMAIN ws[s].decls = 1..Len(ws[s].decls)
                                   /\ Len(ws[s].decls) \in Nat
           /\ \A n : n \in Nodes <=> \E s \in Positions : \E d \in DOMAIN ws[s].decls : n = <<s, d>>
  <1>1. ws \in Seq(SchemaTexts) /\ ws # <<>>
    BY ContainerAssumption
  <1>2. Len(ws) \in Nat \ {0} /\ Positions = 1..Len(ws)
    BY <1>1, EmptySeq DEF Positions
  <1>3. \A s \in Positions : ws[s] \in SchemaTexts
    BY <1>1, <1>2
  <1>4. \A s \in Positions : ws[s].name \in SchemaNames /\ ws[s].decls \in Seq(Declarations)
    BY <1>3 DEF SchemaTexts
  <1>5. \A q \in Seq(Declarations) : DOMAIN q = 1..Len(q) /\ Len(q) \in Nat
    OBVIOUS
  <1>6. \A n : n \in Nodes <=> \E s \in Positions : \E d \in DOMAIN ws[s].decls : n = <<s, d>>
    BY DEF Nodes
  <1> QED
    BY <1>1, <1>2, <1>4, <1>5, <1>6

LEMMA NodesFinite ==
    ASSUME ws \in Workspaces
    PROVE  IsFiniteSet(Nodes)
  <1> DEFINE Of(s) == {<<s, d>> : d \in DOMAIN ws[s].decls}
             All == {Of(s) : s \in Positions}
  <1>1. ASSUME NEW s \in Positions PROVE IsFiniteSet(Of(s))
    <2> DEFINE I == DOMAIN ws[s].decls
               f == [d \in I |-> <<s, d>>]
    <2>1. IsFiniteSet(I)
      <3>1. PICK k \in Nat : I = 1..k
        BY TextsTyped
      <3> QED
        BY <3>1, FS_Interval
    <2>2. f \in [I -> Of(s)] /\ \A y \in Of(s) : \E d \in I : f[d] = y
      OBVIOUS
    <2> HIDE DEF I, f
    <2> QED
      BY <2>1, <2>2, ImageIsSmaller
  <1>2. IsFiniteSet(All)
    <2> DEFINE f == [s \in Positions |-> Of(s)]
    <2>1. IsFiniteSet(Positions)
      <3>1. PICK k \in Nat : Positions = 1..k
        BY TextsTyped
      <3> QED
        BY <3>1, FS_Interval
    <2>2. f \in [Positions -> All] /\ \A y \in All : \E s \in Positions : f[s] = y
      OBVIOUS
    <2> HIDE DEF All, f
    <2> QED
      BY <2>1, <2>2, ImageIsSmaller
  <1>3. \A T \in All : IsFiniteSet(T)
    BY <1>1
  <1>4. Nodes = UNION All
    BY DEF Nodes
  <1> HIDE DEF All
  <1> QED
    BY <1>2, <1>3, <1>4, FS_UNION

LEMMA FilteredIsSifted == \A list, set : Filtered(list, set) = Sifted(list, set)
  BY DEF Filtered, Sifted, Kept

\* The entities of a text are nodes of it.
LEMMA EntitiesTyped ==
    ASSUME ws \in Workspaces, NEW c \in Positions
    PROVE  Entities(c) \in Seq(Nodes) /\ \A n \in Elems(Entities(c)) : n[1] = c
  <1> DEFINE I == DOMAIN ws[c].decls
             Here == {n \in Nodes : n[1] = c}
  <1>1. I = 1..Len(ws[c].decls) /\ Len(ws[c].decls) \in Nat
    BY TextsTyped
  <1>2. \A d \in I : <<c, d>> \in Here
    BY TextsTyped
  <1>3. TextNodes(c) \in [1..Len(ws[c].decls) -> Here]
    BY <1>1, <1>2 DEF TextNodes
  <1> HIDE DEF Here
  <1>4. TextNodes(c) \in Seq(Here)
    BY <1>1, <1>3, IsASeq
  <1>5. Entities(c) \in Seq(Here)
    <2> DEFINE set == {n \in Nodes : Decl(n).kind = "Entity" /\ Earlier(n) = {}}
    <2>1. Entities(c) = Sifted(TextNodes(c), set)
      BY FilteredIsSifted DEF Entities
    <2> HIDE DEF set
    <2> QED
      BY <1>4, <2>1, ElemsOfSifted
  <1>6. Elems(Entities(c)) \subseteq Here
    BY <1>5, ElemsTyped
  <1>7. Here \subseteq Nodes /\ \A n \in Here : n[1] = c
    BY DEF Here
  <1>8. Seq(Here) \subseteq Seq(Nodes)
    BY <1>7
  <1> QED
    BY <1>5, <1>6, <1>7, <1>8

\* The schema objects are one for each name that a text has.
LEMMA OrderTyped ==
    ASSUME ws \in Workspaces
    PROVE  /\ Order \in Seq(SchemaNames) /\ Order # <<>>
           /\ Len(Order) \in Nat \ {0} /\ DOMAIN Order = 1..Len(Order)
           /\ \A s : s \in Elems(Order) <=> \E i \in Positions : s = ws[i].name
  <1> DEFINE S == {i \in Positions : \A j \in 1..(i - 1) : ws[j].name # ws[i].name}
             id == [i \in DOMAIN ws |-> i]
             first == Filtered(id, S)
  <1>1. /\ Positions = DOMAIN ws /\ Positions = 1..Len(ws) /\ Len(ws) \in Nat \ {0}
        /\ \A i \in Positions : ws[i].name \in SchemaNames
    BY TextsTyped DEF Positions
  <1>2. id \in [1..Len(ws) -> Positions] /\ \A i \in Positions : id[i] = i
    BY <1>1
  <1>3. id \in Seq(Positions) /\ Len(id) = Len(ws)
    <2>1. PICK k \in Nat : k = Len(ws)
      BY <1>1
    <2> HIDE DEF id
    <2> QED
      BY <1>2, <2>1, ListByNumbers
  <1>4. \A i \in Positions : i \in Elems(id)
    <2> HIDE DEF id
    <2> QED
      BY <1>1, <1>2, <1>3 DEF Elems
  <1>5. first \in Seq(Positions) /\ Elems(first) = Elems(id) \cap S
    <2> HIDE DEF id, S
    <2> QED
      BY <1>3, FilteredIsSifted, ElemsOfSifted
  <1>6. Order = [k \in DOMAIN first |-> ws[first[k]].name]
    BY DEF Order
  <1> HIDE DEF first
  <1>7. /\ DOMAIN first = 1..Len(first) /\ Len(first) \in Nat
        /\ \A k \in 1..Len(first) : first[k] \in Positions
    BY <1>5
  <1>8. Order \in [1..Len(first) -> SchemaNames]
    BY <1>1, <1>6, <1>7
  <1>9. Order \in Seq(SchemaNames) /\ Len(Order) = Len(first) /\ DOMAIN Order = 1..Len(Order)
    BY <1>7, <1>8, IsASeq, LenProperties
  <1>10. ASSUME NEW s \in Elems(Order) PROVE \E i \in Positions : s = ws[i].name
    BY <1>6, <1>7, <1>9 DEF Elems
  <1>11. ASSUME NEW i \in Positions PROVE ws[i].name \in Elems(Order)
    <2> DEFINE same == {j \in Positions : ws[j].name = ws[i].name}
    <2>1. same \in SUBSET Nat /\ same # {}
      BY <1>1
    <2>2. PICK j \in same : \A k \in same : j <= k
      <3> HIDE DEF same
      <3> QED
        BY <2>1, LeastNatural
    <2>3. ASSUME NEW k \in 1..(j - 1) PROVE ws[k].name # ws[j].name
      <3>1. k \in Positions /\ ~(j <= k)
        BY <1>1, <2>2
      <3> QED
        BY <2>2, <3>1
    <2>4. j \in S
      BY <2>2, <2>3
    <2>5. j \in Elems(first)
      BY <1>4, <1>5, <2>2, <2>4
    <2>6. PICK k \in 1..Len(first) : first[k] = j
      BY <2>5 DEF Elems
    <2>7. Order[k] = ws[i].name /\ k \in 1..Len(Order)
      BY <1>6, <1>7, <1>9, <2>2, <2>6
    <2> QED
      BY <2>7 DEF Elems
  <1>12. Len(Order) # 0
    <2>1. 1 \in Positions
      BY <1>1
    <2>2. ws[1].name \in Elems(Order)
      BY <1>11, <2>1
    <2> QED
      BY <2>2 DEF Elems
  <1> QED
    BY <1>7, <1>9, <1>10, <1>11, <1>12

\* The subtypes of an entity are entities of a schema object that name it.
LEMMA SubtypesTyped ==
    ASSUME ws \in Workspaces, schemas \in [SchemaNames -> {0} \cup Positions]
    PROVE  /\ EntitiesOfAll(Order) \in Seq(Nodes)
           /\ \A n \in Nodes : Subtypes(n) \in Seq(Nodes)
           /\ \A n, m \in Nodes :
                 m \in Range(Subtypes(n)) <=> m \in Elems(EntitiesOfAll(Order)) /\ n \in Range(supers[m])
           /\ \A i \in Positions : \A m \in Elems(EntitiesOf(ws[i].name)) : m \in Elems(EntitiesOfAll(Order))
  <1> DEFINE lists == [i \in DOMAIN Order |-> EntitiesOf(Order[i])]
  <1>1. /\ Order \in Seq(SchemaNames) /\ Len(Order) \in Nat /\ DOMAIN Order = 1..Len(Order)
        /\ \A s : s \in Elems(Order) <=> \E i \in Positions : s = ws[i].name
    BY OrderTyped
  <1>2. ASSUME NEW s \in SchemaNames PROVE EntitiesOf(s) \in Seq(Nodes)
    <2>1. CASE schemas[s] = 0
      BY <2>1, EmptySeq DEF EntitiesOf
    <2>2. CASE schemas[s] # 0
      <3>1. schemas[s] \in Positions
        BY <2>2
      <3> QED
        BY <2>2, <3>1, EntitiesTyped DEF EntitiesOf
    <2> QED
      BY <2>1, <2>2
  <1>3. lists \in [1..Len(Order) -> Seq(Nodes)]
    BY <1>1, <1>2
  <1>4. lists \in Seq(Seq(Nodes)) /\ Len(lists) = Len(Order) /\ \A i \in 1..Len(Order) : lists[i] = EntitiesOf(Order[i])
    <2>1. \A i \in 1..Len(Order) : lists[i] = EntitiesOf(Order[i])
      BY <1>1
    <2>2. PICK k \in Nat : k = Len(Order)
      BY <1>1
    <2> HIDE DEF lists
    <2>3. lists \in Seq(Seq(Nodes)) /\ Len(lists) = k
      BY <1>3, <2>2, ListByNumbers
    <2> QED
      BY <2>1, <2>2, <2>3
  <1>5. EntitiesOfAll(Order) = FlattenSeq(lists)
    BY DEF EntitiesOfAll
  <1> HIDE DEF lists
  <1>6. /\ EntitiesOfAll(Order) \in Seq(Nodes)
        /\ \A m : m \in Elems(EntitiesOfAll(Order)) <=> \E i \in 1..Len(lists) : m \in Elems(lists[i])
    BY <1>4, <1>5, ElemsOfFlatten
  <1>7. ASSUME NEW i \in Positions, NEW m \in Elems(EntitiesOf(ws[i].name))
        PROVE  m \in Elems(EntitiesOfAll(Order))
    <2>1. PICK k \in 1..Len(Order) : Order[k] = ws[i].name
      <3>1. ws[i].name \in Elems(Order)
        BY <1>1
      <3> QED
        BY <3>1 DEF Elems
    <2> QED
      BY <1>4, <1>6, <2>1
  <1>8. ASSUME NEW n \in Nodes
        PROVE  /\ Subtypes(n) \in Seq(Nodes)
               /\ \A m \in Nodes : m \in Range(Subtypes(n))
                                     <=> m \in Elems(EntitiesOfAll(Order)) /\ n \in Range(supers[m])
    <2> DEFINE S == {m \in Nodes : n \in Range(supers[m])}
    <2>1. Subtypes(n) = Sifted(EntitiesOfAll(Order), S)
      BY FilteredIsSifted DEF Subtypes
    <2>2. \A m \in Nodes : m \in S <=> n \in Range(supers[m])
      OBVIOUS
    <2> HIDE DEF S
    <2>3. Subtypes(n) \in Seq(Nodes) /\ Elems(Subtypes(n)) = Elems(EntitiesOfAll(Order)) \cap S
      BY <1>6, <2>1, ElemsOfSifted
    <2>4. Range(Subtypes(n)) = Elems(Subtypes(n))
      BY <2>3, RangeIsElems
    <2> QED
      BY <2>2, <2>3, <2>4
  <1> QED
    BY <1>6, <1>7, <1>8

----------------------------------------------------------------------------
(* What holds of the objects while they are made *)

\* Every text has been read into the object of its schema once loading is over;
\* before that there are no supertypes; and only an entity of a schema object
\* ever has any.
ObjectsInv ==
    /\ ws \in Workspaces
    /\ schemas \in [SchemaNames -> {0} \cup Positions]
    /\ supers \in [Nodes -> Seq(Nodes)]
    /\ stage = "load" => /\ at \in Positions
                         /\ \A i \in 1..(at - 1) : schemas[ws[i].name] # 0
                         /\ \A m \in Nodes : supers[m] = <<>>
    /\ stage = "wire" => at \in DOMAIN Order
    /\ stage \notin {"load", "stopped"} => \A i \in Positions : schemas[ws[i].name] # 0
    /\ \A m \in Nodes : supers[m] # <<>> => m \in Elems(EntitiesOfAll(Order))

LEMMA NextStage ==
    ASSUME NEW last, stage \in {"load", "interface", "name", "wire", "enter"}, Advance(last)
    PROVE  \/ at < last /\ at' = at + 1 /\ stage' = stage
           \/ ~(at < last) /\ at' = 1 /\ stage' \in {"interface", "name", "wire", "enter", "built"}
  <1>1. CASE at < last
    BY <1>1 DEF Advance
  <1>2. CASE ~(at < last)
    <2> DEFINE next(i) == i \in 2..Len(Stages) /\ Stages[i - 1] = stage
    <2>1. \E i \in 2..6 : Stages[i - 1] = stage
      BY DEF Stages
    <2>2. Len(Stages) = 6
      BY DEF Stages
    <2>3. PICK i \in 2..6 : stage' = Stages[i]
      BY <1>2, <2>1, <2>2 DEF Advance
    <2>4. Stages[i] \in {"interface", "name", "wire", "enter", "built"}
      BY DEF Stages
    <2> QED
      BY <1>2, <2>3, <2>4 DEF Advance
  <1> QED
    BY <1>1, <1>2

LEMMA FirstPosition == ws \in Workspaces => 1 \in Positions /\ 1 \in DOMAIN Order
  BY TextsTyped, OrderTyped

LEMMA InitObjects == Init => ObjectsInv
  <1> SUFFICES ASSUME Init PROVE ObjectsInv
    OBVIOUS
  <1>1. ws \in Workspaces /\ stage = "load" /\ at = 1
    BY DEF Init
  <1>2. 1 \in Positions /\ 1..(1 - 1) = {}
    BY <1>1, TextsTyped
  <1>3. schemas = [s \in SchemaNames |-> 0] /\ supers = [n \in Nodes |-> <<>>]
    BY DEF Init, NothingKept, Nodes, Positions
  <1>4. <<>> \in Seq(Nodes)
    BY EmptySeq
  <1> QED
    BY <1>1, <1>2, <1>3, <1>4 DEF ObjectsInv

LEMMA BuildObjects ==
    ASSUME ObjectsInv, Build
    PROVE  ObjectsInv'
  <1>1. PICK w \in Edited : ws' = w /\ ClearObjects(w)
    BY DEF Build
  <1>2. (ws \in Workspaces)' /\ stage' = "load" /\ at' = 1
    BY <1>1, ContainerAssumption DEF Build
  <1>3. (1 \in Positions)' /\ 1..(1 - 1) = {}
    <2>1. (1 \in Positions /\ 1 \in DOMAIN Order)'
      BY <1>2, FirstPosition, PTL
    <2>2. 1..(1 - 1) = {}
      OBVIOUS
    <2> QED
      BY <2>1, <2>2
  <1>4. schemas' = [s \in SchemaNames |-> 0] /\ supers' = [n \in Nodes' |-> <<>>]
    BY <1>1 DEF ClearObjects, NothingKept, Nodes, Positions
  <1>5. <<>> \in Seq(Nodes')
    BY EmptySeq
  <1> QED
    BY <1>2, <1>3, <1>4, <1>5 DEF ObjectsInv

\* What stays the same keeps what is derived from it alone.
LEMMA SameTexts ==
    ASSUME ws' = ws
    PROVE  /\ Nodes' = Nodes /\ Positions' = Positions /\ Order' = Order
           /\ \A n : Decl(n)' = Decl(n) /\ SchemaOf(n)' = SchemaOf(n) /\ Earlier(n)' = Earlier(n)
           /\ \A c : Entities(c)' = Entities(c)
  BY DEF Nodes, Positions, Order, Decl, SchemaOf, Earlier, Entities, TextNodes, Filtered

LEMMA SameObjects ==
    ASSUME ws' = ws, schemas' = schemas
    PROVE  /\ \A s : EntitiesOf(s)' = EntitiesOf(s)
           /\ \A names : EntitiesOfAll(names)' = EntitiesOfAll(names)
           /\ EntitiesOfAll(Order)' = EntitiesOfAll(Order)
  BY SameTexts DEF EntitiesOf, EntitiesOfAll

LEMMA LoadObjects ==
    ASSUME ObjectsInv, LoadSchema
    PROVE  ObjectsInv'
  <1>1. /\ ws \in Workspaces /\ schemas \in [SchemaNames -> {0} \cup Positions]
        /\ at \in Positions /\ \A i \in 1..(at - 1) : schemas[ws[i].name] # 0
        /\ supers \in [Nodes -> Seq(Nodes)] /\ \A m \in Nodes : supers[m] = <<>>
        /\ stage = "load" /\ ws' = ws /\ supers' = supers
        /\ schemas' = [schemas EXCEPT ![ws[at].name] = at]
        /\ Advance(Len(ws))
    BY DEF LoadSchema, ObjectsInv, texts
  <1>2. /\ Positions = 1..Len(ws) /\ Len(ws) \in Nat \ {0}
        /\ \A i \in Positions : ws[i].name \in SchemaNames
    BY <1>1, TextsTyped
  <1>3. Nodes' = Nodes /\ Positions' = Positions /\ Order' = Order
    BY <1>1, SameTexts
  <1>4. schemas' \in [SchemaNames -> {0} \cup Positions]
    BY <1>1
  <1>5. /\ \A i \in 1..at : schemas'[ws[i].name] # 0
    <2>1. ASSUME NEW i \in 1..at PROVE schemas'[ws[i].name] # 0
      <3>1. at \in Nat \ {0} /\ i \in Positions
        BY <1>1, <1>2
      <3>2. ws[i].name \in SchemaNames
        BY <1>2, <3>1
      <3>3. CASE ws[i].name = ws[at].name
        BY <1>1, <3>1, <3>2, <3>3
      <3>4. CASE ws[i].name # ws[at].name
        <4>1. i \in 1..(at - 1)
          BY <3>1, <3>4
        <4> QED
          BY <1>1, <3>2, <3>4, <4>1
      <3> QED
        BY <3>3, <3>4
    <2> QED
      BY <2>1
  <1>6. \/ at < Len(ws) /\ at' = at + 1 /\ stage' = stage
        \/ ~(at < Len(ws)) /\ at' = 1 /\ stage' \in {"interface", "name", "wire", "enter", "built"}
    BY <1>1, NextStage
  <1>7. CASE at < Len(ws) /\ at' = at + 1 /\ stage' = stage
    <2>1. at' \in Positions /\ at' - 1 = at
      BY <1>1, <1>2, <1>7
    <2> QED
      BY <1>1, <1>3, <1>4, <1>5, <1>7, <2>1 DEF ObjectsInv
  <1>8. CASE ~(at < Len(ws)) /\ at' = 1 /\ stage' \in {"interface", "name", "wire", "enter", "built"}
    <2>1. \A i \in Positions : i \in 1..at
      BY <1>1, <1>2, <1>8
    <2>2. at' \in DOMAIN Order'
      BY <1>1, <1>3, <1>8, FirstPosition
    <2>3. \A i \in Positions : schemas'[ws[i].name] # 0
      BY <1>5, <2>1
    <2> QED
      BY <1>1, <1>3, <1>4, <1>8, <2>2, <2>3 DEF ObjectsInv
  <1> QED
    BY <1>6, <1>7, <1>8

\* The stages that read nothing of the objects' supertypes.
LEMMA OtherObjects ==
    ASSUME ObjectsInv, UNCHANGED <<ws, schemas, supers>>,
           \/ InterfaceSchema \/ NameSupertypes \/ EnterSubtypes \/ Interrupt
    PROVE  ObjectsInv'
  <1>1. /\ ws \in Workspaces /\ schemas \in [SchemaNames -> {0} \cup Positions]
        /\ supers \in [Nodes -> Seq(Nodes)]
        /\ stage \notin {"load", "stopped"} => \A i \in Positions : schemas[ws[i].name] # 0
        /\ \A m \in Nodes : supers[m] # <<>> => m \in Elems(EntitiesOfAll(Order))
    BY DEF ObjectsInv
  <1>2. /\ Nodes' = Nodes /\ Positions' = Positions /\ Order' = Order
        /\ EntitiesOfAll(Order)' = EntitiesOfAll(Order)
    BY SameTexts, SameObjects
  <1>3. ASSUME stage' = "stopped" \/ (stage \notin {"load", "stopped"} /\ stage' # "load"
                                       /\ (stage' = "wire" => at' = 1))
        PROVE  ObjectsInv'
    <2>1. stage' = "wire" => at' \in DOMAIN Order'
      BY <1>1, <1>2, <1>3, FirstPosition
    <2> QED
      BY <1>1, <1>2, <1>3, <2>1 DEF ObjectsInv
  <1>4. CASE Interrupt
    BY <1>3, <1>4 DEF Interrupt
  <1>5. CASE InterfaceSchema
    <2>1. stage = "interface" /\ Advance(Len(ws))
      BY <1>5 DEF InterfaceSchema
    <2> QED
      BY <1>3, <2>1, NextStage
  <1>6. CASE NameSupertypes
    <2>1. stage = "name" /\ Advance(Len(ws))
      BY <1>6 DEF NameSupertypes
    <2> QED
      BY <1>3, <2>1, NextStage
  <1>7. CASE EnterSubtypes
    <2>1. stage = "enter" /\ Advance(Len(Order))
      BY <1>7 DEF EnterSubtypes
    <2> QED
      BY <1>3, <2>1, NextStage
  <1> QED
    BY <1>4, <1>5, <1>6, <1>7

LEMMA WireObjects ==
    ASSUME ObjectsInv, WireSchema
    PROVE  ObjectsInv'
  <1> DEFINE s == Order[at]
             c == schemas[s]
             wired == Range(Entities(c))
             names(n) == Written(Decl(n).supers, LAMBDA w : SeesEntity(s, w))
  <1>1. /\ ws \in Workspaces /\ schemas \in [SchemaNames -> {0} \cup Positions]
        /\ supers \in [Nodes -> Seq(Nodes)] /\ at \in DOMAIN Order
        /\ \A i \in Positions : schemas[ws[i].name] # 0
        /\ \A m \in Nodes : supers[m] # <<>> => m \in Elems(EntitiesOfAll(Order))
        /\ stage = "wire" /\ ws' = ws /\ schemas' = schemas
        /\ supers' = [n \in Nodes |-> IF n \in wired THEN names(n) ELSE supers[n]]
        /\ Advance(Len(Order))
    BY DEF WireSchema, ObjectsInv, texts
  <1>2. /\ Nodes' = Nodes /\ Positions' = Positions /\ Order' = Order
        /\ EntitiesOfAll(Order)' = EntitiesOfAll(Order)
    BY <1>1, SameTexts, SameObjects
  <1>3. ASSUME NEW n \in Nodes PROVE names(n) \in Seq(Nodes)
    <2> DEFINE q == Decl(n).supers
               list == [i \in DOMAIN q |-> SeesEntity(s, q[i])]
               All == {SeesEntity(s, q[i]) : i \in DOMAIN q}
    <2>1. DOMAIN q = 1..Len(q) /\ Len(q) \in Nat
      <3>0. PICK t \in Positions : \E d \in DOMAIN ws[t].decls : n = <<t, d>>
        BY <1>1, TextsTyped
      <3>1. PICK d \in DOMAIN ws[t].decls : n = <<t, d>>
        BY <3>0
      <3>2. Decl(n) = ws[t].decls[d] /\ ws[t].decls \in Seq(Declarations)
        BY <1>1, <3>1, TextsTyped DEF Decl
      <3>3. Decl(n) \in Declarations
        BY <1>1, <3>1, <3>2, TextsTyped
      <3>4. q \in Seq(Names)
        BY <3>3 DEF Declarations
      <3> QED
        BY <3>4
    <2>2. list \in [1..Len(q) -> All]
      <3> HIDE DEF q
      <3> QED
        BY <2>1
    <2>3. list \in Seq(All)
      <3> HIDE DEF list, All, q
      <3> QED
        BY <2>1, <2>2, IsASeq
    <2>4. names(n) = Sifted(list, Nodes)
      BY FilteredIsSifted DEF Written
    <2> HIDE DEF list, All, names
    <2>5. names(n) \in Seq(All) /\ Elems(names(n)) = Elems(list) \cap Nodes
      BY <2>3, <2>4, ElemsOfSifted
    <2> QED
      BY <2>5 DEF Elems
  <1> HIDE DEF names
  <1>4. supers' \in [Nodes -> Seq(Nodes)]
    <2> HIDE DEF wired
    <2> QED
      BY <1>1, <1>3
  <1>5. ASSUME NEW m \in Nodes, m \in wired PROVE m \in Elems(EntitiesOfAll(Order))
    <2>1. s \in Elems(Order)
      BY <1>1, OrderTyped DEF Elems
    <2>2. PICK i \in Positions : s = ws[i].name
      BY <1>1, <2>1, OrderTyped
    <2>3. c # 0 /\ c \in Positions
      BY <1>1, <2>2, TextsTyped
    <2>4. EntitiesOf(s) = Entities(c)
      BY <2>3 DEF EntitiesOf
    <2>5. Entities(c) \in Seq(Nodes)
      BY <1>1, <2>3, EntitiesTyped
    <2>6. m \in Elems(EntitiesOf(s))
      BY <1>5, <2>4, <2>5, RangeIsElems
    <2> QED
      BY <1>1, <2>2, <2>6, SubtypesTyped
  <1>6. \A m \in Nodes : supers'[m] # <<>> => m \in Elems(EntitiesOfAll(Order))
    <2> HIDE DEF wired
    <2> QED
      BY <1>1, <1>5
  <1>7. stage' # "load" /\ stage' # "stopped" /\ (stage' = "wire" => at' \in DOMAIN Order)
    <2>1. \/ at < Len(Order) /\ at' = at + 1 /\ stage' = stage
          \/ ~(at < Len(Order)) /\ at' = 1 /\ stage' \in {"interface", "name", "wire", "enter", "built"}
      BY <1>1, NextStage
    <2>2. DOMAIN Order = 1..Len(Order) /\ Len(Order) \in Nat \ {0}
      BY <1>1, OrderTyped
    <2>3. at < Len(Order) => at + 1 \in DOMAIN Order
      BY <1>1, <2>2
    <2>4. 1 \in DOMAIN Order
      BY <2>2
    <2> QED
      BY <1>1, <2>1, <2>3, <2>4
  <1> QED
    BY <1>1, <1>2, <1>4, <1>6, <1>7 DEF ObjectsInv

LEMMA AskedObjects ==
    ASSUME ObjectsInv, UNCHANGED <<ws, schemas, supers, stage, at>>
    PROVE  ObjectsInv'
  <1>1. /\ Nodes' = Nodes /\ Positions' = Positions /\ Order' = Order
        /\ EntitiesOfAll(Order)' = EntitiesOfAll(Order)
    BY SameTexts, SameObjects
  <1> QED
    BY <1>1 DEF ObjectsInv

LEMMA NextObjects ==
    ASSUME ObjectsInv, [Next]_vars
    PROVE  ObjectsInv'
  <1>1. CASE UNCHANGED vars
    BY <1>1, AskedObjects DEF vars, texts, objects
  <1>2. CASE Build
    BY <1>2, BuildObjects
  <1>3. CASE LoadSchema
    BY <1>3, LoadObjects
  <1>4. CASE InterfaceSchema \/ NameSupertypes \/ EnterSubtypes \/ Interrupt
    <2>1. UNCHANGED <<ws, schemas, supers>>
      BY <1>4 DEF InterfaceSchema, NameSupertypes, EnterSubtypes, Interrupt, texts, objects
    <2> QED
      BY <1>4, <2>1, OtherObjects
  <1>5. CASE WireSchema
    BY <1>5, WireObjects
  <1>6. ASSUME NEW s, AskResources(s) PROVE ObjectsInv'
    BY <1>6, AskedObjects DEF AskResources, Answers, texts, objects
  <1>7. ASSUME NEW n, AskRelatives(n, "up") \/ AskRelatives(n, "down") \/ AskGraph(n) \/ AskVisible(n)
        PROVE  ObjectsInv'
    BY <1>7, AskedObjects DEF AskRelatives, AskGraph, AskVisible, Answers, texts, objects
  <1> QED
    BY <1>1, <1>2, <1>3, <1>4, <1>5, <1>6, <1>7 DEF Next

LEMMA ObjectsInvariance == Spec => []ObjectsInv
  BY InitObjects, NextObjects, PTL DEF Spec

----------------------------------------------------------------------------
(* Kept levels *)

NextOf(dir) == [m \in Nodes |-> Range(Neighbours(m, dir))]
Typed == /\ ws \in Workspaces /\ schemas \in [SchemaNames -> {0} \cup Positions]
         /\ supers \in [Nodes -> Seq(Nodes)]

LEMMA NeighboursTyped ==
    ASSUME Typed, NEW dir
    PROVE  /\ \A m \in Nodes : Neighbours(m, dir) \in Seq(Nodes) /\ Range(Neighbours(m, dir)) \in SUBSET Nodes
           /\ NextOf(dir) \in [Nodes -> SUBSET Nodes]
           /\ \A m \in Nodes : NextOf(dir)[m] = Range(Neighbours(m, dir))
  <1>1. \A m \in Nodes : Neighbours(m, dir) \in Seq(Nodes)
    BY SubtypesTyped DEF Typed, Neighbours
  <1>2. \A m \in Nodes : Range(Neighbours(m, dir)) \in SUBSET Nodes
    BY <1>1, RangeIsElems
  <1> QED
    BY <1>1, <1>2 DEF NextOf

\* The function in Levels.
IsExpansion(expand, dir) ==
    expand = [w \in (SUBSET Nodes) \X (SUBSET Nodes) |->
                 LET level == w[1]
                     past == w[2] \cup level
                 IN  IF level = {} THEN <<>>
                     ELSE <<level>> \o expand[<<(UNION {Range(Neighbours(m, dir)) : m \in level}) \ past, past>>]]

LEMMA ExpansionIsWalk ==
    ASSUME Typed, NEW dir, NEW f
    PROVE  IsExpansion(f, dir) <=> IsWalk(f, Nodes, NextOf(dir))
  <1>1. ASSUME NEW w \in Arguments(Nodes)
        PROVE  Beyond(NextOf(dir), w[1], w[2] \cup w[1])
                 = (UNION {Range(Neighbours(m, dir)) : m \in w[1]}) \ (w[2] \cup w[1])
    <2>1. w[1] \subseteq Nodes
      BY DEF Arguments
    <2>2. \A m \in w[1] : NextOf(dir)[m] = Range(Neighbours(m, dir))
      BY <2>1, NeighboursTyped
    <2> QED
      BY <2>2 DEF Beyond
  <1> QED
    BY <1>1 DEF IsExpansion, IsWalk, Arguments

LEMMA LevelsAreLevelled ==
    ASSUME Typed, NEW dir, NEW n \in Nodes, NEW V \in SUBSET Nodes
    PROVE  \E E : Levelled(Nodes, NextOf(dir), {n}, V, E) /\ Levels(n, dir, V) = Tail(E)
  <1> DEFINE F == CHOOSE expand : IsExpansion(expand, dir)
  <1>1. IsFiniteSet(Nodes) /\ NextOf(dir) \in [Nodes -> SUBSET Nodes]
    BY NodesFinite, NeighboursTyped DEF Typed
  <1>2. PICK f : IsWalk(f, Nodes, NextOf(dir))
    BY <1>1, WalkExists
  <1>3. IsExpansion(f, dir)
    BY <1>2, ExpansionIsWalk
  <1>4. IsExpansion(F, dir)
    BY <1>3
  <1>5. Levels(n, dir, V) = Tail(F[<<{n}, V>>])
    BY DEF Levels, IsExpansion
  <1> HIDE DEF F
  <1>6. IsWalk(F, Nodes, NextOf(dir))
    BY <1>4, ExpansionIsWalk
  <1>7. {n} \in SUBSET Nodes
    OBVIOUS
  <1>8. Levelled(Nodes, NextOf(dir), {n}, V, F[<<{n}, V>>])
    BY <1>1, <1>6, <1>7, WalkIsLevelled
  <1> QED
    BY <1>5, <1>8

LEMMA RelativesAreClosed ==
    ASSUME Typed, NEW dir, NEW n \in Nodes
    PROVE  Relatives(n, dir) = Closure(NextOf(dir), NextOf(dir)[n])
  <1>1. IsFiniteSet(Nodes) /\ NextOf(dir) \in [Nodes -> SUBSET Nodes]
    BY NodesFinite, NeighboursTyped DEF Typed
  <1>2. Reached(NextOf(dir), n) = Closure(NextOf(dir), NextOf(dir)[n])
    BY <1>1, ReachedIsClosure
  <1> QED
    BY <1>2 DEF Relatives, NextOf

\* The levels of an entity, as the property has them: with the entity before
\* those above it, with the entity before those below it, and those below it.
NearestFirst(n, up, down, rest) ==
    /\ UNION Range(up) = {n} \cup Relatives(n, "up")
    /\ UNION Range(down) \subseteq {n} \cup Relatives(n, "down")
    /\ ({n} \cup Relatives(n, "up")) \cap ({n} \cup Relatives(n, "down")) = {n}
          => UNION Range(down) = {n} \cup Relatives(n, "down")
    /\ \A i \in 2..Len(up) : \A m \in up[i] : \A j \in 1..(i - 1) :
          j = i - 1 <=> \E k \in up[j] : m \in Range(Neighbours(k, "up"))
    /\ OnceIn(up \o rest)
KeptNearestFirst(n, answer) ==
    /\ answer.up \in Seq(SUBSET Nodes) /\ answer.down \in Seq(SUBSET Nodes)
    /\ NearestFirst(n, <<{n}>> \o answer.up, <<{n}>> \o answer.down, answer.down)

LEMMA VisibleIsNearestFirst ==
    ASSUME Typed, NEW n \in Nodes
    PROVE  KeptNearestFirst(n, Visible(n))
  <1>1. PICK u \in [Nodes -> SUBSET Nodes], d \in [Nodes -> SUBSET Nodes] :
            /\ u = NextOf("up") /\ d = NextOf("down")
            /\ \A m \in Nodes : u[m] = Range(Neighbours(m, "up"))
    BY NeighboursTyped
  <1>2. PICK E : Levelled(Nodes, u, {n}, {}, E) /\ Levels(n, "up", {}) = Tail(E)
    <2>1. {} \in SUBSET Nodes
      OBVIOUS
    <2> QED
      BY <1>1, <2>1, LevelsAreLevelled
  <1>3. E \in Seq(SUBSET Nodes) /\ E # <<>>
    BY <1>2 DEF Levelled
  <1>4. PICK V \in SUBSET Nodes : V = UNION Range(Tail(E))
    BY <1>3, FirstAndRest, UnionOfLevels
  <1>5. PICK F : Levelled(Nodes, d, {n}, V, F) /\ Levels(n, "down", V) = Tail(F)
    BY <1>1, LevelsAreLevelled
  <1>6. Visible(n).up = Tail(E) /\ Visible(n).down = Tail(F)
    BY <1>2, <1>4, <1>5 DEF Visible, VisibleWith
  <1>7. /\ {n} \cup Relatives(n, "up") = Closure(u, {n})
        /\ {n} \cup Relatives(n, "down") = Closure(d, {n})
    BY <1>1, RelativesAreClosed, ClosureOfOne
  <1>8. /\ <<{n}>> \o Tail(E) = E /\ <<{n}>> \o Tail(F) = F
        /\ UNION Range(E) = Closure(u, {n})
        /\ UNION Range(F) \subseteq Closure(d, {n})
        /\ Closure(u, {n}) \cap Closure(d, {n}) = {n} => UNION Range(F) = Closure(d, {n})
        /\ OnceIn(E \o Tail(F))
    <2>1. BothWays(Nodes, u, d, n, E, V, F)
      BY <1>2, <1>4, <1>5 DEF BothWays
    <2>2. WhatBothWaysMake(u, d, n, E, F)
      BY ONLY <2>1, AboveAndBelow
    <2> QED
      BY ONLY <2>2 DEF WhatBothWaysMake
  <1>9. ASSUME NEW i \in 2..Len(E), NEW m \in E[i], NEW j \in 1..(i - 1)
        PROVE  j = i - 1 <=> \E k \in E[j] : m \in Range(Neighbours(k, "up"))
    <2>1. j \in 1..Len(E) /\ j < i /\ E[j] \subseteq Nodes
      BY <1>3
    <2>2. j = i - 1 <=> \E k \in E[j] : m \in u[k]
      BY <1>2, <2>1 DEF Levelled
    <2> QED
      BY <1>1, <2>1, <2>2
  <1>10. NearestFirst(n, E, F, Tail(F))
    BY <1>7, <1>8, <1>9 DEF NearestFirst
  <1>11. Tail(E) \in Seq(SUBSET Nodes) /\ Tail(F) \in Seq(SUBSET Nodes)
    BY <1>3, <1>5, <1>8, FirstAndRest DEF Levelled
  <1> QED
    BY <1>6, <1>8, <1>10, <1>11 DEF KeptNearestFirst

\* Levels are kept only after the build, and are those of the objects it made.
LevelsInv ==
    /\ levels = [m \in Nodes |-> levels[m]]
    /\ \A n \in Nodes : levels[n].down # <<Unset>> => stage = "built" /\ KeptNearestFirst(n, levels[n])

LEMMA InitLevels == Init => LevelsInv
  <1> SUFFICES ASSUME Init PROVE LevelsInv
    OBVIOUS
  <1>1. levels = [n \in Nodes |-> [up |-> <<>>, down |-> <<Unset>>]]
    BY DEF Init, NothingKept, Nodes, Positions
  <1> QED
    BY <1>1 DEF LevelsInv

LEMMA SameNeighbours ==
    ASSUME ws' = ws, schemas' = schemas, supers' = supers
    PROVE  /\ \A n : Subtypes(n)' = Subtypes(n)
           /\ \A n, dir : Neighbours(n, dir)' = Neighbours(n, dir)
           /\ \A n, dir : Relatives(n, dir)' = Relatives(n, dir)
  <1>1. Nodes' = Nodes /\ EntitiesOfAll(Order)' = EntitiesOfAll(Order)
    BY SameTexts, SameObjects
  <1>2. \A n : Subtypes(n)' = Subtypes(n)
    BY <1>1 DEF Subtypes, Filtered
  <1>3. \A n, dir : Neighbours(n, dir)' = Neighbours(n, dir)
    BY <1>2 DEF Neighbours
  <1>4. \A n, dir : Relatives(n, dir)' = Relatives(n, dir)
    BY <1>1, <1>3 DEF Relatives
  <1> QED
    BY <1>2, <1>3, <1>4

LEMMA SameNearestFirst ==
    ASSUME ws' = ws, schemas' = schemas, supers' = supers,
           NEW n, NEW CONSTANT answer, KeptNearestFirst(n, answer)
    PROVE  KeptNearestFirst(n, answer)'
  BY SameNeighbours, SameTexts, ZenonT(40) DEF KeptNearestFirst, NearestFirst

\* While the container is built nothing is kept of the answers.
LEMMA BuildingKeeps ==
    ASSUME \/ LoadSchema \/ InterfaceSchema \/ NameSupertypes \/ WireSchema \/ EnterSubtypes \/ Interrupt
    PROVE  stage # "built" /\ ws' = ws /\ levels' = levels /\ graphs' = graphs /\ key' = key
  BY DEF LoadSchema, InterfaceSchema, NameSupertypes, WireSchema, EnterSubtypes, Interrupt, texts, memos

\* A request to a container that answers none while it is built finds the objects
\* of a whole build.
LEMMA AskedWhenBuilt ==
    ASSUME Serial, NEW s, Answers(s)
    PROVE  /\ stage = "built"
           /\ UNCHANGED <<ws, stage, at, schemas, full, partial, supers, missing, types, named, heirs>>
  BY DEF Serial, Answers, texts, objects

LEMMA SameLevels ==
    ASSUME LevelsInv, UNCHANGED <<ws, schemas, supers, stage, levels>>
    PROVE  LevelsInv'
  <1>1. Nodes' = Nodes
    BY SameTexts
  <1>2. ASSUME NEW n \in Nodes, levels[n].down # <<Unset>>
        PROVE  (stage = "built")' /\ KeptNearestFirst(n, levels[n])'
    <2>1. stage = "built" /\ KeptNearestFirst(n, levels[n])
      BY <1>2 DEF LevelsInv
    <2>2. PICK k : k = levels[n]
      OBVIOUS
    <2>3. KeptNearestFirst(n, k)'
      BY <2>1, <2>2, SameNearestFirst
    <2> QED
      BY <2>1, <2>2, <2>3
  <1> QED
    BY <1>1, <1>2 DEF LevelsInv

LEMMA NextLevels ==
    ASSUME Serial, ObjectsInv, LevelsInv, [Next]_vars
    PROVE  LevelsInv'
  <1>1. CASE UNCHANGED vars
    BY <1>1, SameLevels DEF vars, texts, objects, memos
  <1>2. CASE Build
    <2>1. PICK w \in Edited : ws' = w /\ ClearMemos(w)
      BY <1>2 DEF Build
    <2>2. levels' = [n \in Nodes' |-> [up |-> <<>>, down |-> <<Unset>>]]
      BY <2>1 DEF ClearMemos, NothingKept, Nodes, Positions
    <2> QED
      BY <2>2 DEF LevelsInv
  <1>3. CASE LoadSchema \/ InterfaceSchema \/ NameSupertypes \/ WireSchema \/ EnterSubtypes \/ Interrupt
    <2>1. stage # "built" /\ ws' = ws /\ levels' = levels
      BY <1>3, BuildingKeeps
    <2>2. Nodes' = Nodes
      BY <2>1, SameTexts
    <2> QED
      BY <2>1, <2>2 DEF LevelsInv
  <1>4. ASSUME NEW s, AskResources(s) PROVE LevelsInv'
    <2>1. UNCHANGED <<ws, schemas, supers, stage, levels>>
      BY <1>4 DEF AskResources, Answers, texts, objects
    <2> QED
      BY <2>1, SameLevels
  <1>5. ASSUME NEW n, AskRelatives(n, "up") \/ AskRelatives(n, "down") \/ AskGraph(n) PROVE LevelsInv'
    <2>1. UNCHANGED <<ws, schemas, supers, stage, levels>>
      BY <1>5 DEF AskRelatives, AskGraph, Answers, texts, objects
    <2> QED
      BY <2>1, SameLevels
  <1>6. ASSUME NEW n \in Nodes, AskVisible(n) PROVE LevelsInv'
    <2>1. /\ Answers(n[1]) /\ levels' = [levels EXCEPT ![n] = LevelsOf(n)]
      BY <1>6 DEF AskVisible
    <2>2. stage = "built" /\ UNCHANGED <<ws, schemas, supers, stage>>
      BY <2>1, AskedWhenBuilt
    <2>3. Nodes' = Nodes
      BY <2>2, SameTexts
    <2>4. KeptNearestFirst(n, LevelsOf(n))
      BY VisibleIsNearestFirst DEF LevelsOf, LevelsInv, Typed, ObjectsInv
    <2>5. ASSUME NEW m \in Nodes, levels'[m].down # <<Unset>> PROVE KeptNearestFirst(m, levels[m])'
      <3>1. PICK k : k = levels'[m]
        OBVIOUS
      <3>2. KeptNearestFirst(m, k)
        <4>1. CASE m = n
          BY <2>1, <2>4, <3>1, <4>1 DEF LevelsInv
        <4>2. CASE m # n
          BY <2>1, <2>5, <3>1, <4>2 DEF LevelsInv
        <4> QED
          BY <4>1, <4>2
      <3> QED
        BY <2>2, <3>1, <3>2, SameNearestFirst
    <2>6. levels' = [m \in Nodes |-> levels'[m]]
      BY <2>1 DEF LevelsInv
    <2> QED
      BY <2>2, <2>3, <2>5, <2>6 DEF LevelsInv
  <1> QED
    BY <1>1, <1>2, <1>3, <1>4, <1>5, <1>6 DEF Next

LEMMA LevelsAreKept == ObjectsInv /\ LevelsInv => LevelsAreNearestFirst
  <1> SUFFICES ASSUME ObjectsInv, LevelsInv, stage = "built",
                      NEW n \in Nodes, levels[n].down # <<Unset>>,
                      NEW up, up = <<{n}>> \o levels[n].up, NEW down, down = <<{n}>> \o levels[n].down
               PROVE  /\ UNION Range(up) = {n} \cup Relatives(n, "up")
                      /\ UNION Range(down) \subseteq {n} \cup Relatives(n, "down")
                      /\ ({n} \cup Relatives(n, "up")) \cap ({n} \cup Relatives(n, "down")) = {n}
                            => UNION Range(down) = {n} \cup Relatives(n, "down")
                      /\ \A i \in 2..Len(up) : \A m \in up[i] :
                            {j \in 1..(i - 1) : \E k \in up[j] : m \in Range(Neighbours(k, "up"))} = {i - 1}
                      /\ \A i, j \in DOMAIN (up \o levels[n].down) :
                            i # j => (up \o levels[n].down)[i] \cap (up \o levels[n].down)[j] = {}
    BY DEF LevelsAreNearestFirst
  <1>1. NearestFirst(n, up, down, levels[n].down)
    BY DEF LevelsInv, KeptNearestFirst
  <1>2. ASSUME NEW i \in 2..Len(up), NEW m \in up[i]
        PROVE  {j \in 1..(i - 1) : \E k \in up[j] : m \in Range(Neighbours(k, "up"))} = {i - 1}
    <2>1. \A j \in 1..(i - 1) : j = i - 1 <=> \E k \in up[j] : m \in Range(Neighbours(k, "up"))
      BY <1>1 DEF NearestFirst
    <2>2. i - 1 \in 1..(i - 1)
      OBVIOUS
    <2> QED
      BY <2>1, <2>2
  <1> QED
    BY <1>1, <1>2 DEF NearestFirst, OnceIn

\* Whatever the SUBTYPE OF clauses, cyclic ones included, and whatever was asked
\* before: the levels a container keeps of an entity (visibleMemo), when it answers
\* nothing while it is built, are its supertypes, each once and nearest first, and
\* below them subtypes, all of them unless one is a supertype too.
THEOREM LevelsNearestFirst ==
    ASSUME Serial
    PROVE  Spec => []LevelsAreNearestFirst
  <1>1. ObjectsInv /\ LevelsInv /\ [Next]_vars => LevelsInv'
    BY NextLevels
  <1> QED
    BY <1>1, InitLevels, LevelsAreKept, ObjectsInvariance, PTL DEF Spec

----------------------------------------------------------------------------
(* Graphs *)

\* From an entity a graph goes on to its supertypes and to its subtypes.
Listed == [n \in Nodes |-> supers[n] \o Subtypes(n)]

LEMMA LinksTyped ==
    ASSUME Typed
    PROVE  /\ Linked \in [Nodes -> SUBSET Nodes] /\ Listed \in [Nodes -> Seq(Nodes)]
           /\ \A n \in Nodes : Elems(Listed[n]) = Linked[n]
  <1>1. ASSUME NEW n \in Nodes
        PROVE  /\ Listed[n] \in Seq(Nodes) /\ Linked[n] \in SUBSET Nodes
               /\ Elems(Listed[n]) = Linked[n]
    <2>1. PICK p \in Seq(Nodes), q \in Seq(Nodes) : p = supers[n] /\ q = Subtypes(n)
      BY SubtypesTyped DEF Typed
    <2>2. Elems(p \o q) = Elems(p) \cup Elems(q) /\ p \o q \in Seq(Nodes)
      BY ElemsOfConcat
    <2>3. Range(p) = Elems(p) /\ Range(q) = Elems(q) /\ Elems(p) \subseteq Nodes /\ Elems(q) \subseteq Nodes
      BY RangeIsElems, ElemsTyped
    <2> QED
      BY <2>1, <2>2, <2>3 DEF Listed, Linked
  <1> QED
    BY <1>1 DEF Listed, Linked

\* The function in Met.
IsMet(meet) ==
    meet = [w \in Nodes \X (SUBSET Nodes) |->
               FoldLeft(LAMBDA acc, t : IF t \in acc THEN acc ELSE meet[<<t, acc>>],
                        w[2] \cup {w[1]}, supers[w[1]] \o Subtypes(w[1]))]

LEMMA MetIsMeeting ==
    ASSUME NEW meet
    PROVE  IsMet(meet) <=> IsMeeting(meet, Nodes, Listed)
  <1>1. \A w \in Nodes \X (SUBSET Nodes) : Listed[w[1]] = supers[w[1]] \o Subtypes(w[1])
    BY DEF Listed
  <1>2. IsMet(meet) <=> meet = [w \in Nodes \X (SUBSET Nodes) |->
                                   MeetAll(meet, w[2] \cup {w[1]}, supers[w[1]] \o Subtypes(w[1]))]
    BY DEF IsMet, MeetAll
  <1> QED
    BY <1>1, <1>2 DEF IsMeeting

\* What is met from an entity is all that is linked to it, however far away.
LEMMA MetIsClosure ==
    ASSUME Typed, NEW n \in Nodes
    PROVE  Met(n) = Closure(Linked, {n})
  <1> DEFINE F == CHOOSE meet : IsMet(meet)
  <1>1. /\ IsFiniteSet(Nodes) /\ Linked \in [Nodes -> SUBSET Nodes] /\ Listed \in [Nodes -> Seq(Nodes)]
        /\ \A m \in Nodes : Elems(Listed[m]) = Linked[m]
    BY NodesFinite, LinksTyped DEF Typed
  <1>2. IsMet(F)
    BY <1>1, MeetingExists, MetIsMeeting
  <1>3. Met(n) = F[<<n, {}>>]
    BY DEF Met, IsMet
  <1> HIDE DEF F
  <1>4. IsMeeting(F, Nodes, Listed)
    BY <1>2, MetIsMeeting
  <1>5. PICK X : X = Met(n) /\ Fills(Nodes, Listed, n, {}, X)
    <2>1. {} \in SUBSET Nodes /\ n \notin {}
      OBVIOUS
    <2> QED
      BY <1>1, <1>3, <1>4, <2>1, MeetingFills
  <1>6. /\ X \in SUBSET Nodes /\ n \in X
        /\ \A y \in X : Linked[y] \subseteq X
        /\ \A C \in SUBSET Nodes : n \in C /\ (\A y \in C : Linked[y] \subseteq C) => X \subseteq C
    <2>1. /\ X \in SUBSET Nodes /\ {} \cup {n} \subseteq X
          /\ \A y \in X \ {} : Elems(Listed[y]) \subseteq X
          /\ \A C \in SUBSET Nodes :
                {} \cup {n} \subseteq C /\ (\A y \in C \ {} : Elems(Listed[y]) \subseteq C) => X \subseteq C
      BY <1>5 DEF Fills
    <2>2. \A y \in X : Linked[y] \subseteq X
      BY <1>1, <2>1
    <2>3. ASSUME NEW C \in SUBSET Nodes, n \in C, \A y \in C : Linked[y] \subseteq C PROVE X \subseteq C
      <3>1. \A y \in C \ {} : Elems(Listed[y]) \subseteq C
        BY <1>1, <2>3
      <3> QED
        BY <2>1, <2>3, <3>1
    <2> QED
      BY <2>1, <2>2, <2>3
  <1>7. PICK Y : Y = Closure(Linked, {n})
    OBVIOUS
  <1>8. /\ Y \in SUBSET Nodes /\ n \in Y /\ IsClosed(Linked, Y)
        /\ \A C \in SUBSET Nodes : {n} \subseteq C /\ IsClosed(Linked, C) => Y \subseteq C
    <2>1. {n} \in SUBSET Nodes /\ Linked \in [Nodes -> SUBSET Nodes]
      BY <1>1
    <2> QED
      BY ONLY <1>7, <2>1, ClosureIsLeast
  <1>9. X = Y
    BY <1>6, <1>8 DEF IsClosed
  <1> QED
    BY <1>5, <1>7, <1>9

\* An entity is linked to those that are linked to it.
LEMMA LinkedBothWays ==
    ASSUME ObjectsInv
    PROVE  \A n, m \in Nodes : m \in Linked[n] => n \in Linked[m]
  <1>1. Typed
    BY DEF ObjectsInv, Typed
  <1>2. \A n, m \in Nodes :
           m \in Range(Subtypes(n)) <=> m \in Elems(EntitiesOfAll(Order)) /\ n \in Range(supers[m])
    BY <1>1, SubtypesTyped DEF Typed
  <1>3. \A n, m \in Nodes : m \in Range(supers[n]) => n \in Elems(EntitiesOfAll(Order))
    <2> SUFFICES ASSUME NEW n \in Nodes, NEW m \in Range(supers[n]) PROVE supers[n] # <<>>
      BY DEF ObjectsInv
    <2>1. supers[n] \in Seq(Nodes)
      BY <1>1 DEF Typed
    <2>2. m \in Elems(supers[n])
      BY <2>1, RangeIsElems
    <2> QED
      BY <2>2 DEF Elems
  <1>4. \A n, m \in Nodes : m \in Linked[n] <=> m \in Range(supers[n]) \/ m \in Range(Subtypes(n))
    BY DEF Linked
  <1> QED
    BY <1>2, <1>3, <1>4

LEMMA ObjectTyped ==
    ASSUME Typed, NEW n \in Nodes
    PROVE  Object(n) = NoNode \/ Object(n) \in Nodes
  <1> DEFINE L == EntitiesOf(SchemaOf(n))
             I == {i \in 1..Len(L) : Decl(L[i]).name = Decl(n).name}
  <1>1. L \in Seq(Nodes)
    <2>1. PICK s \in Positions : SchemaOf(n) = ws[s].name /\ ws[s].name \in SchemaNames
      BY TextsTyped DEF Typed, SchemaOf
    <2>2. CASE schemas[ws[s].name] = 0
      BY <2>1, <2>2, EmptySeq DEF EntitiesOf
    <2>3. CASE schemas[ws[s].name] # 0
      <3>1. schemas[ws[s].name] \in Positions
        BY <2>1, <2>3 DEF Typed
      <3> QED
        BY <2>1, <2>3, <3>1, EntitiesTyped DEF EntitiesOf, Typed
    <2> QED
      BY <2>2, <2>3
  <1>2. Object(n) = ElementAt(L, IF I # {} THEN Min(I) ELSE 0)
    BY DEF Object, Find, SelectInSeq
  <1>3. ASSUME I # {} PROVE Min(I) \in 1..Len(L)
    <2>1. I \in SUBSET Nat
      OBVIOUS
    <2> HIDE DEF I
    <2>2. PICK j \in I : \A k \in I : j <= k
      BY <1>3, <2>1, LeastNatural
    <2>3. Min(I) \in I
      BY <2>2 DEF Min
    <2> QED
      BY <2>3 DEF I
  <1> HIDE DEF I, L
  <1> QED
    BY <1>1, <1>2, <1>3 DEF ElementAt

\* Graphs are kept only after the build; each has exactly the entities with its
\* key, and is the whole component of every one of them.
GraphsInv ==
    /\ graphs \in Seq(SUBSET Nodes) /\ key \in [Nodes -> 0..Len(graphs)]
    /\ \A k \in 1..Len(graphs) : \A n \in Nodes : n \in graphs[k] <=> key[n] = k
    /\ \A k \in 1..Len(graphs) : \A n \in graphs[k] : graphs[k] = Closure(Linked, {n})
    /\ stage # "built" => graphs = <<>>

LEMMA NoGraphs == graphs = <<>> /\ key = [n \in Nodes |-> 0] => GraphsInv
  <1> SUFFICES ASSUME graphs = <<>>, key = [n \in Nodes |-> 0] PROVE GraphsInv
    OBVIOUS
  <1>1. Len(graphs) = 0 /\ graphs \in Seq(SUBSET Nodes) /\ 1..0 = {} /\ 0 \in 0..0
    BY EmptySeq
  <1> QED
    BY <1>1 DEF GraphsInv

LEMMA InitGraphs == Init => GraphsInv
  BY NoGraphs DEF Init, NothingKept, Nodes, Positions

LEMMA SameLinks ==
    ASSUME UNCHANGED <<ws, schemas, supers>>
    PROVE  Nodes' = Nodes /\ Linked' = Linked
  <1>1. Nodes' = Nodes /\ \A n : Subtypes(n)' = Subtypes(n)
    BY SameTexts, SameNeighbours
  <1> QED
    BY <1>1 DEF Linked

LEMMA SameGraphs ==
    ASSUME GraphsInv, UNCHANGED <<ws, schemas, supers, stage, graphs, key>>
    PROVE  GraphsInv'
  <1>1. Nodes' = Nodes /\ Linked' = Linked
    BY SameLinks
  <1> QED
    BY <1>1 DEF GraphsInv

\* A new graph takes only entities without a key.
LEMMA AskGraphKeeps ==
    ASSUME Serial, ObjectsInv, GraphsInv, NEW n \in Nodes, AskGraph(n)
    PROVE  GraphsInv'
  <1>1. /\ stage = "built" /\ UNCHANGED <<ws, schemas, supers, stage>>
        /\ Object(n) # NoNode /\ key[Object(n)] = 0
        /\ graphs' = Append(graphs, Met(Object(n)))
        /\ key' = [m \in Nodes |-> IF m \in Met(Object(n)) THEN Len(graphs) + 1 ELSE key[m]]
    BY AskedWhenBuilt DEF AskGraph
  <1>2. Nodes' = Nodes /\ Linked' = Linked
    BY <1>1, SameLinks
  <1>3. Typed
    BY DEF ObjectsInv, Typed
  <1>4. PICK o \in Nodes : o = Object(n)
    BY <1>1, <1>3, ObjectTyped
  <1>5. PICK M : M = Met(o) /\ M = Closure(Linked, {o})
    BY <1>3, MetIsClosure
  <1>6. Linked \in [Nodes -> SUBSET Nodes] /\ \A x, y \in Nodes : y \in Linked[x] => x \in Linked[y]
    BY <1>3, LinksTyped, LinkedBothWays
  <1>7. M \in SUBSET Nodes /\ o \in M
    <2>1. {o} \in SUBSET Nodes
      OBVIOUS
    <2> QED
      BY <1>5, <1>6, <2>1, ClosureIsLeast
  <1>8. ASSUME NEW m \in M PROVE M = Closure(Linked, {m})
    BY <1>5, <1>6, ClosureOfMember
  <1>9. PICK len \in Nat : len = Len(graphs)
    BY DEF GraphsInv
  <1>10. /\ graphs' \in Seq(SUBSET Nodes) /\ Len(graphs') = len + 1
         /\ graphs'[len + 1] = M
         /\ \A k \in 1..len : graphs'[k] = graphs[k]
    <2>1. graphs \in Seq(SUBSET Nodes)
      BY DEF GraphsInv
    <2>2. M \in SUBSET Nodes
      BY <1>7
    <2>3. /\ Append(graphs, M) \in Seq(SUBSET Nodes) /\ Len(Append(graphs, M)) = Len(graphs) + 1
          /\ Append(graphs, M)[Len(graphs) + 1] = M
          /\ \A k \in 1..Len(graphs) : Append(graphs, M)[k] = graphs[k]
      BY ONLY <2>1, <2>2, AppendProperties
    <2>4. graphs' = Append(graphs, M)
      BY <1>1, <1>4, <1>5
    <2> QED
      BY <1>9, <2>3, <2>4
  <1>11. \A k \in 1..(len + 1) : k = len + 1 \/ k \in 1..len
    OBVIOUS
  <1>12. key' \in [Nodes -> 0..(len + 1)]
         /\ \A m \in Nodes : key'[m] = IF m \in M THEN len + 1 ELSE key[m]
    <2>1. key \in [Nodes -> 0..len]
      BY <1>9 DEF GraphsInv
    <2> QED
      BY <1>1, <1>4, <1>5, <1>9, <2>1
  <1>13. ASSUME NEW m \in M PROVE key[m] = 0
    <2> SUFFICES ASSUME key[m] # 0 PROVE FALSE
      OBVIOUS
    <2>1. m \in Nodes /\ key[m] \in 1..len
      BY <1>7, <1>9 DEF GraphsInv
    <2>2. PICK k \in 1..len : k = key[m]
      BY <2>1
    <2>3. m \in graphs[k] /\ graphs[k] = Closure(Linked, {m})
      BY <1>9, <2>1, <2>2 DEF GraphsInv
    <2>4. o \in graphs[k]
      BY <1>7, <1>8, <2>3
    <2>5. key[o] = k
      BY <1>9, <2>4 DEF GraphsInv
    <2> QED
      BY <1>1, <1>4, <2>5
  <1>14. ASSUME NEW k \in 1..(len + 1), NEW m \in Nodes PROVE m \in graphs'[k] <=> key'[m] = k
    <2>1. CASE k = len + 1
      <3>1. key[m] \in 0..len
        BY <1>9 DEF GraphsInv
      <3>2. key[m] # len + 1
        BY <3>1
      <3> QED
        BY <1>10, <1>12, <2>1, <3>2
    <2>2. CASE k \in 1..len
      <3>1. m \in graphs[k] <=> key[m] = k
        BY <1>9, <2>2 DEF GraphsInv
      <3>2. k # 0 /\ k # len + 1
        BY <2>2
      <3> QED
        BY <1>10, <1>12, <1>13, <2>2, <3>1, <3>2
    <2> QED
      BY <1>11, <2>1, <2>2
  <1>15. ASSUME NEW k \in 1..(len + 1), NEW m \in graphs'[k] PROVE graphs'[k] = Closure(Linked, {m})
    <2>1. CASE k = len + 1
      BY <1>8, <1>10, <2>1
    <2>2. CASE k \in 1..len
      BY <1>9, <1>10, <2>2 DEF GraphsInv
    <2> QED
      BY <1>11, <2>1, <2>2
  <1>16. /\ graphs' \in Seq(SUBSET Nodes') /\ key' \in [Nodes' -> 0..Len(graphs')]
         /\ \A k \in 1..Len(graphs') : \A m \in Nodes' : m \in graphs'[k] <=> key'[m] = k
         /\ \A k \in 1..Len(graphs') : \A m \in graphs'[k] : graphs'[k] = Closure(Linked', {m})
    BY <1>2, <1>10, <1>12, <1>14, <1>15
  <1>17. stage' = "built"
    BY <1>1
  <1> QED
    BY <1>16, <1>17 DEF GraphsInv

LEMMA NextGraphs ==
    ASSUME Serial, ObjectsInv, GraphsInv, [Next]_vars
    PROVE  GraphsInv'
  <1>1. CASE UNCHANGED vars
    BY <1>1, SameGraphs DEF vars, texts, objects, memos
  <1>2. CASE Build
    <2>1. PICK w \in Edited : ws' = w /\ ClearMemos(w)
      BY <1>2 DEF Build
    <2>2. (graphs = <<>> /\ key = [n \in Nodes |-> 0])'
      BY <2>1 DEF ClearMemos, NothingKept, Nodes, Positions
    <2> QED
      BY <2>2, NoGraphs, PTL
  <1>3. CASE LoadSchema \/ InterfaceSchema \/ NameSupertypes \/ WireSchema \/ EnterSubtypes \/ Interrupt
    <2>1. stage # "built" /\ ws' = ws /\ graphs' = graphs /\ key' = key
      BY <1>3, BuildingKeeps
    <2>2. Nodes' = Nodes
      BY <2>1, SameTexts
    <2>3. graphs = <<>> /\ Len(graphs) = 0 /\ 1..0 = {}
      BY <2>1, EmptySeq DEF GraphsInv
    <2> QED
      BY <2>1, <2>2, <2>3 DEF GraphsInv
  <1>4. ASSUME NEW s, AskResources(s) PROVE GraphsInv'
    <2>1. UNCHANGED <<ws, schemas, supers, stage, graphs, key>>
      BY <1>4 DEF AskResources, Answers, texts, objects
    <2> QED
      BY <2>1, SameGraphs
  <1>5. ASSUME NEW n, AskRelatives(n, "up") \/ AskRelatives(n, "down") \/ AskVisible(n) PROVE GraphsInv'
    <2>1. UNCHANGED <<ws, schemas, supers, stage, graphs, key>>
      BY <1>5 DEF AskRelatives, AskVisible, Answers, texts, objects
    <2> QED
      BY <2>1, SameGraphs
  <1>6. ASSUME NEW n \in Nodes, AskGraph(n) PROVE GraphsInv'
    BY <1>6, AskGraphKeeps
  <1> QED
    BY <1>1, <1>2, <1>3, <1>4, <1>5, <1>6 DEF Next

LEMMA GraphsAreKept == ObjectsInv /\ GraphsInv => GraphsAreComponents
  <1> SUFFICES ASSUME ObjectsInv, GraphsInv, NEW k \in DOMAIN graphs
               PROVE  /\ graphs[k] = {n \in Nodes : key[n] = k}
                      /\ \A n \in graphs[k] : graphs[k] = {n} \cup Reached(Linked, n)
    BY DEF GraphsAreComponents, Linked
  <1>1. k \in 1..Len(graphs) /\ graphs[k] \in SUBSET Nodes
    BY DEF GraphsInv
  <1>2. Typed
    BY DEF ObjectsInv, Typed
  <1>3. ASSUME NEW n \in graphs[k] PROVE graphs[k] = {n} \cup Reached(Linked, n)
    <2>1. n \in Nodes /\ graphs[k] = Closure(Linked, {n})
      BY <1>1 DEF GraphsInv
    <2>2. IsFiniteSet(Nodes) /\ Linked \in [Nodes -> SUBSET Nodes]
      BY <1>2, NodesFinite, LinksTyped DEF Typed
    <2>3. Reached(Linked, n) = Closure(Linked, Linked[n])
      BY <2>1, <2>2, ReachedIsClosure
    <2>4. {n} \cup Closure(Linked, Linked[n]) = Closure(Linked, {n})
      BY <2>1, <2>2, ClosureOfOne
    <2> QED
      BY <2>1, <2>3, <2>4
  <1> QED
    BY <1>1, <1>3 DEF GraphsInv

\* However the SUBTYPE OF clauses connect the entities, and whichever of them was
\* asked for first: every graph a container keeps (getFullSubSuperGraph), when it
\* answers nothing while it is built, is the whole connected component of each of
\* its members, and its key is on exactly these.
THEOREM GraphsAreWhole ==
    ASSUME Serial
    PROVE  Spec => []GraphsAreComponents
  <1>1. ObjectsInv /\ GraphsInv /\ [Next]_vars => GraphsInv'
    BY NextGraphs
  <1> QED
    BY <1>1, InitGraphs, GraphsAreKept, ObjectsInvariance, PTL DEF Spec

----------------------------------------------------------------------------
(* Supertypes and subtypes *)

Calls == [node : Nodes, seen : SUBSET Nodes, pool : Pools]
Walks == [found : SUBSET (Nodes \cup {NoNode}), seen : SUBSET Nodes, pool : Pools]
WalksFrom(S) == {a \in Walks : S \subseteq a.seen}

Call(t, a) == [node |-> t, seen |-> a.seen, pool |-> a.pool]
WalkedOn(collect, a, t) ==
    [found |-> a.found \cup {t} \cup collect[Call(t, a)].found,
     seen |-> collect[Call(t, a)].seen, pool |-> collect[Call(t, a)].pool]
Start(w) == [found |-> {}, seen |-> w.seen \cup {w.node}, pool |-> w.pool]
Gathered(collect, base, q) == FoldLeft(LAMBDA acc, t : WalkedOn(collect, acc, t), base, q)

\* A call answers with a walk that has seen no less.
CollectsFrom(collect, S) == \A t \in Nodes : \A a \in WalksFrom(S) : collect[Call(t, a)] \in WalksFrom(a.seen)

LEMMA WalkedOnTyped ==
    ASSUME NEW collect, NEW S, CollectsFrom(collect, S), NEW a \in WalksFrom(S), NEW t \in Nodes
    PROVE  WalkedOn(collect, a, t) \in WalksFrom(S)
  <1>1. PICK r : r = collect[Call(t, a)] /\ r \in WalksFrom(a.seen)
    BY DEF CollectsFrom
  <1>2. /\ r.found \in SUBSET (Nodes \cup {NoNode}) /\ r.seen \in SUBSET Nodes /\ r.pool \in Pools
        /\ a.seen \subseteq r.seen /\ S \subseteq a.seen
        /\ a.found \in SUBSET (Nodes \cup {NoNode})
    BY <1>1 DEF WalksFrom, Walks
  <1>3. WalkedOn(collect, a, t) = [found |-> a.found \cup {t} \cup r.found, seen |-> r.seen, pool |-> r.pool]
    BY <1>1 DEF WalkedOn
  <1>4. WalkedOn(collect, a, t) \in Walks
    BY <1>2, <1>3 DEF Walks
  <1> QED
    BY <1>2, <1>3, <1>4 DEF WalksFrom

\* The function in that fold.
IsGathering(iter, collect, base, q) ==
    iter = [s \in SUBSET DOMAIN q |->
               IF s = {} THEN base
               ELSE LET x == Max(s) IN WalkedOn(collect, iter[s \ {x}], q[x])]

LEMMA GatheringExists ==
    ASSUME NEW collect, NEW S, CollectsFrom(collect, S), NEW base \in WalksFrom(S), NEW q \in Seq(Nodes)
    PROVE  \E f : IsGathering(f, collect, base, q)
  <1> DEFINE B == WalksFrom(S)
             op == [p \in B \X Nodes |-> WalkedOn(collect, p[1], p[2])]
  <1>1. op \in [B \X Nodes -> B]
    <2>1. \A a \in B : \A t \in Nodes : WalkedOn(collect, a, t) \in B
      BY WalkedOnTyped
    <2> HIDE DEF B
    <2> QED
      BY <2>1
  <1>2. PICK f \in [SUBSET DOMAIN q -> B] : IsIteration(f, base, q, op)
    <2> HIDE DEF op, B
    <2>1. base \in B
      BY DEF B
    <2> QED
      BY <1>1, <2>1, FoldExists
  <1> HIDE DEF B
  <1>3. ASSUME NEW s \in SUBSET DOMAIN q
        PROVE  f[s] = IF s = {} THEN base
                      ELSE LET x == Max(s) IN WalkedOn(collect, f[s \ {x}], q[x])
    <2>1. CASE s = {}
      BY <1>2, <2>1 DEF IsIteration
    <2>2. CASE s # {}
      <3>1. PICK x : x = Max(s)
        OBVIOUS
      <3>2. x \in s
        <4>1. DOMAIN q = 1..Len(q) /\ Len(q) \in Nat
          OBVIOUS
        <4> QED
          BY <2>2, <3>1, <4>1, LargestNumber
      <3>3. q[x] \in Nodes /\ s \ {x} \in SUBSET DOMAIN q
        BY <3>2
      <3>4. f[s \ {x}] \in B /\ <<f[s \ {x}], q[x]>> \in B \X Nodes
        BY <3>3
      <3>5. f[s] = op[<<f[s \ {x}], q[x]>>]
        BY <1>2, <2>2, <3>1 DEF IsIteration
      <3>6. op[<<f[s \ {x}], q[x]>>] = WalkedOn(collect, f[s \ {x}], q[x])
        BY <3>4
      <3> HIDE DEF op
      <3> QED
        BY <2>2, <3>1, <3>5, <3>6
    <2> QED
      BY <2>1, <2>2
  <1>4. IsGathering(f, collect, base, q)
    BY <1>3 DEF IsGathering
  <1> QED
    BY <1>4

\* The walk before each element of a list.
Gathers(acc, collect, base, q) ==
    /\ acc[0] = base
    /\ \A i \in 1..Len(q) : acc[i] = WalkedOn(collect, acc[i - 1], q[i])

LEMMA FoldGathers ==
    ASSUME NEW collect, NEW S, CollectsFrom(collect, S), NEW base \in WalksFrom(S), NEW q \in Seq(Nodes)
    PROVE  \E acc \in [0..Len(q) -> WalksFrom(S)] :
              Gathers(acc, collect, base, q) /\ Gathered(collect, base, q) = acc[Len(q)]
  <1> DEFINE F == CHOOSE iter : IsGathering(iter, collect, base, q)
             acc == [i \in 0..Len(q) |-> F[1..i]]
  <1>1. IsGathering(F, collect, base, q)
    BY GatheringExists
  <1>2. Gathered(collect, base, q) = F[DOMAIN q]
    BY DEF Gathered, FoldLeft, MapThenFoldSet, IsGathering
  <1> HIDE DEF F
  <1>3. DOMAIN q = 1..Len(q) /\ Len(q) \in Nat /\ 1..0 = {}
    OBVIOUS
  <1>4. acc[0] = base
    <2>1. F[{}] = base
      BY <1>1 DEF IsGathering
    <2>2. acc[0] = F[1..0]
      BY <1>3
    <2> QED
      BY <1>3, <2>1, <2>2
  <1>5. ASSUME NEW i \in 1..Len(q) PROVE acc[i] = WalkedOn(collect, acc[i - 1], q[i])
    <2>1. i \in Nat /\ i # 0 /\ i - 1 \in 0..Len(q) /\ i \in 0..Len(q)
      BY <1>3
    <2>2. Max(1..i) = i /\ (1..i) \ {Max(1..i)} = 1..(i - 1)
      BY <2>1, LargestNumber
    <2>3. 1..i \in SUBSET DOMAIN q /\ 1..i # {}
      <3>1. i \in 1..i /\ \A j \in 1..i : j \in 1..Len(q)
        BY <1>3, <2>1
      <3> QED
        BY <1>3, <3>1
    <2>4. F[1..i] = WalkedOn(collect, F[1..(i - 1)], q[i])
      BY <1>1, <2>2, <2>3 DEF IsGathering
    <2>5. acc[i] = F[1..i] /\ acc[i - 1] = F[1..(i - 1)]
      BY <2>1
    <2> HIDE DEF acc
    <2> QED
      BY <2>4, <2>5
  <1>6. acc[Len(q)] = F[DOMAIN q]
    <2>1. Len(q) \in 0..Len(q)
      BY <1>3
    <2> QED
      BY <1>3, <2>1
  <1>7. acc = [i \in 0..Len(q) |-> acc[i]]
    OBVIOUS
  <1> HIDE DEF acc
  <1>8. \A i \in 0..Len(q) : acc[i] \in WalksFrom(S)
    <2> DEFINE P == {i \in 0..Len(q) : acc[i] \in WalksFrom(S)}
    <2>1. 0 \in P
      BY <1>3, <1>4
    <2>2. ASSUME NEW i \in 1..Len(q), i - 1 \in P PROVE i \in P
      <3>1. q[i] \in Nodes /\ acc[i - 1] \in WalksFrom(S) /\ i \in 0..Len(q)
        BY <1>3, <2>2
      <3>2. acc[i] \in WalksFrom(S)
        BY <1>5, <3>1, WalkedOnTyped
      <3> QED
        BY <3>1, <3>2
    <2> HIDE DEF P
    <2>3. 0..Len(q) \subseteq P
      BY <1>3, <2>1, <2>2, NumberByNumber
    <2> QED
      BY <2>3 DEF P
  <1>9. acc \in [0..Len(q) -> WalksFrom(S)]
    BY <1>7, <1>8
  <1> QED
    BY <1>2, <1>4, <1>5, <1>6, <1>9 DEF Gathers

\* What a call answers, for any lists.
Spread(collect, list, w) ==
    LET walk == Gathered(collect, Start(w), list[w.node]) IN [walk EXCEPT !.pool[w.node] = walk.found]
Answer(collect, list, w) ==
    IF w.pool[w.node] # Unset THEN [found |-> w.pool[w.node], seen |-> w.seen, pool |-> w.pool]
    ELSE IF w.node \in w.seen THEN [found |-> {}, seen |-> w.seen, pool |-> w.pool]
    ELSE Spread(collect, list, w)
IsCollecting(collect, list) == collect = [w \in Calls |-> Answer(collect, list, w)]

LEMMA CallsTyped ==
    ASSUME NEW w \in Calls
    PROVE  /\ w.node \in Nodes /\ w.seen \in SUBSET Nodes /\ w.pool \in Pools
           /\ w.pool[w.node] \in SUBSET (Nodes \cup {NoNode})
           /\ Start(w) \in WalksFrom(w.seen \cup {w.node})
  <1>1. w.node \in Nodes /\ w.seen \in SUBSET Nodes /\ w.pool \in Pools
    BY DEF Calls
  <1>2. w.pool[w.node] \in SUBSET (Nodes \cup {NoNode})
    BY <1>1 DEF Pools
  <1>3. Start(w) \in Walks
    BY <1>1 DEF Start, Walks
  <1>4. Start(w).seen = w.seen \cup {w.node}
    BY DEF Start
  <1> QED
    BY <1>1, <1>2, <1>3, <1>4 DEF WalksFrom

LEMMA CallOfWalk ==
    ASSUME NEW t \in Nodes, NEW S, NEW a \in WalksFrom(S)
    PROVE  /\ Call(t, a) \in Calls /\ Call(t, a).node = t /\ Call(t, a).seen = a.seen
           /\ Call(t, a).pool = a.pool /\ a.seen \in SUBSET Nodes /\ S \subseteq a.seen
  BY DEF Call, Calls, WalksFrom, Walks

LEMMA SpreadIs ==
    ASSUME NEW collect, NEW list \in [Nodes -> Seq(Nodes)], NEW w \in Calls,
           CollectsFrom(collect, w.seen \cup {w.node})
    PROVE  \E walk \in WalksFrom(w.seen \cup {w.node}) :
              /\ walk = Gathered(collect, Start(w), list[w.node])
              /\ Spread(collect, list, w) = [found |-> walk.found, seen |-> walk.seen,
                                             pool |-> [walk.pool EXCEPT ![w.node] = walk.found]]
              /\ Spread(collect, list, w) \in WalksFrom(w.seen)
  <1>1. w.node \in Nodes /\ Start(w) \in WalksFrom(w.seen \cup {w.node})
    BY CallsTyped
  <1>2. PICK q \in Seq(Nodes) : q = list[w.node]
    BY <1>1
  <1>3. PICK S : S = w.seen \cup {w.node}
    OBVIOUS
  <1>4. PICK base \in WalksFrom(S) : base = Start(w)
    BY <1>1, <1>3
  <1>5. PICK acc \in [0..Len(q) -> WalksFrom(S)] : Gathered(collect, base, q) = acc[Len(q)]
    <2>1. CollectsFrom(collect, S) /\ base \in WalksFrom(S) /\ q \in Seq(Nodes)
      BY <1>3, <1>4
    <2> QED
      BY ONLY <2>1, FoldGathers
  <1>6. PICK walk \in WalksFrom(S) : walk = Gathered(collect, Start(w), list[w.node])
    <2>1. Len(q) \in 0..Len(q)
      OBVIOUS
    <2> QED
      BY <1>2, <1>4, <1>5, <2>1
  <1>7. /\ walk = [found |-> walk.found, seen |-> walk.seen, pool |-> walk.pool]
        /\ walk.found \in SUBSET (Nodes \cup {NoNode}) /\ walk.seen \in SUBSET Nodes /\ walk.pool \in Pools
        /\ w.seen \subseteq walk.seen
    BY <1>3 DEF WalksFrom, Walks
  <1>8. PICK r : r = [found |-> walk.found, seen |-> walk.seen,
                      pool |-> [walk.pool EXCEPT ![w.node] = walk.found]]
    OBVIOUS
  <1>9. Spread(collect, list, w) = r
    <2>1. Spread(collect, list, w) = [walk EXCEPT !.pool[w.node] = walk.found]
      BY <1>6 DEF Spread
    <2> QED
      BY <1>7, <1>8, <2>1
  <1>10. r \in WalksFrom(w.seen)
    <2>1. [walk.pool EXCEPT ![w.node] = walk.found] \in Pools
      BY <1>1, <1>7 DEF Pools
    <2> QED
      BY <1>7, <1>8, <2>1 DEF WalksFrom, Walks
  <1> QED
    BY <1>3, <1>6, <1>8, <1>9, <1>10

LEMMA AnswerTyped ==
    ASSUME NEW collect, NEW list \in [Nodes -> Seq(Nodes)], NEW w \in Calls,
           w.node \notin w.seen => CollectsFrom(collect, w.seen \cup {w.node})
    PROVE  Answer(collect, list, w) \in WalksFrom(w.seen)
  <1>1. /\ w.node \in Nodes /\ w.seen \in SUBSET Nodes /\ w.pool \in Pools
        /\ w.pool[w.node] \in SUBSET (Nodes \cup {NoNode})
    BY CallsTyped
  <1>2. CASE w.pool[w.node] # Unset
    BY <1>1, <1>2 DEF Answer, WalksFrom, Walks
  <1>3. CASE w.pool[w.node] = Unset /\ w.node \in w.seen
    BY <1>1, <1>3 DEF Answer, WalksFrom, Walks
  <1>4. CASE w.pool[w.node] = Unset /\ w.node \notin w.seen
    <2>1. Spread(collect, list, w) \in WalksFrom(w.seen)
      BY <1>4, SpreadIs
    <2> QED
      BY <1>4, <2>1 DEF Answer
  <1> QED
    BY <1>2, <1>3, <1>4

\* Two functions that answer alike once more has been seen.
CollectAlike(f, g, S) ==
    /\ CollectsFrom(f, S) /\ CollectsFrom(g, S)
    /\ \A t \in Nodes : \A a \in WalksFrom(S) : f[Call(t, a)] = g[Call(t, a)]

LEMMA AnswersAgree ==
    ASSUME NEW f, NEW g, NEW list \in [Nodes -> Seq(Nodes)], NEW w \in Calls,
           w.node \notin w.seen => CollectAlike(f, g, w.seen \cup {w.node})
    PROVE  Answer(f, list, w) = Answer(g, list, w)
  <1>1. CASE w.pool[w.node] # Unset \/ w.node \in w.seen
    BY <1>1 DEF Answer
  <1>2. CASE w.pool[w.node] = Unset /\ w.node \notin w.seen
    <2>0. w.node \in Nodes /\ Start(w) \in WalksFrom(w.seen \cup {w.node})
      BY CallsTyped
    <2> PICK S, base : S = w.seen \cup {w.node} /\ base = Start(w)
      OBVIOUS
    <2> PICK q \in Seq(Nodes) : q = list[w.node]
      BY <2>0
    <2>1. S = w.seen \cup {w.node} /\ base = Start(w) /\ base \in WalksFrom(S) /\ q = list[w.node]
      BY <2>0
    <2>2. CollectsFrom(f, S) /\ CollectsFrom(g, S) /\ base \in WalksFrom(S) /\ q \in Seq(Nodes)
      BY <1>2, <2>1 DEF CollectAlike
    <2>3. PICK acc \in [0..Len(q) -> WalksFrom(S)] :
              Gathers(acc, f, base, q) /\ Gathered(f, base, q) = acc[Len(q)]
      BY ONLY <2>2, FoldGathers
    <2>4. PICK bcc \in [0..Len(q) -> WalksFrom(S)] :
              Gathers(bcc, g, base, q) /\ Gathered(g, base, q) = bcc[Len(q)]
      BY ONLY <2>2, FoldGathers
    <2>5. Len(q) \in Nat /\ 0 \in 0..Len(q) /\ Len(q) \in 0..Len(q)
      OBVIOUS
    <2> DEFINE P == {i \in 0..Len(q) : acc[i] = bcc[i]}
    <2>6. 0 \in P
      BY <2>3, <2>4, <2>5 DEF Gathers
    <2>7. ASSUME NEW i \in 1..Len(q), i - 1 \in P PROVE i \in P
      <3>1. i \in 0..Len(q) /\ i - 1 \in 0..Len(q) /\ q[i] \in Nodes
        BY <2>5
      <3>2. PICK a \in WalksFrom(S) : a = acc[i - 1] /\ a = bcc[i - 1]
        BY <2>3, <2>7, <3>1
      <3>3. f[Call(q[i], a)] = g[Call(q[i], a)]
        BY <1>2, <2>1, <3>1 DEF CollectAlike
      <3>4. acc[i] = WalkedOn(f, a, q[i]) /\ bcc[i] = WalkedOn(g, a, q[i])
        BY <2>3, <2>4, <3>2 DEF Gathers
      <3>5. acc[i] = bcc[i]
        BY <3>3, <3>4 DEF WalkedOn
      <3> QED
        BY <3>1, <3>5
    <2> HIDE DEF P
    <2>8. Len(q) \in P
      BY <2>5, <2>6, <2>7, NumberByNumber
    <2>9. Gathered(f, base, q) = Gathered(g, base, q)
      BY <2>3, <2>4, <2>8 DEF P
    <2> QED
      BY <2>1, <2>9 DEF Answer, Spread
  <1> QED
    BY <1>1, <1>2

LEMMA CollectingExists ==
    ASSUME IsFiniteSet(Nodes), NEW list \in [Nodes -> Seq(Nodes)]
    PROVE  \E collect : IsCollecting(collect, list)
  <1> DEFINE F == {f \in [Calls -> Walks] : \A w \in Calls : f[w] \in WalksFrom(w.seen)}
             rank == [w \in Calls |-> Cardinality(Nodes \ w.seen)]
             step == [f \in F |-> [w \in Calls |-> Answer(f, list, w)]]
  <1>1. ASSUME NEW w \in Calls
        PROVE  /\ rank[w] = Cardinality(Nodes \ w.seen)
               /\ rank[w] \in Nat /\ rank[w] < Cardinality(Nodes) + 1 /\ Cardinality(Nodes) \in Nat
    <2>1. Nodes \ w.seen \in SUBSET Nodes
      OBVIOUS
    <2>2. /\ Cardinality(Nodes \ w.seen) \in Nat /\ Cardinality(Nodes) \in Nat
          /\ Cardinality(Nodes \ w.seen) <= Cardinality(Nodes)
      BY <2>1, FS_CardinalityType, FS_Subset
    <2>3. rank[w] = Cardinality(Nodes \ w.seen)
      OBVIOUS
    <2> HIDE DEF rank
    <2> QED
      BY <2>2, <2>3
  <1>2. ASSUME NEW f \in F, NEW S PROVE CollectsFrom(f, S)
    <2>1. ASSUME NEW t \in Nodes, NEW a \in WalksFrom(S) PROVE f[Call(t, a)] \in WalksFrom(a.seen)
      <3>1. Call(t, a) \in Calls /\ Call(t, a).seen = a.seen
        BY CallOfWalk
      <3> QED
        BY <3>1
    <2> QED
      BY <2>1 DEF CollectsFrom
  <1>3. ASSUME NEW f \in F, NEW g \in F, NEW w \in Calls,
               \A v \in Calls : rank[v] < rank[w] => f[v] = g[v]
        PROVE  Answer(f, list, w) = Answer(g, list, w)
    <2>1. ASSUME w.node \notin w.seen, NEW t \in Nodes, NEW a \in WalksFrom(w.seen \cup {w.node})
          PROVE  f[Call(t, a)] = g[Call(t, a)]
      <3>1. /\ Call(t, a) \in Calls /\ Call(t, a).seen = a.seen
            /\ w.seen \subseteq a.seen /\ w.node \in a.seen
        BY CallOfWalk
      <3>2. w.node \in Nodes
        BY CallsTyped
      <3>3. Cardinality(Nodes \ a.seen) < Cardinality(Nodes \ w.seen)
        BY <2>1, <3>1, <3>2, LessIsLeft
      <3>4. rank[Call(t, a)] < rank[w]
        <4> HIDE DEF rank
        <4> QED
          BY <1>1, <3>1, <3>3
      <3> HIDE DEF F, rank
      <3> QED
        BY <1>3, <3>1, <3>4
    <2>2. w.node \notin w.seen => CollectAlike(f, g, w.seen \cup {w.node})
      <3> HIDE DEF F, rank
      <3> QED
        BY <1>2, <2>1 DEF CollectAlike
    <2> QED
      BY <2>2, AnswersAgree
  <1>4. ASSUME NEW f \in F PROVE step[f] \in F
    <2>1. ASSUME NEW w \in Calls PROVE Answer(f, list, w) \in WalksFrom(w.seen)
      <3>1. CollectsFrom(f, w.seen \cup {w.node})
        BY <1>2
      <3> QED
        BY <3>1, AnswerTyped
    <2>2. \A w \in Calls : WalksFrom(w.seen) \subseteq Walks
      BY DEF WalksFrom
    <2>3. [w \in Calls |-> Answer(f, list, w)] \in F
      BY <2>1, <2>2
    <2> QED
      BY <2>3
  <1>5. F # {} /\ \A f \in F : f = [w \in Calls |-> f[w]]
    <2>1. ASSUME NEW w \in Calls
          PROVE  [found |-> {}, seen |-> w.seen, pool |-> w.pool] \in WalksFrom(w.seen)
      BY CallsTyped DEF WalksFrom, Walks
    <2>2. \A w \in Calls : WalksFrom(w.seen) \subseteq Walks
      BY DEF WalksFrom
    <2>3. [w \in Calls |-> [found |-> {}, seen |-> w.seen, pool |-> w.pool]] \in F
      BY <2>1, <2>2
    <2> QED
      BY <2>3
  <1>6. LooksLower(Calls, F, rank, step)
    <2>1. rank \in [Calls -> Nat] /\ \E K \in Nat : \A w \in Calls : rank[w] < K
      <3>1. Cardinality(Nodes) + 1 \in Nat
        BY FS_CardinalityType
      <3>2. rank = [w \in Calls |-> rank[w]]
        OBVIOUS
      <3> HIDE DEF rank
      <3> QED
        BY <1>1, <3>1, <3>2
    <2>2. step \in [F -> F]
      <3>1. step = [f \in F |-> step[f]]
        OBVIOUS
      <3> HIDE DEF step, F
      <3> QED
        BY <1>4, <3>1
    <2>3. ASSUME NEW f \in F, NEW g \in F, NEW w \in Calls,
                 \A v \in Calls : rank[v] < rank[w] => f[v] = g[v]
          PROVE  step[f][w] = step[g][w]
      <3>1. Answer(f, list, w) = Answer(g, list, w)
        <4> HIDE DEF F, rank
        <4> QED
          BY <1>3, <2>3
      <3> HIDE DEF F, rank
      <3> QED
        BY <3>1
    <2> HIDE DEF F, rank, step
    <2> QED
      BY <1>5, <2>1, <2>2, <2>3 DEF LooksLower
  <1>7. PICK f \in F : step[f] = f
    <2> HIDE DEF F, rank, step
    <2> QED
      BY <1>6, RecursionExists
  <1>8. f = [w \in Calls |-> Answer(f, list, w)]
    <2> HIDE DEF F
    <2> QED
      BY <1>7
  <1> QED
    BY <1>8 DEF IsCollecting

\* Everything an entity leads to, and an entity from which nothing leads back to
\* where it came from.
Led(next, n) == Closure(next, next[n])
Calm(next, n) == \A m \in {n} \cup Led(next, n) : m \notin Led(next, m)

LEMMA LedFacts ==
    ASSUME NEW D, NEW next \in [D -> SUBSET D], NEW n \in D
    PROVE  /\ Led(next, n) \in SUBSET D /\ next[n] \subseteq Led(next, n)
           /\ IsClosed(next, Led(next, n))
           /\ \A C \in SUBSET D : next[n] \subseteq C /\ IsClosed(next, C) => Led(next, n) \subseteq C
           /\ \A t \in Led(next, n) : Led(next, t) \subseteq Led(next, n)
  <1>1. ASSUME NEW m \in D
        PROVE  /\ Led(next, m) \in SUBSET D /\ next[m] \subseteq Led(next, m)
               /\ IsClosed(next, Led(next, m))
               /\ \A C \in SUBSET D : next[m] \subseteq C /\ IsClosed(next, C) => Led(next, m) \subseteq C
    <2>1. next[m] \in SUBSET D
      OBVIOUS
    <2> QED
      BY <2>1, ClosureIsLeast DEF Led
  <1>2. ASSUME NEW t \in Led(next, n) PROVE Led(next, t) \subseteq Led(next, n)
    <2>1. t \in D /\ next[t] \subseteq Led(next, n)
      BY <1>1 DEF IsClosed
    <2> QED
      BY <1>1, <2>1
  <1> QED
    BY <1>1, <1>2

LEMMA CalmFacts ==
    ASSUME NEW D, NEW next \in [D -> SUBSET D], NEW n \in D, Calm(next, n)
    PROVE  n \notin Led(next, n) /\ \A t \in next[n] : Calm(next, t)
  <1>1. n \notin Led(next, n)
    BY DEF Calm
  <1>2. ASSUME NEW t \in next[n] PROVE Calm(next, t)
    <2>1. t \in Led(next, n) /\ Led(next, t) \subseteq Led(next, n)
      BY LedFacts
    <2> QED
      BY <2>1 DEF Calm
  <1> QED
    BY <1>1, <1>2

\* What may be kept of an entity, and what a pool has of all of them.
RightFor(next, m, X) ==
    next[m] \subseteq X /\ X \subseteq Led(next, m) /\ (Calm(next, m) => X = Led(next, m))
KeptRight(next, pool) == \A m \in Nodes : pool[m] # Unset => RightFor(next, m, pool[m])

\* The entities that have been seen and have no answer yet lead to the one asked for.
UnderWay(seen, pool) == {m \in seen : pool[m] = Unset}
Ready(next, w) == KeptRight(next, w.pool) /\ \A m \in UnderWay(w.seen, w.pool) : w.node \in Led(next, m)

\* A call finds no more than the entity leads to, all of it for a calm one, and
\* leaves no entity without an answer that was not without one before.
RightAnswer(next, w, r) ==
    /\ KeptRight(next, r.pool)
    /\ UnderWay(r.seen, r.pool) \subseteq UnderWay(w.seen, w.pool)
    /\ r.found \subseteq Led(next, w.node)
    /\ Calm(next, w.node) => r.found = Led(next, w.node)

\* The same of the walk over the first i of the list of the entity.
RightSoFar(next, list, w, i, a) ==
    /\ KeptRight(next, a.pool)
    /\ UnderWay(a.seen, a.pool) \subseteq UnderWay(w.seen, w.pool) \cup {w.node}
    /\ a.found \subseteq Led(next, w.node)
    /\ \A j \in 1..i : /\ list[w.node][j] \in a.found
                       /\ Calm(next, w.node) => Led(next, list[w.node][j]) \subseteq a.found

Lists(next, list) == /\ next \in [Nodes -> SUBSET Nodes] /\ list \in [Nodes -> Seq(Nodes)]
                     /\ \A n \in Nodes : Elems(list[n]) = next[n]

LEMMA NoNodeIsNone == ws \in Workspaces => NoNode \notin Nodes
  <1> SUFFICES ASSUME ws \in Workspaces, NoNode \in Nodes PROVE FALSE
    OBVIOUS
  <1>1. PICK s \in Positions : \E d \in DOMAIN ws[s].decls : NoNode = <<s, d>>
    BY TextsTyped
  <1>2. s \in 1..Len(ws) /\ Len(ws) \in Nat
    BY TextsTyped
  <1>3. s = 0
    BY <1>1 DEF NoNode
  <1> QED
    BY <1>2, <1>3

LEMMA CalledReady ==
    ASSUME NEW next, NEW list, Lists(next, list), NEW w \in Calls, Ready(next, w),
           NEW i \in 1..Len(list[w.node]), NEW a \in WalksFrom(w.seen \cup {w.node}),
           RightSoFar(next, list, w, i - 1, a)
    PROVE  /\ list[w.node][i] \in Nodes /\ list[w.node][i] \in next[w.node]
           /\ Ready(next, Call(list[w.node][i], a))
  <1>1. w.node \in Nodes /\ next \in [Nodes -> SUBSET Nodes]
    BY CallsTyped DEF Lists
  <1>2. PICK t : t = list[w.node][i] /\ t \in next[w.node] /\ t \in Nodes
    <2>1. list[w.node][i] \in Elems(list[w.node])
      BY DEF Elems
    <2> QED
      BY <1>1, <2>1 DEF Lists
  <1>3. Call(t, a).node = t /\ Call(t, a).seen = a.seen /\ Call(t, a).pool = a.pool
    BY DEF Call
  <1>4. ASSUME NEW m \in UnderWay(a.seen, a.pool) PROVE t \in Led(next, m)
    <2>1. CASE m = w.node
      BY <1>1, <1>2, <2>1, LedFacts
    <2>2. CASE m \in UnderWay(w.seen, w.pool)
      <3>1. m \in Nodes /\ w.node \in Led(next, m)
        BY <2>2, CallsTyped DEF Ready, UnderWay
      <3>2. next[w.node] \subseteq Led(next, m)
        BY <1>1, <3>1, LedFacts DEF IsClosed
      <3> QED
        BY <1>2, <3>2
    <2> QED
      BY <2>1, <2>2 DEF RightSoFar
  <1>5. KeptRight(next, a.pool)
    BY DEF RightSoFar
  <1> QED
    BY <1>2, <1>3, <1>4, <1>5 DEF Ready

\* A walk goes on over one more of the list, with a right answer.
GoesOn(next, list, w, i, a, b) ==
    \E t \in next[w.node] : \E r :
       /\ t = list[w.node][i] /\ RightAnswer(next, Call(t, a), r)
       /\ b = [found |-> a.found \cup {t} \cup r.found, seen |-> r.seen, pool |-> r.pool]

LEMMA OneMoreWalk ==
    ASSUME NEW next, NEW list, Lists(next, list), NEW w \in Calls,
           NEW i \in 1..Len(list[w.node]), NEW a, RightSoFar(next, list, w, i - 1, a),
           NEW b, GoesOn(next, list, w, i, a, b)
    PROVE  RightSoFar(next, list, w, i, b)
  <1> PICK t \in next[w.node] : \E r :
          /\ t = list[w.node][i] /\ RightAnswer(next, Call(t, a), r)
          /\ b = [found |-> a.found \cup {t} \cup r.found, seen |-> r.seen, pool |-> r.pool]
    BY DEF GoesOn
  <1> PICK r :
          /\ t = list[w.node][i] /\ RightAnswer(next, Call(t, a), r)
          /\ b = [found |-> a.found \cup {t} \cup r.found, seen |-> r.seen, pool |-> r.pool]
    OBVIOUS
  <1>1. w.node \in Nodes /\ next \in [Nodes -> SUBSET Nodes]
    BY CallsTyped DEF Lists
  <1>2. /\ t \in Led(next, w.node) /\ Led(next, t) \subseteq Led(next, w.node)
        /\ Calm(next, w.node) => Calm(next, t)
    BY <1>1, LedFacts, CalmFacts
  <1>3. Call(t, a).node = t /\ Call(t, a).seen = a.seen /\ Call(t, a).pool = a.pool
    BY DEF Call
  <1>4. /\ KeptRight(next, r.pool) /\ UnderWay(r.seen, r.pool) \subseteq UnderWay(a.seen, a.pool)
        /\ r.found \subseteq Led(next, t) /\ (Calm(next, t) => r.found = Led(next, t))
    BY <1>3 DEF RightAnswer
  <1>5. /\ UnderWay(a.seen, a.pool) \subseteq UnderWay(w.seen, w.pool) \cup {w.node}
        /\ a.found \subseteq Led(next, w.node)
        /\ \A j \in 1..(i - 1) : /\ list[w.node][j] \in a.found
                                 /\ Calm(next, w.node) => Led(next, list[w.node][j]) \subseteq a.found
    BY DEF RightSoFar
  <1>6. b.found = a.found \cup {t} \cup r.found /\ b.seen = r.seen /\ b.pool = r.pool
    OBVIOUS
  <1>7. ASSUME NEW j \in 1..i
        PROVE  /\ list[w.node][j] \in b.found
               /\ Calm(next, w.node) => Led(next, list[w.node][j]) \subseteq b.found
    <2>1. j = i \/ j \in 1..(i - 1)
      OBVIOUS
    <2>2. CASE j = i
      BY <1>2, <1>4, <1>6, <2>2
    <2>3. CASE j \in 1..(i - 1)
      BY <1>5, <1>6, <2>3
    <2> QED
      BY <2>1, <2>2, <2>3
  <1>8. b.found \subseteq Led(next, w.node)
    BY <1>2, <1>4, <1>5, <1>6
  <1> QED
    BY <1>4, <1>5, <1>6, <1>7, <1>8 DEF RightSoFar

\* The answer that is kept when the whole list has been walked.
LEMMA WholeWalk ==
    ASSUME ws \in Workspaces, NEW next, NEW list, Lists(next, list), NEW w \in Calls,
           NEW a \in Walks, RightSoFar(next, list, w, Len(list[w.node]), a),
           NEW r, r = [found |-> a.found, seen |-> a.seen, pool |-> [a.pool EXCEPT ![w.node] = a.found]]
    PROVE  RightAnswer(next, w, r)
  <1>1. PICK n \in Nodes : n = w.node
    BY CallsTyped
  <1>2. next \in [Nodes -> SUBSET Nodes] /\ list[n] \in Seq(Nodes) /\ Elems(list[n]) = next[n]
    BY DEF Lists
  <1>3. /\ KeptRight(next, a.pool)
        /\ UnderWay(a.seen, a.pool) \subseteq UnderWay(w.seen, w.pool) \cup {n}
        /\ a.found \subseteq Led(next, n)
        /\ \A t \in next[n] : t \in a.found /\ (Calm(next, n) => Led(next, t) \subseteq a.found)
    BY <1>1, <1>2 DEF RightSoFar, Elems
  <1>4. ASSUME Calm(next, n) PROVE a.found = Led(next, n)
    <2> DEFINE G == next[n] \cup UNION {Led(next, t) : t \in next[n]}
    <2>1. G \subseteq a.found
      BY <1>3, <1>4
    <2>2. ASSUME NEW y \in G PROVE next[y] \subseteq G
      <3>1. CASE y \in next[n]
        <4>1. y \in Nodes
          BY <1>2, <3>1
        <4>2. next[y] \subseteq Led(next, y)
          BY <1>2, <4>1, LedFacts
        <4> QED
          BY <3>1, <4>2
      <3>2. ASSUME NEW t \in next[n], y \in Led(next, t) PROVE next[y] \subseteq G
        <4>1. t \in Nodes
          BY <1>2
        <4>2. next[y] \subseteq Led(next, t)
          BY <1>2, <3>2, <4>1, LedFacts DEF IsClosed
        <4> QED
          BY <4>2
      <3> QED
        BY <3>1, <3>2
    <2>3. IsClosed(next, G)
      BY <2>2 DEF IsClosed
    <2>4. G \in SUBSET Nodes /\ next[n] \subseteq G
      <3>1. \A t \in next[n] : Led(next, t) \in SUBSET Nodes
        <4>1. \A t \in next[n] : t \in Nodes
          BY <1>2
        <4> QED
          BY <1>2, <4>1, LedFacts
      <3> QED
        BY <1>2, <3>1
    <2>5. Led(next, n) \subseteq G
      <3> HIDE DEF G
      <3> QED
        BY <1>2, <2>3, <2>4, LedFacts
    <2> QED
      BY <1>3, <2>1, <2>5
  <1>5. RightFor(next, n, a.found)
    BY <1>3, <1>4 DEF RightFor
  <1>6. a.found # Unset
    <2>1. Led(next, n) \in SUBSET Nodes
      BY <1>2, LedFacts
    <2> QED
      BY <1>3, <2>1, NoNodeIsNone DEF Unset
  <1>7. /\ r.found = a.found /\ r.seen = a.seen
        /\ \A m \in Nodes : r.pool[m] = IF m = n THEN a.found ELSE a.pool[m]
        /\ a.seen \in SUBSET Nodes
    BY <1>1 DEF Walks, Pools
  <1>8. KeptRight(next, r.pool)
    BY <1>3, <1>5, <1>7 DEF KeptRight
  <1>9. UnderWay(r.seen, r.pool) \subseteq UnderWay(w.seen, w.pool)
    BY <1>3, <1>6, <1>7 DEF UnderWay
  <1> QED
    BY <1>1, <1>3, <1>4, <1>7, <1>8, <1>9 DEF RightAnswer

\* The walk over the list of an entity, when the calls it makes answer right.
LEMMA SpreadRight ==
    ASSUME ws \in Workspaces, NEW next, NEW list, Lists(next, list), NEW collect, NEW w \in Calls,
           CollectsFrom(collect, w.seen \cup {w.node}), Ready(next, w),
           \A t \in Nodes : \A a \in WalksFrom(w.seen \cup {w.node}) :
               Ready(next, Call(t, a)) => RightAnswer(next, Call(t, a), collect[Call(t, a)])
    PROVE  RightAnswer(next, w, Spread(collect, list, w))
  <1>1. w.node \in Nodes /\ Start(w) \in WalksFrom(w.seen \cup {w.node}) /\ list \in [Nodes -> Seq(Nodes)]
    BY CallsTyped DEF Lists
  <1> PICK S, base : S = w.seen \cup {w.node} /\ base = Start(w)
    OBVIOUS
  <1> PICK q \in Seq(Nodes) : q = list[w.node]
    BY <1>1
  <1>2. CollectsFrom(collect, S) /\ base \in WalksFrom(S) /\ q \in Seq(Nodes)
    BY <1>1
  <1>3. PICK acc \in [0..Len(q) -> WalksFrom(S)] :
            Gathers(acc, collect, base, q) /\ Gathered(collect, base, q) = acc[Len(q)]
    BY ONLY <1>2, FoldGathers
  <1>4. Len(q) \in Nat /\ 0 \in 0..Len(q) /\ Len(q) \in 0..Len(q)
    OBVIOUS
  <1> DEFINE P == {i \in 0..Len(q) : RightSoFar(next, list, w, i, acc[i])}
  <1>5. 0 \in P
    <2>1. acc[0] = base
      BY <1>3 DEF Gathers
    <2>2. RightSoFar(next, list, w, 0, base)
      <3>1. base.found = {} /\ base.seen = w.seen \cup {w.node} /\ base.pool = w.pool
        BY DEF Start
      <3>2. KeptRight(next, base.pool)
        BY <3>1 DEF Ready
      <3>3. UnderWay(base.seen, base.pool) \subseteq UnderWay(w.seen, w.pool) \cup {w.node}
        BY <3>1 DEF UnderWay
      <3>4. base.found \subseteq Led(next, w.node)
        BY <3>1
      <3>5. \A j \in 1..0 : FALSE
        OBVIOUS
      <3> QED
        BY <3>2, <3>3, <3>4, <3>5 DEF RightSoFar
    <2> QED
      BY <1>4, <2>1, <2>2
  <1>6. ASSUME NEW i \in 1..Len(q), i - 1 \in P PROVE i \in P
    <2>1. i \in 0..Len(q) /\ i - 1 \in 0..Len(q)
      BY <1>4
    <2>2. PICK a \in WalksFrom(S) : a = acc[i - 1]
      BY <1>3, <2>1
    <2>3. RightSoFar(next, list, w, i - 1, a)
      BY <1>6, <2>2
    <2>4. PICK t \in Nodes : t = q[i] /\ t \in next[w.node] /\ Ready(next, Call(t, a))
      BY <2>3, CalledReady
    <2>5. PICK r : r = collect[Call(t, a)] /\ RightAnswer(next, Call(t, a), r)
      BY <2>4
    <2>6. PICK b : b = acc[i] /\ b = [found |-> a.found \cup {t} \cup r.found, seen |-> r.seen, pool |-> r.pool]
      BY <1>3, <2>2, <2>4, <2>5 DEF Gathers, WalkedOn
    <2>7. RightSoFar(next, list, w, i, b)
      <3>1. GoesOn(next, list, w, i, a, b)
        BY <2>4, <2>5, <2>6 DEF GoesOn
      <3>2. Lists(next, list) /\ w \in Calls /\ i \in 1..Len(list[w.node])
        OBVIOUS
      <3> QED
        BY ONLY <2>3, <3>1, <3>2, OneMoreWalk
    <2> QED
      BY <2>1, <2>6, <2>7
  <1> HIDE DEF P
  <1>7. Len(q) \in P
    BY <1>4, <1>5, <1>6, NumberByNumber
  <1>8. PICK walk \in WalksFrom(S) :
            /\ walk = Gathered(collect, Start(w), list[w.node])
            /\ Spread(collect, list, w) = [found |-> walk.found, seen |-> walk.seen,
                                           pool |-> [walk.pool EXCEPT ![w.node] = walk.found]]
    BY <1>1, SpreadIs, ZenonT(40)
  <1>9. walk \in Walks /\ RightSoFar(next, list, w, Len(list[w.node]), walk)
    BY <1>3, <1>7, <1>8 DEF P, WalksFrom
  <1> QED
    BY <1>8, <1>9, WholeWalk

LEMMA CollectingRight ==
    ASSUME ws \in Workspaces, NEW next, NEW list, Lists(next, list), NEW collect, IsCollecting(collect, list)
    PROVE  \A w \in Calls : Ready(next, w) => RightAnswer(next, w, collect[w]) /\ collect[w] \in Walks
  <1> DEFINE Good(w) == /\ collect[w] \in WalksFrom(w.seen)
                        /\ Ready(next, w) => RightAnswer(next, w, collect[w])
             rank == [w \in Calls |-> Cardinality(Nodes \ w.seen)]
             P == {w \in Calls : Good(w)}
  <1>1. IsFiniteSet(Nodes) /\ list \in [Nodes -> Seq(Nodes)]
    BY NodesFinite DEF Lists
  <1>2. rank \in [Calls -> Nat] /\ \A w \in Calls : rank[w] = Cardinality(Nodes \ w.seen)
    <2>1. ASSUME NEW w \in Calls PROVE Cardinality(Nodes \ w.seen) \in Nat
      BY <1>1, FS_Difference, FS_CardinalityType
    <2> QED
      BY <2>1
  <1> HIDE DEF rank
  <1>3. ASSUME NEW w \in Calls, \A v \in Calls : rank[v] < rank[w] => v \in P PROVE w \in P
    <2>1. collect[w] = Answer(collect, list, w)
      BY DEF IsCollecting
    <2>2. w.node \in Nodes /\ w.seen \in SUBSET Nodes
      BY CallsTyped
    <2>3. ASSUME w.node \notin w.seen, NEW t \in Nodes, NEW a \in WalksFrom(w.seen \cup {w.node})
          PROVE  Call(t, a) \in P /\ Call(t, a).seen = a.seen
      <3>1. /\ Call(t, a) \in Calls /\ Call(t, a).seen = a.seen
            /\ w.seen \subseteq a.seen /\ w.node \in a.seen
        BY CallOfWalk
      <3>2. Cardinality(Nodes \ a.seen) < Cardinality(Nodes \ w.seen)
        BY <1>1, <2>2, <2>3, <3>1, LessIsLeft
      <3>3. rank[Call(t, a)] < rank[w]
        BY <1>2, <3>1, <3>2
      <3> HIDE DEF P
      <3> QED
        BY <1>3, <3>1, <3>3
    <2>4. ASSUME w.node \notin w.seen
          PROVE  /\ CollectsFrom(collect, w.seen \cup {w.node})
                 /\ \A t \in Nodes : \A a \in WalksFrom(w.seen \cup {w.node}) :
                       Ready(next, Call(t, a)) => RightAnswer(next, Call(t, a), collect[Call(t, a)])
      <3>1. ASSUME NEW t \in Nodes, NEW a \in WalksFrom(w.seen \cup {w.node})
            PROVE  /\ collect[Call(t, a)] \in WalksFrom(a.seen)
                   /\ Ready(next, Call(t, a)) => RightAnswer(next, Call(t, a), collect[Call(t, a)])
        BY <2>3, <2>4
      <3> QED
        BY <3>1 DEF CollectsFrom
    <2>5. collect[w] \in WalksFrom(w.seen)
      BY <1>1, <2>1, <2>4, AnswerTyped
    <2>6. ASSUME Ready(next, w) PROVE RightAnswer(next, w, collect[w])
      <3>1. CASE w.pool[w.node] # Unset
        <4>1. PICK r : r = collect[w] /\ r.found = w.pool[w.node] /\ r.seen = w.seen /\ r.pool = w.pool
          BY <2>1, <3>1 DEF Answer
        <4>2. RightFor(next, w.node, w.pool[w.node]) /\ KeptRight(next, w.pool)
          BY <2>2, <2>6, <3>1 DEF Ready, KeptRight
        <4> QED
          BY <4>1, <4>2 DEF RightAnswer, RightFor
      <3>2. CASE w.pool[w.node] = Unset /\ w.node \in w.seen
        <4>1. PICK r : r = collect[w] /\ r.found = {} /\ r.seen = w.seen /\ r.pool = w.pool
          BY <2>1, <3>2 DEF Answer
        <4>2. w.node \in Led(next, w.node)
          BY <2>6, <3>2 DEF Ready, UnderWay
        <4>3. ~ Calm(next, w.node)
          BY <4>2 DEF Calm
        <4>4. KeptRight(next, w.pool)
          BY <2>6 DEF Ready
        <4> QED
          BY <4>1, <4>3, <4>4 DEF RightAnswer
      <3>3. CASE w.pool[w.node] = Unset /\ w.node \notin w.seen
        <4>1. collect[w] = Spread(collect, list, w)
          BY <2>1, <3>3 DEF Answer
        <4> QED
          BY <2>4, <2>6, <3>3, <4>1, SpreadRight
      <3> QED
        BY <3>1, <3>2, <3>3
    <2> QED
      BY <2>5, <2>6
  <1>4. Calls \subseteq P
    <2> HIDE DEF P
    <2> QED
      BY <1>2, <1>3, RankInduction
  <1> QED
    BY <1>4 DEF WalksFrom

\* The function in Collected.
IsCollect(collect, dir) ==
    collect = [w \in [node : Nodes, seen : SUBSET Nodes, pool : Pools] |->
            IF Known(w.node, w.seen, w.pool)
            THEN [found |-> w.pool[w.node], seen |-> w.seen, pool |-> w.pool]
            ELSE IF w.node \in w.seen THEN [found |-> {}, seen |-> w.seen, pool |-> w.pool]
            ELSE LET walk == FoldLeft(LAMBDA acc, t :
                                LET rest == collect[[node |-> t, seen |-> acc.seen, pool |-> acc.pool]]
                                IN  [found |-> acc.found \cup {t} \cup rest.found, seen |-> rest.seen,
                                     pool |-> rest.pool],
                             [found |-> {}, seen |-> w.seen \cup {w.node}, pool |-> w.pool],
                             Neighbours(w.node, dir))
                 IN  [walk EXCEPT !.pool[w.node] = walk.found]]

ListOf(dir) == [m \in Nodes |-> Neighbours(m, dir)]
SpreadOver(collect, q, w) ==
    LET walk == Gathered(collect, Start(w), q) IN [walk EXCEPT !.pool[w.node] = walk.found]
AnswerOver(collect, q, w) ==
    IF w.pool[w.node] # Unset THEN [found |-> w.pool[w.node], seen |-> w.seen, pool |-> w.pool]
    ELSE IF w.node \in w.seen THEN [found |-> {}, seen |-> w.seen, pool |-> w.pool]
    ELSE SpreadOver(collect, q, w)

LEMMA CollectIsCollecting ==
    ASSUME NEW collect, NEW dir
    PROVE  IsCollect(collect, dir) <=> IsCollecting(collect, ListOf(dir))
  <1>1. IsCollect(collect, dir)
           <=> collect = [w \in Calls |-> AnswerOver(collect, Neighbours(w.node, dir), w)]
    BY DEF IsCollect, Calls, AnswerOver, SpreadOver, Gathered, WalkedOn, Call, Start, Known
  <1>2. ASSUME NEW w \in Calls
        PROVE  Answer(collect, ListOf(dir), w) = AnswerOver(collect, Neighbours(w.node, dir), w)
    <2>1. ListOf(dir)[w.node] = Neighbours(w.node, dir)
      BY CallsTyped DEF ListOf
    <2> QED
      BY <2>1 DEF Answer, AnswerOver, Spread, SpreadOver
  <1> QED
    BY <1>1, <1>2 DEF IsCollecting

\* A request adds right answers to a pool of right answers.
LEMMA CollectedRight ==
    ASSUME Typed, NEW dir, NEW n \in Nodes, NEW pool \in Pools, KeptRight(NextOf(dir), pool)
    PROVE  Collected(n, dir, pool).pool \in Pools /\ KeptRight(NextOf(dir), Collected(n, dir, pool).pool)
  <1> DEFINE F == CHOOSE collect : IsCollect(collect, dir)
             w == [node |-> n, seen |-> {}, pool |-> pool]
  <1>1. ws \in Workspaces /\ IsFiniteSet(Nodes)
    BY NodesFinite DEF Typed
  <1>2. ListOf(dir) \in [Nodes -> Seq(Nodes)] /\ NextOf(dir) \in [Nodes -> SUBSET Nodes]
    BY NeighboursTyped DEF ListOf
  <1>3. Lists(NextOf(dir), ListOf(dir))
    <2>1. ASSUME NEW m \in Nodes PROVE Elems(ListOf(dir)[m]) = NextOf(dir)[m]
      <3>1. ListOf(dir)[m] = Neighbours(m, dir) /\ Neighbours(m, dir) \in Seq(Nodes)
        BY NeighboursTyped DEF ListOf
      <3>2. NextOf(dir)[m] = Range(Neighbours(m, dir))
        BY DEF NextOf
      <3> QED
        BY <3>1, <3>2, RangeIsElems
    <2> QED
      BY <1>2, <2>1 DEF Lists
  <1>4. IsCollect(F, dir)
    BY <1>1, <1>2, CollectingExists, CollectIsCollecting
  <1>5. Collected(n, dir, pool) = F[w]
    BY DEF Collected, IsCollect
  <1> HIDE DEF F
  <1>6. IsCollecting(F, ListOf(dir))
    BY <1>4, CollectIsCollecting
  <1>7. w \in Calls /\ Ready(NextOf(dir), w)
    BY DEF Calls, Ready, UnderWay
  <1>8. RightAnswer(NextOf(dir), w, F[w]) /\ F[w] \in Walks
    <2> HIDE DEF w
    <2> QED
      BY <1>1, <1>3, <1>6, <1>7, CollectingRight
  <1> QED
    BY <1>5, <1>8 DEF RightAnswer, Walks

\* Supertypes and subtypes are kept only after the build.
RelativesInv ==
    /\ memo = [up |-> memo.up, down |-> memo.down, resources |-> memo.resources]
    /\ \A dir \in {"up", "down"} : memo[dir] \in Pools /\ KeptRight(NextOf(dir), memo[dir])
    /\ stage # "built" => \A dir \in {"up", "down"} : \A n \in Nodes : memo[dir][n] = Unset

LEMMA NothingRelated ==
    ASSUME NEW r, memo = [up |-> [n \in Nodes |-> Unset], down |-> [n \in Nodes |-> Unset], resources |-> r]
    PROVE  RelativesInv
  <1>1. \A dir \in {"up", "down"} : memo[dir] = [n \in Nodes |-> Unset]
    OBVIOUS
  <1>2. \A dir \in {"up", "down"} : memo[dir] \in Pools /\ KeptRight(NextOf(dir), memo[dir])
    BY <1>1 DEF Pools, Unset, KeptRight
  <1> QED
    BY <1>1, <1>2 DEF RelativesInv

LEMMA InitRelatives == Init => RelativesInv
  <1> SUFFICES ASSUME Init PROVE RelativesInv
    OBVIOUS
  <1>1. memo = [up |-> [n \in Nodes |-> Unset], down |-> [n \in Nodes |-> Unset],
                resources |-> [s \in SchemaNames |-> <<NoNode>>]]
    BY DEF Init, NothingKept, Nodes, Positions
  <1> QED
    BY <1>1, NothingRelated

LEMMA SameNext ==
    ASSUME UNCHANGED <<ws, schemas, supers>>
    PROVE  Nodes' = Nodes /\ Pools' = Pools /\ \A dir : NextOf(dir)' = NextOf(dir)
  <1>1. Nodes' = Nodes /\ \A n, dir : Neighbours(n, dir)' = Neighbours(n, dir)
    BY SameTexts, SameNeighbours
  <1> QED
    BY <1>1 DEF NextOf, Pools

LEMMA SameRelatives ==
    ASSUME RelativesInv, UNCHANGED <<ws, schemas, supers, stage>>, memo'.up = memo.up, memo'.down = memo.down,
           memo' = [up |-> memo'.up, down |-> memo'.down, resources |-> memo'.resources]
    PROVE  RelativesInv'
  <1>1. Nodes' = Nodes /\ Pools' = Pools /\ \A dir : NextOf(dir)' = NextOf(dir)
    BY SameNext
  <1>2. \A dir \in {"up", "down"} : memo'[dir] = memo[dir]
    OBVIOUS
  <1>3. ASSUME NEW dir \in {"up", "down"} PROVE (memo[dir] \in Pools)' /\ KeptRight(NextOf(dir), memo[dir])'
    <2>1. memo[dir] \in Pools /\ KeptRight(NextOf(dir), memo[dir])
      BY DEF RelativesInv
    <2> QED
      BY <1>1, <1>2, <2>1 DEF KeptRight
  <1>4. stage' # "built" => \A dir \in {"up", "down"} : \A n \in Nodes' : memo'[dir][n] = Unset
    BY <1>1, <1>2 DEF RelativesInv
  <1> QED
    BY <1>3, <1>4 DEF RelativesInv

LEMMA RememberKeeps ==
    ASSUME RelativesInv, NEW s, memo' = RememberResources(s)
    PROVE  /\ memo'.up = memo.up /\ memo'.down = memo.down
           /\ memo' = [up |-> memo'.up, down |-> memo'.down, resources |-> memo'.resources]
  BY DEF RelativesInv, RememberResources

LEMMA AskRelativesKeeps ==
    ASSUME Serial, ObjectsInv, RelativesInv, NEW n \in Nodes, NEW dir \in {"up", "down"}, AskRelatives(n, dir)
    PROVE  RelativesInv'
  <1>1. /\ stage = "built" /\ UNCHANGED <<ws, schemas, supers, stage>> /\ Object(n) # NoNode
        /\ memo' = [memo EXCEPT ![dir] = Collected(Object(n), dir, memo[dir]).pool]
    BY AskedWhenBuilt DEF AskRelatives
  <1>2. Typed
    BY DEF ObjectsInv, Typed
  <1>3. PICK o \in Nodes : o = Object(n)
    BY <1>1, <1>2, ObjectTyped
  <1>4. memo[dir] \in Pools /\ KeptRight(NextOf(dir), memo[dir])
    BY DEF RelativesInv
  <1>5. PICK p : p = Collected(o, dir, memo[dir]).pool /\ p \in Pools /\ KeptRight(NextOf(dir), p)
    BY <1>2, <1>4, CollectedRight
  <1>6. /\ memo' = [up |-> memo'.up, down |-> memo'.down, resources |-> memo'.resources]
        /\ \A d \in {"up", "down"} : memo'[d] = IF d = dir THEN p ELSE memo[d]
    BY <1>1, <1>3, <1>5 DEF RelativesInv
  <1>7. Nodes' = Nodes /\ Pools' = Pools /\ \A d : NextOf(d)' = NextOf(d)
    BY <1>1, SameNext
  <1>8. ASSUME NEW d \in {"up", "down"} PROVE (memo[d] \in Pools)' /\ KeptRight(NextOf(d), memo[d])'
    <2>1. PICK m : m = memo'[d] /\ m \in Pools /\ KeptRight(NextOf(d), m)
      BY <1>5, <1>6 DEF RelativesInv
    <2> QED
      BY <1>7, <2>1 DEF KeptRight
  <1> QED
    BY <1>1, <1>6, <1>8 DEF RelativesInv

LEMMA NextRelatives ==
    ASSUME Serial, ObjectsInv, RelativesInv, [Next]_vars
    PROVE  RelativesInv'
  <1>1. CASE UNCHANGED vars
    <2>1. UNCHANGED <<ws, schemas, supers, stage, memo>>
      BY <1>1 DEF vars, texts, objects, memos
    <2> QED
      BY <2>1, SameRelatives DEF RelativesInv
  <1>2. CASE Build
    <2>1. PICK w \in Edited : ws' = w /\ ClearMemos(w)
      BY <1>2 DEF Build
    <2>2. memo' = [up |-> [n \in Nodes' |-> Unset], down |-> [n \in Nodes' |-> Unset],
                   resources |-> [s \in SchemaNames |-> <<NoNode>>]]
      BY <2>1 DEF ClearMemos, NothingKept, Nodes, Positions
    <2>3. \A dir \in {"up", "down"} : memo'[dir] = [n \in Nodes' |-> Unset]
      BY <2>2
    <2>4. \A dir \in {"up", "down"} : (memo[dir] \in Pools)' /\ KeptRight(NextOf(dir), memo[dir])'
      BY <2>3 DEF Pools, Unset, KeptRight
    <2> QED
      BY <2>2, <2>3, <2>4 DEF RelativesInv
  <1>3. CASE LoadSchema \/ InterfaceSchema \/ NameSupertypes \/ WireSchema \/ EnterSubtypes \/ Interrupt
    <2>1. stage # "built" /\ ws' = ws
      BY <1>3, BuildingKeeps
    <2>2. /\ memo'.up = memo.up /\ memo'.down = memo.down
          /\ memo' = [up |-> memo'.up, down |-> memo'.down, resources |-> memo'.resources]
      <3>1. CASE WireSchema
        BY <3>1, RememberKeeps DEF WireSchema
      <3>2. CASE LoadSchema \/ InterfaceSchema \/ NameSupertypes \/ EnterSubtypes \/ Interrupt
        <4>1. memo' = memo
          BY <3>2 DEF LoadSchema, InterfaceSchema, NameSupertypes, EnterSubtypes, Interrupt, memos
        <4> QED
          BY <4>1 DEF RelativesInv
      <3> QED
        BY <1>3, <3>1, <3>2
    <2>3. Nodes' = Nodes /\ Pools' = Pools
      BY <2>1, SameTexts DEF Pools
    <2>4. \A dir \in {"up", "down"} : memo'[dir] = memo[dir]
      BY <2>2
    <2>5. \A dir \in {"up", "down"} : memo[dir] \in Pools /\ \A n \in Nodes : memo[dir][n] = Unset
      BY <2>1 DEF RelativesInv
    <2>6. \A dir \in {"up", "down"} : (memo[dir] \in Pools)' /\ KeptRight(NextOf(dir), memo[dir])'
      BY <2>3, <2>4, <2>5 DEF KeptRight
    <2> QED
      BY <2>2, <2>3, <2>4, <2>5, <2>6 DEF RelativesInv
  <1>4. ASSUME NEW s, AskResources(s) PROVE RelativesInv'
    <2>1. UNCHANGED <<ws, schemas, supers, stage>> /\ memo' = RememberResources(ws[s].name)
      BY <1>4 DEF AskResources, Answers, texts, objects
    <2> QED
      BY <2>1, RememberKeeps, SameRelatives
  <1>5. ASSUME NEW n, AskGraph(n) \/ AskVisible(n) PROVE RelativesInv'
    <2>1. UNCHANGED <<ws, schemas, supers, stage, memo>>
      BY <1>5 DEF AskGraph, AskVisible, Answers, texts, objects
    <2> QED
      BY <2>1, SameRelatives DEF RelativesInv
  <1>6. ASSUME NEW n \in Nodes, AskRelatives(n, "up") \/ AskRelatives(n, "down") PROVE RelativesInv'
    BY <1>6, AskRelativesKeeps
  <1> QED
    BY <1>1, <1>2, <1>3, <1>4, <1>5, <1>6 DEF Next

LEMMA RelativesAreKept == ObjectsInv /\ RelativesInv => RelativesAreComplete
  <1> SUFFICES ASSUME ObjectsInv, RelativesInv, NEW n \in Nodes, NEW dir \in {"up", "down"}, memo[dir][n] # Unset
               PROVE  /\ Range(Neighbours(n, dir)) \subseteq memo[dir][n]
                      /\ memo[dir][n] \subseteq Relatives(n, dir)
                      /\ (\A m \in {n} \cup Relatives(n, dir) : m \notin Relatives(m, dir))
                            => memo[dir][n] = Relatives(n, dir)
    BY DEF RelativesAreComplete
  <1>1. Typed
    BY DEF ObjectsInv, Typed
  <1>2. \A m \in Nodes : Relatives(m, dir) = Led(NextOf(dir), m)
    BY <1>1, RelativesAreClosed DEF Led
  <1>3. RightFor(NextOf(dir), n, memo[dir][n])
    BY DEF RelativesInv, KeptRight
  <1>4. NextOf(dir)[n] = Range(Neighbours(n, dir)) /\ NextOf(dir) \in [Nodes -> SUBSET Nodes]
    BY <1>1, NeighboursTyped
  <1>5. Led(NextOf(dir), n) \in SUBSET Nodes
    BY <1>4, LedFacts
  <1>6. (\A m \in {n} \cup Relatives(n, dir) : m \notin Relatives(m, dir)) => Calm(NextOf(dir), n)
    BY <1>2, <1>5 DEF Calm
  <1> QED
    BY <1>2, <1>3, <1>4, <1>6 DEF RightFor

\* Although an entity that is still under way answers nothing and every answer met
\* on the way is kept: the supertypes and subtypes a container keeps of an entity
\* (getSuperTypes, getSubTypes), when it answers nothing while it is built, are all
\* it has unless its SUBTYPE OF clauses lead back, and then some, the direct ones
\* among them.
THEOREM KeptRelativesAreComplete ==
    ASSUME Serial
    PROVE  Spec => []RelativesAreComplete
  <1>1. ObjectsInv /\ RelativesInv /\ [Next]_vars => RelativesInv'
    BY NextRelatives
  <1> QED
    BY <1>1, InitRelatives, RelativesAreKept, ObjectsInvariance, PTL DEF Spec

----------------------------------------------------------------------------
(* Registries: lists in which an entry takes the place of another one *)

LEMMA PutAtTyped ==
    ASSUME NEW M, NEW l \in Seq(M), NEW n \in M, NEW j \in 0..Len(l)
    PROVE  /\ PutAt(l, j, n) \in Seq(M)
           /\ j = 0 => Elems(PutAt(l, j, n)) = Elems(l) \cup {n}
           /\ j # 0 => /\ Len(PutAt(l, j, n)) = Len(l)
                       /\ \A i \in 1..Len(l) : PutAt(l, j, n)[i] = IF i = j THEN n ELSE l[i]
  <1>1. CASE j = 0
    <2>1. PutAt(l, j, n) = Append(l, n)
      BY <1>1 DEF PutAt
    <2>2. Append(l, n) \in Seq(M) /\ Elems(Append(l, n)) = Elems(l) \cup {n}
      BY ElemsOfAppend
    <2>3. PutAt(l, j, n) \in Seq(M) /\ Elems(PutAt(l, j, n)) = Elems(l) \cup {n}
      BY <2>1, <2>2
    <2> QED
      BY <1>1, <2>3
  <1>2. CASE j # 0
    <2>1. PutAt(l, j, n) = [l EXCEPT ![j] = n]
      BY <1>2 DEF PutAt
    <2>2. j \in 1..Len(l) /\ DOMAIN l = 1..Len(l) /\ Len(l) \in Nat /\ \A i \in 1..Len(l) : l[i] \in M
      BY <1>2
    <2>3. PICK r : r = [l EXCEPT ![j] = n]
      OBVIOUS
    <2>4. r \in [1..Len(l) -> M] /\ \A i \in 1..Len(l) : r[i] = IF i = j THEN n ELSE l[i]
      BY <2>2, <2>3
    <2>5. r \in Seq(M) /\ Len(r) = Len(l)
      BY <2>2, <2>4, IsASeq, LenProperties
    <2> QED
      BY <1>2, <2>1, <2>3, <2>4, <2>5
  <1> QED
    BY <1>1, <1>2

KeyOf(n) == <<Decl(n).kind, Decl(n).name>>
KeysOf(S) == {KeyOf(n) : n \in S}
PutResource(l, n) == Put(l, n, SameResource)

\* An entry takes the place of one with its kind and name, or stands at the end.
LEMMA PutKeeps ==
    ASSUME NEW l \in Seq(Nodes), NEW n \in Nodes
    PROVE  /\ PutResource(l, n) \in Seq(Nodes)
           /\ Elems(PutResource(l, n)) \subseteq Elems(l) \cup {n}
           /\ KeysOf(Elems(PutResource(l, n))) = KeysOf(Elems(l)) \cup {KeyOf(n)}
  <1> DEFINE I == {i \in 1..Len(l) : SameResource(Decl(l[i]), Decl(n))}
             j == IF I # {} THEN Min(I) ELSE 0
  <1>1. PutResource(l, n) = PutAt(l, j, n)
    BY DEF PutResource, Put, SelectInSeq
  <1>2. j = 0 \/ j \in I
    <2>1. I \in SUBSET (1..Len(l))
      OBVIOUS
    <2> HIDE DEF I
    <2> QED
      BY <2>1, FirstThat
  <1>3. j # 0 => j \in 1..Len(l) /\ KeyOf(l[j]) = KeyOf(n)
    <2> HIDE DEF j
    <2> QED
      BY <1>2 DEF SameResource, KeyOf
  <1>4. j \in 0..Len(l) /\ Len(l) \in Nat
    <2> HIDE DEF j
    <2> QED
      BY <1>3
  <1> HIDE DEF j
  <1> PICK r : r = PutAt(l, j, n)
    OBVIOUS
  <1>5. /\ r \in Seq(Nodes)
        /\ j = 0 => Elems(r) = Elems(l) \cup {n}
        /\ j # 0 => Len(r) = Len(l) /\ \A i \in 1..Len(l) : r[i] = IF i = j THEN n ELSE l[i]
    BY <1>4, PutAtTyped
  <1>6. CASE j = 0
    <2>1. KeysOf(Elems(l) \cup {n}) = KeysOf(Elems(l)) \cup {KeyOf(n)}
      BY DEF KeysOf
    <2> QED
      BY <1>1, <1>5, <1>6, <2>1
  <1>7. CASE j # 0
    <2>1. Elems(r) \subseteq Elems(l) \cup {n}
      BY <1>5, <1>7 DEF Elems
    <2>2. r[j] = n /\ j \in 1..Len(l)
      BY <1>3, <1>5, <1>7
    <2>3. n \in Elems(r)
      BY <1>5, <1>7, <2>2 DEF Elems
    <2>4. ASSUME NEW m \in Elems(l) PROVE KeyOf(m) \in KeysOf(Elems(r))
      <3>1. PICK i \in 1..Len(l) : m = l[i]
        BY DEF Elems
      <3>2. CASE i = j
        BY <1>3, <1>7, <2>3, <3>1, <3>2 DEF KeysOf
      <3>3. CASE i # j
        <4>1. r[i] = m
          BY <1>5, <1>7, <3>1, <3>3
        <4>2. m \in Elems(r)
          BY <1>5, <1>7, <4>1 DEF Elems
        <4> QED
          BY <4>2 DEF KeysOf
      <3> QED
        BY <3>2, <3>3
    <2>5. KeysOf(Elems(r)) \subseteq KeysOf(Elems(l)) \cup {KeyOf(n)}
      BY <2>1 DEF KeysOf
    <2>6. KeysOf(Elems(l)) \cup {KeyOf(n)} \subseteq KeysOf(Elems(r))
      <3>1. KeysOf(Elems(l)) \subseteq KeysOf(Elems(r))
        BY <2>4 DEF KeysOf
      <3>2. KeyOf(n) \in KeysOf(Elems(r))
        BY <2>3 DEF KeysOf
      <3> QED
        BY <3>1, <3>2
    <2> QED
      BY <1>1, <1>5, <2>1, <2>5, <2>6
  <1> QED
    BY <1>6, <1>7

\* The function in PutAll.
IsPutting(iter, base, q) ==
    iter = [s \in SUBSET DOMAIN q |->
               IF s = {} THEN base
               ELSE LET x == Max(s) IN PutResource(iter[s \ {x}], q[x])]

LEMMA PuttingExists ==
    ASSUME NEW base \in Seq(Nodes), NEW q \in Seq(Nodes)
    PROVE  \E f : IsPutting(f, base, q)
  <1> DEFINE B == Seq(Nodes)
             op == [p \in B \X Nodes |-> PutResource(p[1], p[2])]
  <1>1. op \in [B \X Nodes -> B]
    <2>1. \A l \in B : \A n \in Nodes : PutResource(l, n) \in B
      BY PutKeeps
    <2> HIDE DEF B
    <2> QED
      BY <2>1
  <1>2. base \in B
    OBVIOUS
  <1>3. \A p \in B \X Nodes : op[p] = PutResource(p[1], p[2])
    OBVIOUS
  <1> HIDE DEF op, B
  <1>4. PICK f \in [SUBSET DOMAIN q -> B] : IsIteration(f, base, q, op)
    BY <1>1, <1>2, FoldExists
  <1>5. ASSUME NEW s \in SUBSET DOMAIN q
        PROVE  f[s] = IF s = {} THEN base ELSE LET x == Max(s) IN PutResource(f[s \ {x}], q[x])
    <2>1. CASE s = {}
      BY <1>4, <2>1 DEF IsIteration
    <2>2. CASE s # {}
      <3>1. /\ f[s] = op[<<f[s \ {Max(s)}], q[Max(s)]>>]
            /\ f[s \ {Max(s)}] \in B /\ q[Max(s)] \in Nodes
        <4>1. Iterates(f, Nodes, B, base, q, op) /\ s \in SUBSET DOMAIN q /\ s # {}
          BY <1>4, <2>2 DEF Iterates
        <4>2. AppliesAt(f, Nodes, B, q, op, s)
          BY ONLY <4>1, IterationApplies
        <4> QED
          BY <4>2 DEF AppliesAt
      <3> QED
        BY <1>3, <2>2, <3>1
    <2> QED
      BY <2>1, <2>2
  <1>6. IsPutting(f, base, q)
    BY <1>5 DEF IsPutting
  <1> QED
    BY <1>6

LEMMA PuttingAlong ==
    ASSUME NEW base \in Seq(Nodes), NEW q \in Seq(Nodes), NEW F, IsPutting(F, base, q)
    PROVE  \E acc \in [0..Len(q) -> Seq(Nodes)] :
              /\ acc[0] = base /\ F[DOMAIN q] = acc[Len(q)]
              /\ \A i \in 1..Len(q) : acc[i] = PutResource(acc[i - 1], q[i])
  <1> DEFINE B == Seq(Nodes)
             op == [p \in B \X Nodes |-> PutResource(p[1], p[2])]
  <1>1. op \in [B \X Nodes -> B]
    <2>1. \A l \in B : \A n \in Nodes : PutResource(l, n) \in B
      BY PutKeeps
    <2> HIDE DEF B
    <2> QED
      BY <2>1
  <1>2. base \in B
    OBVIOUS
  <1>3. \A l \in B : \A n \in Nodes : op[<<l, n>>] = PutResource(l, n)
    OBVIOUS
  <1> HIDE DEF op, B
  <1>4. F[{}] = base
    BY DEF IsPutting
  <1>5. ASSUME NEW s \in SUBSET DOMAIN q, s # {}, F[s \ {Max(s)}] \in B
        PROVE  F[s] = op[<<F[s \ {Max(s)}], q[Max(s)]>>]
    <2>1. F[s] = PutResource(F[s \ {Max(s)}], q[Max(s)])
      BY <1>5 DEF IsPutting
    <2>2. Max(s) \in s
      <3>1. DOMAIN q = 1..Len(q) /\ Len(q) \in Nat
        OBVIOUS
      <3> QED
        BY <1>5, <3>1, LargestNumber
    <2>3. q[Max(s)] \in Nodes
      BY <2>2
    <2> QED
      BY <1>3, <1>5, <2>1, <2>3
  <1>6. GoesAlong(F, B, base, q, op)
    BY <1>4, <1>5 DEF GoesAlong
  <1>7. PICK acc \in [0..Len(q) -> B] :
            /\ acc[0] = base /\ F[DOMAIN q] = acc[Len(q)]
            /\ \A i \in 1..Len(q) : acc[i] = op[<<acc[i - 1], q[i]>>]
    <2>1. Foldable(Nodes, B, base, q, op) /\ GoesAlong(F, B, base, q, op)
      BY <1>1, <1>2, <1>6 DEF Foldable
    <2> QED
      BY ONLY <2>1, FoldAlong
  <1>8. ASSUME NEW i \in 1..Len(q) PROVE acc[i] = PutResource(acc[i - 1], q[i])
    <2>1. i - 1 \in 0..Len(q) /\ q[i] \in Nodes
      OBVIOUS
    <2>2. acc[i - 1] \in B
      BY <2>1
    <2> QED
      BY <1>3, <1>7, <2>1, <2>2
  <1>9. acc \in [0..Len(q) -> Seq(Nodes)]
    BY DEF B
  <1> QED
    BY <1>7, <1>8, <1>9

\* All that is put into a list is in it, but for what something with the same
\* kind and name took the place of.
LEMMA PutAllKeeps ==
    ASSUME NEW list \in Seq(Nodes), NEW more \in Seq(Nodes)
    PROVE  /\ PutAll(list, more) \in Seq(Nodes)
           /\ Elems(PutAll(list, more)) \subseteq Elems(list) \cup Elems(more)
           /\ KeysOf(Elems(PutAll(list, more))) = KeysOf(Elems(list)) \cup KeysOf(Elems(more))
  <1> DEFINE F == CHOOSE iter : IsPutting(iter, list, more)
  <1>1. IsPutting(F, list, more)
    BY PuttingExists
  <1>2. PutAll(list, more) = F[DOMAIN more]
    BY DEF PutAll, FoldLeft, MapThenFoldSet, IsPutting, PutResource
  <1> HIDE DEF F
  <1>3. PICK acc \in [0..Len(more) -> Seq(Nodes)] :
            /\ acc[0] = list /\ F[DOMAIN more] = acc[Len(more)]
            /\ \A i \in 1..Len(more) : acc[i] = PutResource(acc[i - 1], more[i])
    BY <1>1, PuttingAlong, SMTT(30)
  <1> DEFINE Upto(i) == {more[j] : j \in 1..i}
             P == {i \in 0..Len(more) : /\ Elems(acc[i]) \subseteq Elems(list) \cup Upto(i)
                                        /\ KeysOf(Elems(acc[i])) = KeysOf(Elems(list)) \cup KeysOf(Upto(i))}
  <1>4. Len(more) \in Nat
    OBVIOUS
  <1>5. 0 \in P
    <2>1. Upto(0) = {}
      OBVIOUS
    <2>2. KeysOf(Upto(0)) = {}
      BY <2>1 DEF KeysOf
    <2> QED
      BY <1>3, <1>4, <2>1, <2>2
  <1>6. ASSUME NEW i \in 1..Len(more), i - 1 \in P PROVE i \in P
    <2>1. i - 1 \in 0..Len(more) /\ i \in 0..Len(more) /\ more[i] \in Nodes
      BY <1>4
    <2>2. PICK l \in Seq(Nodes) : l = acc[i - 1]
      BY <2>1
    <2>3. /\ Elems(acc[i]) \subseteq Elems(l) \cup {more[i]}
          /\ KeysOf(Elems(acc[i])) = KeysOf(Elems(l)) \cup {KeyOf(more[i])}
      <3>1. PICK n \in Nodes : n = more[i]
        BY <2>1
      <3>2. acc[i] = PutResource(l, n)
        BY <1>3, <2>2, <3>1
      <3>3. /\ Elems(PutResource(l, n)) \subseteq Elems(l) \cup {n}
            /\ KeysOf(Elems(PutResource(l, n))) = KeysOf(Elems(l)) \cup {KeyOf(n)}
        BY PutKeeps
      <3> QED
        BY <3>1, <3>2, <3>3
    <2>4. Upto(i) = Upto(i - 1) \cup {more[i]}
      <3>1. \A j : j \in 1..i <=> j \in 1..(i - 1) \/ j = i
        BY <1>4
      <3> QED
        BY <3>1
    <2>5. KeysOf(Upto(i)) = KeysOf(Upto(i - 1)) \cup {KeyOf(more[i])}
      <3> HIDE DEF Upto
      <3> QED
        BY <2>4 DEF KeysOf
    <2> HIDE DEF Upto
    <2> QED
      BY <1>6, <2>1, <2>2, <2>3, <2>4, <2>5
  <1>7. Upto(Len(more)) = Elems(more)
    BY DEF Elems
  <1> HIDE DEF P
  <1>8. Len(more) \in P
    <2>1. 0..Len(more) \subseteq P
      BY <1>4, <1>5, <1>6, NumberByNumber
    <2> QED
      BY <1>4, <2>1
  <1> HIDE DEF Upto
  <1>9. acc[Len(more)] \in Seq(Nodes)
    BY <1>4
  <1> QED
    BY <1>2, <1>3, <1>7, <1>8, <1>9 DEF P

\* What addEntity and addType do to the registry of a schema.
Entered(l, n) ==
    IF Decl(n).kind = "Entity" /\ Earlier(n) # {} THEN l ELSE Put(l, n, LAMBDA x, y : x.name = y.name)

LEMMA EnteredTyped == \A l \in Seq(Nodes) : \A n \in Nodes : Entered(l, n) \in Seq(Nodes)
  <1> SUFFICES ASSUME NEW l \in Seq(Nodes), NEW n \in Nodes PROVE Entered(l, n) \in Seq(Nodes)
    OBVIOUS
  <1> DEFINE I == {i \in 1..Len(l) : Decl(l[i]).name = Decl(n).name}
             j == IF I # {} THEN Min(I) ELSE 0
  <1>1. Entered(l, n) = l \/ Entered(l, n) = PutAt(l, j, n)
    BY DEF Entered, Put, SelectInSeq
  <1>2. j = 0 \/ j \in I
    <2>1. I \in SUBSET (1..Len(l))
      OBVIOUS
    <2> HIDE DEF I
    <2> QED
      BY <2>1, FirstThat
  <1>3. j \in 0..Len(l)
    <2> HIDE DEF j
    <2> QED
      BY <1>2
  <1> HIDE DEF j
  <1> QED
    BY <1>1, <1>3, PutAtTyped

\* The function in LocalRegistry.
IsEntering(iter, base, q) ==
    iter = [s \in SUBSET DOMAIN q |->
               IF s = {} THEN base
               ELSE LET x == Max(s) IN Entered(iter[s \ {x}], q[x])]

LEMMA EnteringExists ==
    ASSUME NEW base \in Seq(Nodes), NEW q \in Seq(Nodes)
    PROVE  \E f : IsEntering(f, base, q)
  <1> DEFINE B == Seq(Nodes)
             op == [p \in B \X Nodes |-> Entered(p[1], p[2])]
  <1>1. op \in [B \X Nodes -> B]
    <2>1. \A l \in B : \A n \in Nodes : Entered(l, n) \in B
      BY EnteredTyped
    <2> HIDE DEF B
    <2> QED
      BY <2>1
  <1>2. base \in B
    OBVIOUS
  <1>3. \A p \in B \X Nodes : op[p] = Entered(p[1], p[2])
    OBVIOUS
  <1> HIDE DEF op, B
  <1>4. PICK f \in [SUBSET DOMAIN q -> B] : IsIteration(f, base, q, op)
    BY <1>1, <1>2, FoldExists
  <1>5. ASSUME NEW s \in SUBSET DOMAIN q
        PROVE  f[s] = IF s = {} THEN base ELSE LET x == Max(s) IN Entered(f[s \ {x}], q[x])
    <2>1. CASE s = {}
      BY <1>4, <2>1 DEF IsIteration
    <2>2. CASE s # {}
      <3>1. /\ f[s] = op[<<f[s \ {Max(s)}], q[Max(s)]>>]
            /\ f[s \ {Max(s)}] \in B /\ q[Max(s)] \in Nodes
        <4>1. Iterates(f, Nodes, B, base, q, op) /\ s \in SUBSET DOMAIN q /\ s # {}
          BY <1>4, <2>2 DEF Iterates
        <4>2. AppliesAt(f, Nodes, B, q, op, s)
          BY ONLY <4>1, IterationApplies
        <4> QED
          BY <4>2 DEF AppliesAt
      <3> QED
        BY <1>3, <2>2, <3>1
    <2> QED
      BY <2>1, <2>2
  <1>6. IsEntering(f, base, q)
    BY <1>5 DEF IsEntering
  <1> QED
    BY <1>6

LEMMA EnteringAlong ==
    ASSUME NEW base \in Seq(Nodes), NEW q \in Seq(Nodes), NEW F, IsEntering(F, base, q)
    PROVE  \E acc \in [0..Len(q) -> Seq(Nodes)] :
              /\ acc[0] = base /\ F[DOMAIN q] = acc[Len(q)]
              /\ \A i \in 1..Len(q) : acc[i] = Entered(acc[i - 1], q[i])
  <1> DEFINE B == Seq(Nodes)
             op == [p \in B \X Nodes |-> Entered(p[1], p[2])]
  <1>1. op \in [B \X Nodes -> B]
    <2>1. \A l \in B : \A n \in Nodes : Entered(l, n) \in B
      BY EnteredTyped
    <2> HIDE DEF B
    <2> QED
      BY <2>1
  <1>2. base \in B
    OBVIOUS
  <1>3. \A l \in B : \A n \in Nodes : op[<<l, n>>] = Entered(l, n)
    OBVIOUS
  <1> HIDE DEF op, B
  <1>4. F[{}] = base
    BY DEF IsEntering
  <1>5. ASSUME NEW s \in SUBSET DOMAIN q, s # {}, F[s \ {Max(s)}] \in B
        PROVE  F[s] = op[<<F[s \ {Max(s)}], q[Max(s)]>>]
    <2>1. F[s] = Entered(F[s \ {Max(s)}], q[Max(s)])
      BY <1>5 DEF IsEntering
    <2>2. Max(s) \in s
      <3>1. DOMAIN q = 1..Len(q) /\ Len(q) \in Nat
        OBVIOUS
      <3> QED
        BY <1>5, <3>1, LargestNumber
    <2>3. q[Max(s)] \in Nodes
      BY <2>2
    <2> QED
      BY <1>3, <1>5, <2>1, <2>3
  <1>6. GoesAlong(F, B, base, q, op)
    BY <1>4, <1>5 DEF GoesAlong
  <1>7. PICK acc \in [0..Len(q) -> B] :
            /\ acc[0] = base /\ F[DOMAIN q] = acc[Len(q)]
            /\ \A i \in 1..Len(q) : acc[i] = op[<<acc[i - 1], q[i]>>]
    <2>1. Foldable(Nodes, B, base, q, op) /\ GoesAlong(F, B, base, q, op)
      BY <1>1, <1>2, <1>6 DEF Foldable
    <2> QED
      BY ONLY <2>1, FoldAlong
  <1>8. ASSUME NEW i \in 1..Len(q) PROVE acc[i] = Entered(acc[i - 1], q[i])
    <2>1. i - 1 \in 0..Len(q) /\ q[i] \in Nodes
      OBVIOUS
    <2>2. acc[i - 1] \in B
      BY <2>1
    <2> QED
      BY <1>3, <1>7, <2>1, <2>2
  <1>9. acc \in [0..Len(q) -> Seq(Nodes)]
    BY DEF B
  <1> QED
    BY <1>7, <1>8, <1>9

LEMMA RegistryTyped ==
    ASSUME ws \in Workspaces, NEW c \in Positions
    PROVE  LocalRegistry(c) \in Seq(Nodes)
  <1> DEFINE q == TextNodes(c)
             F == CHOOSE iter : IsEntering(iter, <<>>, q)
  <1>1. TextNodes(c) \in Seq(Nodes)
    <2>1. DOMAIN ws[c].decls = 1..Len(ws[c].decls) /\ Len(ws[c].decls) \in Nat
      BY TextsTyped
    <2>2. \A d \in DOMAIN ws[c].decls : <<c, d>> \in Nodes
      BY TextsTyped
    <2>3. TextNodes(c) \in [1..Len(ws[c].decls) -> Nodes]
      BY <2>1, <2>2 DEF TextNodes
    <2> QED
      BY <2>1, <2>3, IsASeq
  <1>2. <<>> \in Seq(Nodes)
    BY EmptySeq
  <1> HIDE DEF q
  <1>3. q = TextNodes(c) /\ q \in Seq(Nodes)
    BY <1>1 DEF q
  <1>4. IsEntering(F, <<>>, q)
    BY <1>2, <1>3, EnteringExists
  <1>5. LocalRegistry(c) = F[DOMAIN q]
    BY <1>3 DEF LocalRegistry, FoldLeft, MapThenFoldSet, IsEntering, Entered
  <1> HIDE DEF F
  <1>6. PICK acc \in [0..Len(q) -> Seq(Nodes)] : F[DOMAIN q] = acc[Len(q)]
    <2>1. PICK base \in Seq(Nodes) : base = <<>>
      BY <1>2
    <2>2. q \in Seq(Nodes) /\ base \in Seq(Nodes) /\ IsEntering(F, base, q)
      BY <1>3, <1>4, <2>1
    <2> QED
      BY ONLY <2>2, EnteringAlong
  <1>7. Len(q) \in 0..Len(q)
    BY <1>3
  <1> QED
    BY <1>5, <1>6, <1>7

----------------------------------------------------------------------------
(* What the objects of schemas say of interfaces *)

Modes == {"use", "reference"}
Wholes == [mode : Modes, schema : Loaded]
ListedLists == [mode : Modes, node : Nodes]

Readable ==
    /\ ws \in Workspaces
    /\ schemas \in [SchemaNames -> {0} \cup Positions]
    /\ \A s \in Loaded : ws[schemas[s]].name = s
    /\ full \in [SchemaNames -> Seq(Wholes)]
    /\ partial \in [SchemaNames -> Seq(ListedLists)]

LEMMA FilteredTyped ==
    ASSUME NEW M, NEW list \in Seq(M), NEW set
    PROVE  Filtered(list, set) \in Seq(M) /\ Elems(Filtered(list, set)) = Elems(list) \cap set
  BY FilteredIsSifted, ElemsOfSifted

LEMMA LoadedFinite == Readable => IsFiniteSet(Loaded) /\ \A s \in Loaded : schemas[s] \in Positions
  <1> SUFFICES ASSUME Readable PROVE IsFiniteSet(Loaded) /\ \A s \in Loaded : schemas[s] \in Positions
    OBVIOUS
  <1> DEFINE f == [i \in Positions |-> ws[i].name]
             All == {ws[i].name : i \in Positions}
  <1>1. ws \in Workspaces /\ \A s \in Loaded : schemas[s] \in Positions /\ ws[schemas[s]].name = s
    BY DEF Readable, Loaded
  <1>2. IsFiniteSet(Positions)
    <2>1. PICK k \in Nat : Positions = 1..k
      BY <1>1, TextsTyped
    <2> QED
      BY <2>1, FS_Interval
  <1>3. f \in [Positions -> All] /\ \A y \in All : \E i \in Positions : f[i] = y
    OBVIOUS
  <1>4. Loaded \subseteq All
    BY <1>1
  <1> HIDE DEF f, All
  <1>5. IsFiniteSet(All)
    BY <1>2, <1>3, ImageIsSmaller
  <1> QED
    BY <1>1, <1>4, <1>5, FS_Subset

LEMMA PartialTyped ==
    ASSUME Readable, NEW s \in SchemaNames, NEW r \in BOOLEAN
    PROVE  PartialItems(s, r) \in Seq(Nodes)
  <1> DEFINE set == {i \in Range(partial[s]) : r \/ i.mode = "use"}
             items == Filtered(partial[s], set)
             f == [i \in ListedLists |-> i.node]
  <1>1. partial[s] \in Seq(ListedLists)
    BY DEF Readable
  <1>2. items \in Seq(ListedLists)
    <2> HIDE DEF set
    <2> QED
      BY <1>1, FilteredTyped
  <1>3. PartialItems(s, r) = [i \in DOMAIN items |-> items[i].node]
    BY DEF PartialItems
  <1> HIDE DEF items
  <1>4. \A i \in DOMAIN items : items[i] \in ListedLists
    BY <1>2
  <1>5. \A m \in ListedLists : f[m] \in Nodes
    BY DEF ListedLists
  <1>6. [i \in DOMAIN items |-> items[i].node] = [i \in DOMAIN items |-> f[items[i]]]
    BY <1>4
  <1> HIDE DEF f
  <1> QED
    BY <1>2, <1>3, <1>5, <1>6, MappedTyped

\* The schemas an object names in whole specifications of a mode.
Wanted(s, mode) == {i.schema : i \in {j \in Elems(full[s]) : j.mode = mode}}

LEMMA TargetsTyped ==
    ASSUME Readable, NEW s \in SchemaNames, NEW mode
    PROVE  FullTargets(s, mode) \in Seq(Loaded) /\ Elems(FullTargets(s, mode)) = Wanted(s, mode)
  <1> DEFINE set == {i \in Range(full[s]) : i.mode = mode}
             items == Filtered(full[s], set)
             f == [i \in Wholes |-> i.schema]
  <1>1. full[s] \in Seq(Wholes)
    BY DEF Readable
  <1>2. Range(full[s]) = Elems(full[s]) /\ Range(full[s]) \in SUBSET Wholes
    BY <1>1, RangeIsElems
  <1>3. items \in Seq(Wholes) /\ Elems(items) = {j \in Elems(full[s]) : j.mode = mode}
    <2>1. items \in Seq(Wholes) /\ Elems(items) = Elems(full[s]) \cap set
      <3> HIDE DEF set
      <3> QED
        BY <1>1, FilteredTyped
    <2> QED
      BY <1>2, <2>1
  <1>4. FullTargets(s, mode) = [i \in DOMAIN items |-> items[i].schema]
    BY DEF FullTargets
  <1> HIDE DEF items
  <1>5. \A i \in DOMAIN items : items[i] \in Wholes
    BY <1>3
  <1>6. \A m \in Wholes : f[m] \in Loaded /\ f[m] = m.schema
    BY DEF Wholes
  <1>7. [i \in DOMAIN items |-> items[i].schema] = [i \in DOMAIN items |-> f[items[i]]]
    BY <1>5
  <1> HIDE DEF f
  <1>8. FullTargets(s, mode) \in Seq(Loaded) /\ Elems(FullTargets(s, mode)) = {f[m] : m \in Elems(items)}
    <2>1. PICK q \in Seq(Wholes) : q = items
      BY <1>3
    <2>2. /\ [i \in DOMAIN q |-> f[q[i]]] \in Seq(Loaded)
          /\ Elems([i \in DOMAIN q |-> f[q[i]]]) = {f[m] : m \in Elems(q)}
      <3>1. q \in Seq(Wholes) /\ \A m \in Wholes : f[m] \in Loaded
        BY <1>6
      <3> QED
        BY ONLY <3>1, MappedTyped
    <2> QED
      BY <1>4, <1>7, <2>1, <2>2
  <1>9. {f[m] : m \in Elems(items)} = Wanted(s, mode)
    BY <1>2, <1>3, <1>6 DEF Wanted
  <1> QED
    BY <1>8, <1>9

\* The schemas a walk goes on to.
Goals(s, reference) == (IF reference THEN Wanted(s, "reference") ELSE {}) \cup Wanted(s, "use")

LEMMA WholeTargetsTyped ==
    ASSUME Readable, NEW s \in SchemaNames, NEW r \in BOOLEAN
    PROVE  /\ WholeTargets(s, r) \in Seq(Loaded) /\ Elems(WholeTargets(s, r)) = Goals(s, r)
           /\ Goals(s, r) \in SUBSET Loaded /\ Wanted(s, "use") \in SUBSET Loaded
  <1>1. /\ FullTargets(s, "use") \in Seq(Loaded) /\ Elems(FullTargets(s, "use")) = Wanted(s, "use")
        /\ FullTargets(s, "reference") \in Seq(Loaded)
        /\ Elems(FullTargets(s, "reference")) = Wanted(s, "reference")
    BY TargetsTyped
  <1> PICK before : before = IF r THEN FullTargets(s, "reference") ELSE <<>>
    OBVIOUS
  <1>2. before \in Seq(Loaded) /\ Elems(before) = IF r THEN Wanted(s, "reference") ELSE {}
    <2>1. <<>> \in Seq(Loaded) /\ Elems(<<>>) = {}
      BY EmptySeq DEF Elems
    <2> QED
      BY <1>1, <2>1
  <1>3. WholeTargets(s, r) = before \o FullTargets(s, "use")
    BY DEF WholeTargets
  <1>4. /\ before \o FullTargets(s, "use") \in Seq(Loaded)
        /\ Elems(before \o FullTargets(s, "use")) = Elems(before) \cup Elems(FullTargets(s, "use"))
    <2>1. PICK p \in Seq(Loaded) : p = before
      BY <1>2
    <2>2. PICK q \in Seq(Loaded) : q = FullTargets(s, "use")
      BY <1>1
    <2>3. p \o q \in Seq(Loaded) /\ Elems(p \o q) = Elems(p) \cup Elems(q)
      BY ElemsOfConcat
    <2> QED
      BY <2>1, <2>2, <2>3
  <1>5. /\ WholeTargets(s, r) \in Seq(Loaded)
        /\ Elems(WholeTargets(s, r)) = Elems(before) \cup Elems(FullTargets(s, "use"))
    BY <1>3, <1>4
  <1>6. Elems(WholeTargets(s, r)) = Goals(s, r)
    BY <1>1, <1>2, <1>5 DEF Goals
  <1>7. Goals(s, r) \in SUBSET Loaded /\ Wanted(s, "use") \in SUBSET Loaded
    BY <1>1, <1>5, <1>6, ElemsTyped
  <1> QED
    BY <1>5, <1>6, <1>7

\* What a schema has of its own.
Own(s, reference) == Elems(LocalRegistry(schemas[s])) \cup Elems(PartialItems(s, reference))

LEMMA OwnTyped ==
    ASSUME Readable, NEW s \in Loaded, NEW r \in BOOLEAN
    PROVE  /\ OwnResources(s, r) \in Seq(Nodes)
           /\ Elems(OwnResources(s, r)) \subseteq Own(s, r)
           /\ KeysOf(Elems(OwnResources(s, r))) = KeysOf(Own(s, r))
  <1>1. s \in SchemaNames /\ schemas[s] \in Positions /\ ws \in Workspaces
    BY LoadedFinite DEF Loaded, Readable
  <1>2. LocalRegistry(schemas[s]) \in Seq(Nodes) /\ PartialItems(s, r) \in Seq(Nodes)
    BY <1>1, RegistryTyped, PartialTyped
  <1>3. \A S, T : KeysOf(S \cup T) = KeysOf(S) \cup KeysOf(T)
    BY DEF KeysOf
  <1>4. PICK p \in Seq(Nodes) : p = LocalRegistry(schemas[s])
    BY <1>2
  <1>5. PICK q \in Seq(Nodes) : q = PartialItems(s, r)
    BY <1>2
  <1>6. /\ PutAll(p, q) \in Seq(Nodes) /\ Elems(PutAll(p, q)) \subseteq Elems(p) \cup Elems(q)
        /\ KeysOf(Elems(PutAll(p, q))) = KeysOf(Elems(p)) \cup KeysOf(Elems(q))
    BY PutAllKeeps
  <1>7. OwnResources(s, r) = PutAll(p, q) /\ Own(s, r) = Elems(p) \cup Elems(q)
    BY <1>4, <1>5 DEF OwnResources, Own
  <1> QED
    BY <1>3, <1>6, <1>7

----------------------------------------------------------------------------
(* The walk over the schemas *)

Visits == [schema : Loaded, reference : BOOLEAN, seen : SUBSET Loaded]
Parts == [list : Seq(Nodes), seen : SUBSET Loaded]
PartsFrom(S) == {a \in Parts : S \subseteq a.seen}

Visit(t, a) == [schema |-> t, reference |-> FALSE, seen |-> a.seen]
Joined(collect, a, t) == Merge(a, collect[Visit(t, a)])
Begin(w) == [list |-> OwnResources(w.schema, w.reference), seen |-> w.seen \cup {w.schema}]
JoinAll(collect, base, q) == FoldLeft(LAMBDA walk, t : Joined(collect, walk, t), base, q)

\* A visit answers with parts that have seen no less.
VisitsFrom(collect, S) == \A t \in Loaded : \A a \in PartsFrom(S) : collect[Visit(t, a)] \in PartsFrom(a.seen)

LEMMA VisitTyped ==
    ASSUME NEW t \in Loaded, NEW S, NEW a \in PartsFrom(S)
    PROVE  /\ Visit(t, a) \in Visits /\ Visit(t, a).schema = t /\ Visit(t, a).seen = a.seen
           /\ Visit(t, a).reference = FALSE
           /\ a.seen \in SUBSET Loaded /\ S \subseteq a.seen /\ a.list \in Seq(Nodes)
  BY DEF Visit, Visits, PartsFrom, Parts

LEMMA JoinedTyped ==
    ASSUME NEW collect, NEW S, VisitsFrom(collect, S), NEW a \in PartsFrom(S), NEW t \in Loaded
    PROVE  /\ Joined(collect, a, t) = [list |-> PutAll(a.list, collect[Visit(t, a)].list),
                                       seen |-> collect[Visit(t, a)].seen]
           /\ Joined(collect, a, t) \in PartsFrom(S)
  <1>1. PICK r : r = collect[Visit(t, a)] /\ r \in PartsFrom(a.seen)
    BY DEF VisitsFrom
  <1>2. /\ r.list \in Seq(Nodes) /\ r.seen \in SUBSET Loaded /\ a.seen \subseteq r.seen
        /\ a.list \in Seq(Nodes) /\ S \subseteq a.seen
    BY <1>1 DEF PartsFrom, Parts
  <1>3. Joined(collect, a, t) = [list |-> PutAll(a.list, r.list), seen |-> r.seen]
    BY <1>1 DEF Joined, Merge
  <1>4. PutAll(a.list, r.list) \in Seq(Nodes)
    BY <1>2, PutAllKeeps
  <1>5. [list |-> PutAll(a.list, r.list), seen |-> r.seen] \in PartsFrom(S)
    BY <1>2, <1>4 DEF PartsFrom, Parts
  <1> QED
    BY <1>1, <1>3, <1>5

\* The function in that fold.
IsJoining(iter, collect, base, q) ==
    iter = [s \in SUBSET DOMAIN q |->
               IF s = {} THEN base
               ELSE LET x == Max(s) IN Joined(collect, iter[s \ {x}], q[x])]

JoinOf(collect, S) == [p \in PartsFrom(S) \X Loaded |-> Joined(collect, p[1], p[2])]

LEMMA JoinOfTyped ==
    ASSUME NEW collect, NEW S, VisitsFrom(collect, S)
    PROVE  /\ JoinOf(collect, S) \in [PartsFrom(S) \X Loaded -> PartsFrom(S)]
           /\ \A a \in PartsFrom(S) : \A t \in Loaded : JoinOf(collect, S)[<<a, t>>] = Joined(collect, a, t)
  <1>1. \A a \in PartsFrom(S) : \A t \in Loaded : Joined(collect, a, t) \in PartsFrom(S)
    BY JoinedTyped
  <1> QED
    BY <1>1 DEF JoinOf

LEMMA JoiningExists ==
    ASSUME NEW collect, NEW S, VisitsFrom(collect, S), NEW base \in PartsFrom(S), NEW q \in Seq(Loaded)
    PROVE  \E f : IsJoining(f, collect, base, q)
  <1> DEFINE B == PartsFrom(S)
             op == JoinOf(collect, S)
  <1>1. /\ op \in [B \X Loaded -> B] /\ base \in B
        /\ \A a \in B : \A t \in Loaded : op[<<a, t>>] = Joined(collect, a, t)
    BY JoinOfTyped
  <1> HIDE DEF B, op
  <1>2. PICK f \in [SUBSET DOMAIN q -> B] : IsIteration(f, base, q, op)
    BY <1>1, FoldExists
  <1>3. ASSUME NEW s \in SUBSET DOMAIN q
        PROVE  f[s] = IF s = {} THEN base ELSE LET x == Max(s) IN Joined(collect, f[s \ {x}], q[x])
    <2>1. CASE s = {}
      BY <1>2, <2>1 DEF IsIteration
    <2>2. CASE s # {}
      <3>1. /\ f[s] = op[<<f[s \ {Max(s)}], q[Max(s)]>>]
            /\ f[s \ {Max(s)}] \in B /\ q[Max(s)] \in Loaded
        <4>1. Iterates(f, Loaded, B, base, q, op) /\ s \in SUBSET DOMAIN q /\ s # {}
          BY <1>2, <2>2 DEF Iterates
        <4>2. AppliesAt(f, Loaded, B, q, op, s)
          BY ONLY <4>1, IterationApplies
        <4> QED
          BY <4>2 DEF AppliesAt
      <3> QED
        BY <1>1, <2>2, <3>1
    <2> QED
      BY <2>1, <2>2
  <1>4. IsJoining(f, collect, base, q)
    BY <1>3 DEF IsJoining
  <1> QED
    BY <1>4

\* The parts before each schema of a list.
JoinsAlong(acc, collect, base, q) ==
    /\ acc[0] = base
    /\ \A i \in 1..Len(q) : acc[i] = Joined(collect, acc[i - 1], q[i])

LEMMA JoinAllAlong ==
    ASSUME NEW collect, NEW S, VisitsFrom(collect, S), NEW base \in PartsFrom(S), NEW q \in Seq(Loaded)
    PROVE  \E acc \in [0..Len(q) -> PartsFrom(S)] :
              JoinsAlong(acc, collect, base, q) /\ JoinAll(collect, base, q) = acc[Len(q)]
  <1> DEFINE F == CHOOSE iter : IsJoining(iter, collect, base, q)
  <1>1. IsJoining(F, collect, base, q)
    BY JoiningExists
  <1>2. JoinAll(collect, base, q) = F[DOMAIN q]
    BY DEF JoinAll, FoldLeft, MapThenFoldSet, IsJoining
  <1> HIDE DEF F
  <1> DEFINE B == PartsFrom(S)
             op == JoinOf(collect, S)
  <1>3. /\ op \in [B \X Loaded -> B] /\ base \in B
        /\ \A a \in B : \A t \in Loaded : op[<<a, t>>] = Joined(collect, a, t)
    BY JoinOfTyped
  <1> HIDE DEF B, op
  <1>4. F[{}] = base
    BY <1>1 DEF IsJoining
  <1>5. ASSUME NEW s \in SUBSET DOMAIN q, s # {}, F[s \ {Max(s)}] \in B
        PROVE  F[s] = op[<<F[s \ {Max(s)}], q[Max(s)]>>]
    <2>1. F[s] = Joined(collect, F[s \ {Max(s)}], q[Max(s)])
      BY <1>1, <1>5 DEF IsJoining
    <2>2. Max(s) \in s
      <3>1. DOMAIN q = 1..Len(q) /\ Len(q) \in Nat
        OBVIOUS
      <3> QED
        BY <1>5, <3>1, LargestNumber
    <2>3. q[Max(s)] \in Loaded
      BY <2>2
    <2> QED
      BY <1>3, <1>5, <2>1, <2>3
  <1>6. PICK acc \in [0..Len(q) -> B] :
            /\ acc[0] = base /\ F[DOMAIN q] = acc[Len(q)]
            /\ \A i \in 1..Len(q) : acc[i] = op[<<acc[i - 1], q[i]>>]
    <2>1. Foldable(Loaded, B, base, q, op) /\ GoesAlong(F, B, base, q, op)
      BY <1>3, <1>4, <1>5 DEF Foldable, GoesAlong
    <2> QED
      BY ONLY <2>1, FoldAlong
  <1>7. ASSUME NEW i \in 1..Len(q) PROVE acc[i] = Joined(collect, acc[i - 1], q[i])
    <2>1. i - 1 \in 0..Len(q) /\ q[i] \in Loaded
      OBVIOUS
    <2>2. acc[i - 1] \in B
      BY <2>1
    <2> QED
      BY <1>3, <1>6, <2>1, <2>2
  <1> QED
    BY <1>2, <1>3, <1>6, <1>7 DEF JoinsAlong, B

\* What a visit answers.
Reply(collect, w) ==
    IF w.schema \in w.seen THEN [list |-> <<>>, seen |-> w.seen]
    ELSE JoinAll(collect, Begin(w), WholeTargets(w.schema, w.reference))
IsSurvey(collect) == collect = [w \in Visits |-> Reply(collect, w)]

LEMMA VisitsTyped ==
    ASSUME Readable, NEW w \in Visits
    PROVE  /\ w.schema \in Loaded /\ w.schema \in SchemaNames /\ w.reference \in BOOLEAN
           /\ w.seen \in SUBSET Loaded
           /\ Begin(w) \in PartsFrom(w.seen \cup {w.schema})
           /\ WholeTargets(w.schema, w.reference) \in Seq(Loaded)
  <1>1. w.schema \in Loaded /\ w.schema \in SchemaNames /\ w.reference \in BOOLEAN /\ w.seen \in SUBSET Loaded
    BY DEF Visits, Loaded
  <1>2. OwnResources(w.schema, w.reference) \in Seq(Nodes)
    BY <1>1, OwnTyped
  <1>3. WholeTargets(w.schema, w.reference) \in Seq(Loaded)
    BY <1>1, WholeTargetsTyped
  <1>4. Begin(w) \in PartsFrom(w.seen \cup {w.schema})
    BY <1>1, <1>2 DEF Begin, PartsFrom, Parts
  <1> QED
    BY <1>1, <1>3, <1>4

LEMMA ReplyTyped ==
    ASSUME Readable, NEW collect, NEW w \in Visits,
           w.schema \notin w.seen => VisitsFrom(collect, w.seen \cup {w.schema})
    PROVE  Reply(collect, w) \in PartsFrom(w.seen)
  <1>1. CASE w.schema \in w.seen
    <2>1. <<>> \in Seq(Nodes) /\ w.seen \in SUBSET Loaded
      BY VisitsTyped, EmptySeq
    <2> QED
      BY <1>1, <2>1 DEF Reply, PartsFrom, Parts
  <1>2. CASE w.schema \notin w.seen
    <2>1. PICK S : S = w.seen \cup {w.schema}
      OBVIOUS
    <2>2. PICK base \in PartsFrom(S) : base = Begin(w)
      BY <2>1, VisitsTyped
    <2>3. PICK q \in Seq(Loaded) : q = WholeTargets(w.schema, w.reference)
      BY VisitsTyped
    <2>4. VisitsFrom(collect, S)
      BY <1>2, <2>1
    <2>5. PICK acc \in [0..Len(q) -> PartsFrom(S)] : JoinAll(collect, base, q) = acc[Len(q)]
      BY <2>4, JoinAllAlong
    <2>6. Len(q) \in 0..Len(q)
      OBVIOUS
    <2>7. Reply(collect, w) \in PartsFrom(S)
      BY <1>2, <2>2, <2>3, <2>5, <2>6 DEF Reply
    <2> QED
      BY <2>1, <2>7 DEF PartsFrom
  <1> QED
    BY <1>1, <1>2

\* Two functions that answer alike once more has been seen.
SurveyAlike(f, g, S) ==
    /\ VisitsFrom(f, S) /\ VisitsFrom(g, S)
    /\ \A t \in Loaded : \A a \in PartsFrom(S) : f[Visit(t, a)] = g[Visit(t, a)]

LEMMA RepliesAgree ==
    ASSUME Readable, NEW f, NEW g, NEW w \in Visits,
           w.schema \notin w.seen => SurveyAlike(f, g, w.seen \cup {w.schema})
    PROVE  Reply(f, w) = Reply(g, w)
  <1>1. CASE w.schema \in w.seen
    BY <1>1 DEF Reply
  <1>2. CASE w.schema \notin w.seen
    <2>1. PICK S : S = w.seen \cup {w.schema}
      OBVIOUS
    <2>2. PICK base \in PartsFrom(S) : base = Begin(w)
      BY <2>1, VisitsTyped
    <2>3. PICK q \in Seq(Loaded) : q = WholeTargets(w.schema, w.reference)
      BY VisitsTyped
    <2>4. VisitsFrom(f, S) /\ VisitsFrom(g, S)
      BY <1>2, <2>1 DEF SurveyAlike
    <2>5. PICK acc \in [0..Len(q) -> PartsFrom(S)] :
              JoinsAlong(acc, f, base, q) /\ JoinAll(f, base, q) = acc[Len(q)]
      BY <2>4, JoinAllAlong
    <2>6. PICK bcc \in [0..Len(q) -> PartsFrom(S)] :
              JoinsAlong(bcc, g, base, q) /\ JoinAll(g, base, q) = bcc[Len(q)]
      BY <2>4, JoinAllAlong
    <2>7. Len(q) \in Nat /\ 0 \in 0..Len(q) /\ Len(q) \in 0..Len(q)
      OBVIOUS
    <2> DEFINE P == {i \in 0..Len(q) : acc[i] = bcc[i]}
    <2>8. 0 \in P
      BY <2>5, <2>6, <2>7 DEF JoinsAlong
    <2>9. ASSUME NEW i \in 1..Len(q), i - 1 \in P PROVE i \in P
      <3>1. i \in 0..Len(q) /\ i - 1 \in 0..Len(q) /\ q[i] \in Loaded
        BY <2>7
      <3>2. PICK a \in PartsFrom(S) : a = acc[i - 1] /\ a = bcc[i - 1]
        BY <2>5, <2>9, <3>1
      <3>3. f[Visit(q[i], a)] = g[Visit(q[i], a)]
        BY <1>2, <2>1, <3>1 DEF SurveyAlike
      <3>4. acc[i] = Joined(f, a, q[i]) /\ bcc[i] = Joined(g, a, q[i])
        BY <2>5, <2>6, <3>2 DEF JoinsAlong
      <3>5. acc[i] = bcc[i]
        BY <3>3, <3>4 DEF Joined
      <3> QED
        BY <3>1, <3>5
    <2> HIDE DEF P
    <2>10. Len(q) \in P
      BY <2>7, <2>8, <2>9, NumberByNumber
    <2>11. JoinAll(f, base, q) = JoinAll(g, base, q)
      BY <2>5, <2>6, <2>10 DEF P
    <2> QED
      BY <2>2, <2>3, <2>11 DEF Reply
  <1> QED
    BY <1>1, <1>2

LEMMA SurveyExists ==
    ASSUME Readable
    PROVE  \E collect : IsSurvey(collect)
  <1> DEFINE F == {f \in [Visits -> Parts] : \A w \in Visits : f[w] \in PartsFrom(w.seen)}
             rank == [w \in Visits |-> Cardinality(Loaded \ w.seen)]
             step == [f \in F |-> [w \in Visits |-> Reply(f, w)]]
  <1>0. IsFiniteSet(Loaded)
    BY LoadedFinite
  <1>1. ASSUME NEW w \in Visits
        PROVE  /\ rank[w] = Cardinality(Loaded \ w.seen)
               /\ rank[w] \in Nat /\ rank[w] < Cardinality(Loaded) + 1 /\ Cardinality(Loaded) \in Nat
    <2>1. Loaded \ w.seen \in SUBSET Loaded
      OBVIOUS
    <2>2. /\ Cardinality(Loaded \ w.seen) \in Nat /\ Cardinality(Loaded) \in Nat
          /\ Cardinality(Loaded \ w.seen) <= Cardinality(Loaded)
      BY <1>0, <2>1, FS_CardinalityType, FS_Subset
    <2>3. rank[w] = Cardinality(Loaded \ w.seen)
      OBVIOUS
    <2> HIDE DEF rank
    <2> QED
      BY <2>2, <2>3
  <1>2. ASSUME NEW f \in F, NEW S PROVE VisitsFrom(f, S)
    <2>1. ASSUME NEW t \in Loaded, NEW a \in PartsFrom(S) PROVE f[Visit(t, a)] \in PartsFrom(a.seen)
      <3>1. Visit(t, a) \in Visits /\ Visit(t, a).seen = a.seen
        BY VisitTyped
      <3> QED
        BY <3>1
    <2> QED
      BY <2>1 DEF VisitsFrom
  <1>3. ASSUME NEW f \in F, NEW g \in F, NEW w \in Visits,
               \A v \in Visits : rank[v] < rank[w] => f[v] = g[v]
        PROVE  Reply(f, w) = Reply(g, w)
    <2>1. ASSUME w.schema \notin w.seen, NEW t \in Loaded, NEW a \in PartsFrom(w.seen \cup {w.schema})
          PROVE  f[Visit(t, a)] = g[Visit(t, a)]
      <3>0. PICK S : S = w.seen \cup {w.schema} /\ a \in PartsFrom(S)
        BY <2>1
      <3>1. /\ Visit(t, a) \in Visits /\ Visit(t, a).seen = a.seen
            /\ w.seen \subseteq a.seen /\ w.schema \in a.seen
        <4>1. Visit(t, a) \in Visits /\ Visit(t, a).seen = a.seen /\ S \subseteq a.seen
          <5>1. t \in Loaded /\ a \in PartsFrom(S)
            BY <2>1, <3>0
          <5> QED
            BY ONLY <5>1, VisitTyped
        <4> QED
          BY <3>0, <4>1
      <3>2. w.schema \in Loaded
        BY VisitsTyped
      <3>3. Cardinality(Loaded \ a.seen) < Cardinality(Loaded \ w.seen)
        BY <1>0, <2>1, <3>1, <3>2, LessIsLeft
      <3>4. rank[Visit(t, a)] < rank[w]
        <4> HIDE DEF rank
        <4> QED
          BY <1>1, <3>1, <3>3
      <3> HIDE DEF F, rank
      <3> QED
        BY <1>3, <3>1, <3>4
    <2>2. w.schema \notin w.seen => SurveyAlike(f, g, w.seen \cup {w.schema})
      <3> HIDE DEF F, rank
      <3> QED
        BY <1>2, <2>1 DEF SurveyAlike
    <2> QED
      BY <2>2, RepliesAgree
  <1>4. ASSUME NEW f \in F PROVE step[f] \in F
    <2>1. ASSUME NEW w \in Visits PROVE Reply(f, w) \in PartsFrom(w.seen)
      <3>1. VisitsFrom(f, w.seen \cup {w.schema})
        BY <1>2
      <3> QED
        BY <3>1, ReplyTyped
    <2>2. \A w \in Visits : PartsFrom(w.seen) \subseteq Parts
      BY DEF PartsFrom
    <2>3. [w \in Visits |-> Reply(f, w)] \in F
      BY <2>1, <2>2
    <2> QED
      BY <2>3
  <1>5. F # {} /\ \A f \in F : f = [w \in Visits |-> f[w]]
    <2>1. ASSUME NEW w \in Visits PROVE [list |-> <<>>, seen |-> w.seen] \in PartsFrom(w.seen)
      BY VisitsTyped, EmptySeq DEF PartsFrom, Parts
    <2>2. \A w \in Visits : PartsFrom(w.seen) \subseteq Parts
      BY DEF PartsFrom
    <2>3. [w \in Visits |-> [list |-> <<>>, seen |-> w.seen]] \in F
      BY <2>1, <2>2
    <2> QED
      BY <2>3
  <1>6. LooksLower(Visits, F, rank, step)
    <2>1. rank \in [Visits -> Nat] /\ \E K \in Nat : \A w \in Visits : rank[w] < K
      <3>1. Cardinality(Loaded) + 1 \in Nat
        BY <1>0, FS_CardinalityType
      <3>2. rank = [w \in Visits |-> rank[w]]
        OBVIOUS
      <3> HIDE DEF rank
      <3> QED
        BY <1>1, <3>1, <3>2
    <2>2. step \in [F -> F]
      <3>1. step = [f \in F |-> step[f]]
        OBVIOUS
      <3> HIDE DEF step, F
      <3> QED
        BY <1>4, <3>1
    <2>3. ASSUME NEW f \in F, NEW g \in F, NEW w \in Visits,
                 \A v \in Visits : rank[v] < rank[w] => f[v] = g[v]
          PROVE  step[f][w] = step[g][w]
      <3>1. Reply(f, w) = Reply(g, w)
        <4> HIDE DEF F, rank
        <4> QED
          BY <1>3, <2>3
      <3> HIDE DEF F, rank
      <3> QED
        BY <3>1
    <2> HIDE DEF F, rank, step
    <2> QED
      BY <1>5, <2>1, <2>2, <2>3 DEF LooksLower
  <1>7. PICK f \in F : step[f] = f
    <2> HIDE DEF F, rank, step
    <2> QED
      BY <1>6, RecursionExists
  <1>8. f = [w \in Visits |-> Reply(f, w)]
    <2> HIDE DEF F
    <2> QED
      BY <1>7
  <1> QED
    BY <1>8 DEF IsSurvey

\* Whether a visit takes what a schema references, and what it takes of schemas.
Far(w, t) == IF t = w.schema THEN w.reference ELSE FALSE
Share(w, S) == UNION {Own(t, Far(w, t)) : t \in S}
\* A set that what a visit sees cannot leave.
Bounds(w, T) ==
    /\ w.seen \subseteq T /\ w.schema \in T
    /\ w.schema \notin w.seen => Goals(w.schema, w.reference) \subseteq T
    /\ \A t \in T : Goals(t, FALSE) \subseteq T

\* What a visit answers: the share of what it has seen beside what was seen before,
\* in which a schema comes with the schemas it leads to, and no others.
RightReply(w, r) ==
    /\ w.schema \in r.seen
    /\ Elems(r.list) \subseteq Share(w, r.seen \ w.seen)
    /\ KeysOf(Elems(r.list)) = KeysOf(Share(w, r.seen \ w.seen))
    /\ \A t \in r.seen \ w.seen : Goals(t, Far(w, t)) \subseteq r.seen
    /\ \A T \in SUBSET Loaded : Bounds(w, T) => r.seen \subseteq T

\* The same, before all schemas it goes on to have been visited.
ReplySoFar(w, q, i, a) ==
    /\ a \in PartsFrom(w.seen \cup {w.schema})
    /\ Elems(a.list) \subseteq Share(w, a.seen \ w.seen)
    /\ KeysOf(Elems(a.list)) = KeysOf(Share(w, a.seen \ w.seen))
    /\ \A j \in 1..i : q[j] \in a.seen
    /\ \A t \in a.seen \ w.seen : t # w.schema => Goals(t, FALSE) \subseteq a.seen
    /\ \A T \in SUBSET Loaded : Bounds(w, T) => a.seen \subseteq T

Unvisited(w, q) == /\ w \in Visits /\ w.schema \notin w.seen /\ q \in Seq(Loaded)
                /\ Elems(q) = Goals(w.schema, w.reference)

LEMMA OneMoreVisit ==
    ASSUME NEW w, NEW q, Unvisited(w, q), NEW i \in 1..Len(q), NEW a, ReplySoFar(w, q, i - 1, a),
           NEW r, r \in PartsFrom(a.seen), RightReply(Visit(q[i], a), r),
           NEW b, b = [list |-> PutAll(a.list, r.list), seen |-> r.seen]
    PROVE  ReplySoFar(w, q, i, b)
  <1> PICK t : t = q[i]
    OBVIOUS
  <1> DEFINE v == Visit(t, a)
  <1>1. w \in Visits /\ w.schema \notin w.seen /\ t \in Loaded /\ t \in Goals(w.schema, w.reference)
    <2>1. q \in Seq(Loaded) /\ t \in Elems(q)
      BY DEF Unvisited, Elems
    <2> QED
      BY <2>1, ElemsTyped DEF Unvisited
  <1>2. /\ a.list \in Seq(Nodes) /\ a.seen \in SUBSET Loaded /\ w.seen \subseteq a.seen /\ w.schema \in a.seen
        /\ r.list \in Seq(Nodes) /\ r.seen \in SUBSET Loaded /\ a.seen \subseteq r.seen
        /\ b.list = PutAll(a.list, r.list) /\ b.seen = r.seen
    BY DEF ReplySoFar, PartsFrom, Parts
  <1>3. v.schema = t /\ v.reference = FALSE /\ v.seen = a.seen
    BY DEF Visit
  <1>4. RightReply(v, r)
    OBVIOUS
  <1> HIDE DEF v
  <1>5. /\ PutAll(a.list, r.list) \in Seq(Nodes)
        /\ Elems(b.list) \subseteq Elems(a.list) \cup Elems(r.list)
        /\ KeysOf(Elems(b.list)) = KeysOf(Elems(a.list)) \cup KeysOf(Elems(r.list))
    <2>1. PICK p \in Seq(Nodes) : p = a.list
      BY <1>2
    <2>2. PICK m \in Seq(Nodes) : m = r.list
      BY <1>2
    <2>3. /\ PutAll(p, m) \in Seq(Nodes) /\ Elems(PutAll(p, m)) \subseteq Elems(p) \cup Elems(m)
          /\ KeysOf(Elems(PutAll(p, m))) = KeysOf(Elems(p)) \cup KeysOf(Elems(m))
      BY PutAllKeeps
    <2> QED
      BY <1>2, <2>1, <2>2, <2>3
  <1>6. b \in PartsFrom(w.seen \cup {w.schema})
    <2>1. b \in Parts
      BY <1>2, <1>5 DEF Parts
    <2> QED
      BY <1>2, <2>1 DEF PartsFrom
  <1>7. \A u \in r.seen \ a.seen : Far(v, u) = FALSE /\ Far(w, u) = FALSE
    BY <1>2, <1>3 DEF Far
  <1>8. Share(w, b.seen \ w.seen) = Share(w, a.seen \ w.seen) \cup Share(v, r.seen \ v.seen)
    <2>1. Share(v, r.seen \ v.seen) = Share(w, r.seen \ a.seen)
      BY <1>3, <1>7 DEF Share
    <2>2. b.seen \ w.seen = (a.seen \ w.seen) \cup (r.seen \ a.seen)
      BY <1>2
    <2>3. \A S, T : Share(w, S \cup T) = Share(w, S) \cup Share(w, T)
      BY DEF Share
    <2> QED
      BY <2>1, <2>2, <2>3
  <1>9. \A S, T : KeysOf(S \cup T) = KeysOf(S) \cup KeysOf(T)
    BY DEF KeysOf
  <1>10. Elems(b.list) \subseteq Share(w, b.seen \ w.seen)
    BY <1>4, <1>5, <1>8 DEF ReplySoFar, RightReply
  <1>11. KeysOf(Elems(b.list)) = KeysOf(Share(w, b.seen \ w.seen))
    <2>1. PICK S : S = Share(w, a.seen \ w.seen)
      OBVIOUS
    <2>2. PICK T : T = Share(v, r.seen \ v.seen)
      OBVIOUS
    <2>3. KeysOf(Elems(a.list)) = KeysOf(S)
      BY <2>1 DEF ReplySoFar
    <2>4. KeysOf(Elems(r.list)) = KeysOf(T)
      BY <1>4, <2>2 DEF RightReply
    <2>5. KeysOf(Elems(b.list)) = KeysOf(S) \cup KeysOf(T)
      BY ONLY <1>5, <2>3, <2>4
    <2>6. KeysOf(S \cup T) = KeysOf(S) \cup KeysOf(T)
      BY ONLY <1>9
    <2>7. Share(w, b.seen \ w.seen) = S \cup T
      BY ONLY <1>8, <2>1, <2>2
    <2> QED
      BY ONLY <2>5, <2>6, <2>7
  <1>12. \A j \in 1..i : q[j] \in b.seen
    <2>1. \A j \in 1..i : j = i \/ j \in 1..(i - 1)
      BY DEF Unvisited
    <2>2. q[i] \in b.seen
      BY <1>2, <1>3, <1>4 DEF RightReply
    <2>3. \A j \in 1..(i - 1) : q[j] \in b.seen
      BY <1>2 DEF ReplySoFar
    <2> QED
      BY <2>1, <2>2, <2>3
  <1>13. ASSUME NEW u \in b.seen \ w.seen, u # w.schema PROVE Goals(u, FALSE) \subseteq b.seen
    <2>1. CASE u \in a.seen
      BY <1>2, <1>13, <2>1 DEF ReplySoFar
    <2>2. CASE u \notin a.seen
      <3>1. u \in r.seen \ v.seen /\ Far(v, u) = FALSE
        BY <1>2, <1>3, <1>7, <1>13, <2>2
      <3> QED
        BY <1>2, <1>4, <3>1 DEF RightReply
    <2> QED
      BY <2>1, <2>2
  <1>14. ASSUME NEW T \in SUBSET Loaded, Bounds(w, T) PROVE b.seen \subseteq T
    <2>1. a.seen \subseteq T
      BY <1>14 DEF ReplySoFar
    <2>2. t \in T /\ \A u \in T : Goals(u, FALSE) \subseteq T
      BY <1>1, <1>14 DEF Bounds
    <2>3. Bounds(v, T)
      BY <1>3, <2>1, <2>2 DEF Bounds
    <2> QED
      BY <1>2, <1>4, <2>3 DEF RightReply
  <1> QED
    BY <1>6, <1>10, <1>11, <1>12, <1>13, <1>14 DEF ReplySoFar

LEMMA ReplyRight ==
    ASSUME Readable, NEW collect, NEW w \in Visits, w.schema \notin w.seen,
           VisitsFrom(collect, w.seen \cup {w.schema}),
           \A t \in Loaded : \A a \in PartsFrom(w.seen \cup {w.schema}) :
               RightReply(Visit(t, a), collect[Visit(t, a)])
    PROVE  RightReply(w, Reply(collect, w))
  <1>1. PICK S : S = w.seen \cup {w.schema}
    OBVIOUS
  <1>2. PICK base \in PartsFrom(S) : base = Begin(w)
    BY <1>1, VisitsTyped
  <1>3. PICK q \in Seq(Loaded) : q = WholeTargets(w.schema, w.reference)
    BY VisitsTyped
  <1>4. VisitsFrom(collect, S)
    BY <1>1
  <1>5. PICK acc \in [0..Len(q) -> PartsFrom(S)] :
            JoinsAlong(acc, collect, base, q) /\ JoinAll(collect, base, q) = acc[Len(q)]
    BY <1>4, JoinAllAlong
  <1>6. Len(q) \in Nat /\ 0 \in 0..Len(q) /\ Len(q) \in 0..Len(q)
    OBVIOUS
  <1>7. /\ w.schema \in Loaded /\ w.schema \in SchemaNames /\ w.reference \in BOOLEAN
        /\ w.seen \in SUBSET Loaded
    BY VisitsTyped
  <1>8. Elems(q) = Goals(w.schema, w.reference)
    BY <1>3, <1>7, WholeTargetsTyped
  <1>9. Unvisited(w, q)
    BY <1>8 DEF Unvisited
  <1> DEFINE P == {i \in 0..Len(q) : ReplySoFar(w, q, i, acc[i])}
  <1>10. 0 \in P
    <2>1. acc[0] = base
      BY <1>5 DEF JoinsAlong
    <2>2. base.list = OwnResources(w.schema, w.reference) /\ base.seen = w.seen \cup {w.schema}
      BY <1>2 DEF Begin
    <2>3. Share(w, base.seen \ w.seen) = Own(w.schema, w.reference)
      <3>1. base.seen \ w.seen = {w.schema}
        BY <2>2
      <3>2. Far(w, w.schema) = w.reference
        BY DEF Far
      <3> QED
        BY <3>1, <3>2 DEF Share
    <2>4. /\ Elems(base.list) \subseteq Share(w, base.seen \ w.seen)
          /\ KeysOf(Elems(base.list)) = KeysOf(Share(w, base.seen \ w.seen))
      BY <1>7, <2>2, <2>3, OwnTyped
    <2>5. \A j \in 1..0 : FALSE
      OBVIOUS
    <2>6. \A t \in base.seen \ w.seen : t = w.schema
      BY <2>2
    <2>7. \A T \in SUBSET Loaded : Bounds(w, T) => base.seen \subseteq T
      BY <2>2 DEF Bounds
    <2>8. base \in PartsFrom(w.seen \cup {w.schema})
      BY <1>1
    <2>9. ReplySoFar(w, q, 0, base)
      BY <2>4, <2>5, <2>6, <2>7, <2>8 DEF ReplySoFar
    <2> QED
      BY <1>6, <2>1, <2>9
  <1>11. ASSUME NEW i \in 1..Len(q), i - 1 \in P PROVE i \in P
    <2>1. i \in 0..Len(q) /\ i - 1 \in 0..Len(q) /\ q[i] \in Loaded
      BY <1>6
    <2>2. PICK a \in PartsFrom(S) : a = acc[i - 1]
      BY <2>1
    <2>3. ReplySoFar(w, q, i - 1, a)
      BY <1>11, <2>2
    <2>4. PICK r : r = collect[Visit(q[i], a)]
      OBVIOUS
    <2>5. RightReply(Visit(q[i], a), r) /\ r \in PartsFrom(a.seen)
      BY <1>1, <1>4, <2>1, <2>4 DEF VisitsFrom
    <2>6. PICK b : b = acc[i] /\ b = [list |-> PutAll(a.list, r.list), seen |-> r.seen]
      <3>1. acc[i] = Joined(collect, a, q[i])
        BY <1>5, <2>2 DEF JoinsAlong
      <3> QED
        BY <2>4, <3>1 DEF Joined, Merge
    <2>7. ReplySoFar(w, q, i, b)
      BY <1>9, <2>3, <2>5, <2>6, OneMoreVisit
    <2> QED
      BY <2>1, <2>6, <2>7
  <1> HIDE DEF P
  <1>12. Len(q) \in P
    BY <1>6, <1>10, <1>11, NumberByNumber
  <1>13. PICK r : r = Reply(collect, w) /\ ReplySoFar(w, q, Len(q), r)
    BY <1>2, <1>3, <1>5, <1>12 DEF P, Reply
  <1>14. Goals(w.schema, w.reference) \subseteq r.seen
    BY <1>8, <1>13 DEF ReplySoFar, Elems
  <1>15. w.schema \in r.seen
    BY <1>13 DEF ReplySoFar, PartsFrom
  <1>16. \A t \in r.seen \ w.seen : Goals(t, Far(w, t)) \subseteq r.seen
    BY <1>13, <1>14 DEF ReplySoFar, Far
  <1> QED
    BY <1>13, <1>15, <1>16 DEF ReplySoFar, RightReply

LEMMA SurveyRight ==
    ASSUME Readable, NEW collect, IsSurvey(collect)
    PROVE  \A w \in Visits : RightReply(w, collect[w]) /\ collect[w] \in PartsFrom(w.seen)
  <1> DEFINE Good(w) == RightReply(w, collect[w]) /\ collect[w] \in PartsFrom(w.seen)
             rank == [w \in Visits |-> Cardinality(Loaded \ w.seen)]
             P == {w \in Visits : Good(w)}
  <1>1. IsFiniteSet(Loaded)
    BY LoadedFinite
  <1>2. rank \in [Visits -> Nat] /\ \A w \in Visits : rank[w] = Cardinality(Loaded \ w.seen)
    <2>1. ASSUME NEW w \in Visits PROVE Cardinality(Loaded \ w.seen) \in Nat
      BY <1>1, FS_Difference, FS_CardinalityType
    <2> QED
      BY <2>1
  <1> HIDE DEF rank
  <1>3. ASSUME NEW w \in Visits, \A v \in Visits : rank[v] < rank[w] => v \in P PROVE w \in P
    <2>1. collect[w] = Reply(collect, w)
      BY DEF IsSurvey
    <2>2. w.schema \in Loaded /\ w.seen \in SUBSET Loaded
      BY VisitsTyped
    <2>3. ASSUME w.schema \notin w.seen, NEW t \in Loaded, NEW a \in PartsFrom(w.seen \cup {w.schema})
          PROVE  Visit(t, a) \in P /\ Visit(t, a).seen = a.seen
      <3>0. PICK S : S = w.seen \cup {w.schema} /\ a \in PartsFrom(S)
        BY <2>3
      <3>1. Visit(t, a) \in Visits /\ Visit(t, a).seen = a.seen /\ S \subseteq a.seen
        <4>1. t \in Loaded /\ a \in PartsFrom(S)
          BY <2>3, <3>0
        <4> QED
          BY ONLY <4>1, VisitTyped
      <3>2. Cardinality(Loaded \ a.seen) < Cardinality(Loaded \ w.seen)
        <4>1. w.seen \subseteq a.seen /\ w.schema \in a.seen
          BY <3>0, <3>1
        <4> QED
          BY <1>1, <2>2, <2>3, <4>1, LessIsLeft
      <3>3. rank[Visit(t, a)] < rank[w]
        BY <1>2, <3>1, <3>2
      <3> HIDE DEF P
      <3> QED
        BY <1>3, <3>1, <3>3
    <2>4. ASSUME w.schema \notin w.seen
          PROVE  /\ VisitsFrom(collect, w.seen \cup {w.schema})
                 /\ \A t \in Loaded : \A a \in PartsFrom(w.seen \cup {w.schema}) :
                       RightReply(Visit(t, a), collect[Visit(t, a)])
      <3>1. ASSUME NEW t \in Loaded, NEW a \in PartsFrom(w.seen \cup {w.schema})
            PROVE  /\ collect[Visit(t, a)] \in PartsFrom(a.seen)
                   /\ RightReply(Visit(t, a), collect[Visit(t, a)])
        BY <2>3, <2>4
      <3> QED
        BY <3>1 DEF VisitsFrom
    <2>5. collect[w] \in PartsFrom(w.seen)
      BY <2>1, <2>4, ReplyTyped
    <2>6. RightReply(w, collect[w])
      <3>1. CASE w.schema \in w.seen
        <4>1. PICK r : r = collect[w] /\ r.list = <<>> /\ r.seen = w.seen
          BY <2>1, <3>1 DEF Reply
        <4>2. r.seen \ w.seen = {}
          BY <4>1
        <4>3. Share(w, r.seen \ w.seen) = {} /\ Elems(r.list) = {}
          BY <4>1, <4>2 DEF Share, Elems
        <4>4. \A T \in SUBSET Loaded : Bounds(w, T) => r.seen \subseteq T
          BY <4>1 DEF Bounds
        <4> QED
          BY <3>1, <4>1, <4>2, <4>3, <4>4 DEF RightReply
      <3>2. CASE w.schema \notin w.seen
        BY <2>1, <2>4, <3>2, ReplyRight
      <3> QED
        BY <3>1, <3>2
    <2> QED
      BY <2>5, <2>6
  <1>4. Visits \subseteq P
    <2> HIDE DEF P
    <2> QED
      BY <1>2, <1>3, RankInduction
  <1> QED
    BY <1>4

\* The function in AllResources.
IsCollectingAll(collect) ==
    collect = [w \in [schema : Loaded, reference : BOOLEAN, seen : SUBSET Loaded] |->
            IF w.schema \in w.seen THEN [list |-> <<>>, seen |-> w.seen]
            ELSE FoldLeft(LAMBDA walk, t :
                              Merge(walk, collect[[schema |-> t, reference |-> FALSE, seen |-> walk.seen]]),
                          [list |-> OwnResources(w.schema, w.reference), seen |-> w.seen \cup {w.schema}],
                          WholeTargets(w.schema, w.reference))]

LEMMA CollectingAllIsSurvey ==
    ASSUME NEW collect
    PROVE  IsCollectingAll(collect) <=> IsSurvey(collect)
  BY DEF IsCollectingAll, IsSurvey, Visits, Reply, JoinAll, Joined, Visit, Begin

\* A set of schemas closed under what s interfaces as a whole.
Encloses(s, T) == /\ s \in T /\ Goals(s, TRUE) \subseteq T
                  /\ \A t \in T : Goals(t, FALSE) \subseteq T
\* What schemas have, s with what it references.
ShareOf(s, S) == UNION {Own(t, t = s) : t \in S}

LEMMA AllResourcesRight ==
    ASSUME Readable, NEW s \in Loaded
    PROVE  \E Q \in SUBSET Loaded :
              /\ AllResources(s) \in Seq(Nodes)
              /\ Elems(AllResources(s)) \subseteq ShareOf(s, Q)
              /\ KeysOf(Elems(AllResources(s))) = KeysOf(ShareOf(s, Q))
              /\ Encloses(s, Q)
              /\ \A T \in SUBSET Loaded : Encloses(s, T) => Q \subseteq T
  <1> DEFINE F == CHOOSE collect : IsCollectingAll(collect)
             w == [schema |-> s, reference |-> TRUE, seen |-> {}]
  <1>1. IsCollectingAll(F)
    <2>1. PICK collect : IsSurvey(collect)
      BY SurveyExists
    <2>2. IsCollectingAll(collect)
      BY <2>1, CollectingAllIsSurvey
    <2> QED
      BY <2>2
  <1>2. AllResources(s) = F[w].list
    BY DEF AllResources, IsCollectingAll
  <1> HIDE DEF F
  <1>3. IsSurvey(F)
    BY <1>1, CollectingAllIsSurvey
  <1>4. w \in Visits /\ w.schema = s /\ w.reference = TRUE /\ w.seen = {}
    BY DEF Visits
  <1> HIDE DEF w
  <1>5. PICK r : r = F[w]
    OBVIOUS
  <1>6. RightReply(w, r) /\ r \in PartsFrom(w.seen)
    BY <1>3, <1>4, <1>5, SurveyRight
  <1>7. r.list \in Seq(Nodes) /\ r.seen \in SUBSET Loaded /\ r.seen \ w.seen = r.seen
    BY <1>4, <1>6 DEF PartsFrom, Parts
  <1>8. \A t : Far(w, t) = (t = s)
    BY <1>4 DEF Far
  <1>9. Share(w, r.seen) = ShareOf(s, r.seen)
    BY <1>8 DEF Share, ShareOf
  <1>10. /\ Elems(r.list) \subseteq ShareOf(s, r.seen)
         /\ KeysOf(Elems(r.list)) = KeysOf(ShareOf(s, r.seen))
    BY <1>6, <1>7, <1>9 DEF RightReply
  <1>11. Encloses(s, r.seen)
    <2>1. s \in r.seen /\ \A t \in r.seen : Goals(t, Far(w, t)) \subseteq r.seen
      BY <1>4, <1>6, <1>7 DEF RightReply
    <2>2. Goals(s, TRUE) \subseteq r.seen
      BY <1>8, <2>1
    <2>3. \A t \in r.seen : Goals(t, FALSE) \subseteq Goals(t, Far(w, t))
      BY DEF Goals
    <2> QED
      BY <2>1, <2>2, <2>3 DEF Encloses
  <1>12. ASSUME NEW T \in SUBSET Loaded, Encloses(s, T) PROVE r.seen \subseteq T
    <2>1. Bounds(w, T)
      BY <1>4, <1>12 DEF Bounds, Encloses
    <2> QED
      BY <1>6, <2>1 DEF RightReply
  <1> QED
    BY <1>2, <1>5, <1>7, <1>10, <1>11, <1>12

----------------------------------------------------------------------------
(* Clause 11 *)

\* The objects say what the texts say.
Interfaced ==
    \A s \in Loaded : /\ \A mode \in Modes : Wanted(s, mode) = Interfaces(s, mode)
                      /\ Elems(PartialItems(s, TRUE)) = ListedItems(s, Modes)
                      /\ Elems(PartialItems(s, FALSE)) = ListedItems(s, {"use"})

LEMMA SourcesAreLeast ==
    ASSUME Readable, Interfaced, NEW s \in Loaded
    PROVE  /\ Sources(s) \in SUBSET Loaded /\ Encloses(s, Sources(s))
           /\ \A Q \in SUBSET Loaded : Encloses(s, Q) => Sources(s) \subseteq Q
  <1> DEFINE uses == [t \in Loaded |-> Interfaces(t, "use")]
             referenced == Interfaces(s, "reference")
             Led1(t) == Closure(uses, uses[t])
  <1>1. \A t \in Loaded : uses[t] = Wanted(t, "use") /\ Goals(t, FALSE) = uses[t]
    BY DEF Interfaced, Modes, Goals
  <1>2. uses \in [Loaded -> SUBSET Loaded]
    <2>1. \A t \in Loaded : Wanted(t, "use") \in SUBSET Loaded
      <3>1. \A t \in Loaded : t \in SchemaNames
        BY DEF Loaded
      <3> QED
        BY <3>1, WholeTargetsTyped
    <2> QED
      BY <1>1, <2>1
  <1>3. Goals(s, TRUE) = referenced \cup uses[s] /\ referenced \in SUBSET Loaded
    <2>1. s \in SchemaNames
      BY DEF Loaded
    <2>2. Goals(s, TRUE) \in SUBSET Loaded
      BY <2>1, WholeTargetsTyped
    <2>3. Goals(s, TRUE) = referenced \cup uses[s]
      BY <1>1 DEF Goals, Interfaced, Modes
    <2> QED
      BY <2>2, <2>3
  <1>4. IsFiniteSet(Loaded)
    BY LoadedFinite
  <1>5. Sources(s) = {s} \cup referenced \cup Reached(uses, s) \cup UNION {Reached(uses, t) : t \in referenced}
    BY DEF Sources
  <1> HIDE DEF uses, referenced
  <1>6. ASSUME NEW t \in Loaded
        PROVE  /\ Reached(uses, t) \in SUBSET Loaded /\ uses[t] \subseteq Reached(uses, t)
               /\ IsClosed(uses, Reached(uses, t))
               /\ \A C \in SUBSET Loaded : uses[t] \subseteq C /\ IsClosed(uses, C) => Reached(uses, t) \subseteq C
    <2>1. Reached(uses, t) = Closure(uses, uses[t]) /\ uses[t] \in SUBSET Loaded
      BY <1>2, <1>4, ReachedIsClosure
    <2> QED
      BY <1>2, <2>1, ClosureIsLeast
  <1>7. Sources(s) \in SUBSET Loaded
    BY <1>3, <1>5, <1>6
  <1>8. ASSUME NEW t \in Sources(s) PROVE uses[t] \subseteq Sources(s)
    <2>1. CASE t = s
      BY <1>5, <1>6, <2>1
    <2>2. CASE t \in referenced
      BY <1>3, <1>5, <1>6, <2>2
    <2>3. CASE t \in Reached(uses, s)
      BY <1>5, <1>6, <2>3 DEF IsClosed
    <2>4. ASSUME NEW u \in referenced, t \in Reached(uses, u) PROVE uses[t] \subseteq Sources(s)
      BY <1>3, <1>5, <1>6, <2>4 DEF IsClosed
    <2> QED
      BY <1>5, <2>1, <2>2, <2>3, <2>4
  <1>9. Encloses(s, Sources(s))
    <2>1. s \in Sources(s) /\ referenced \subseteq Sources(s)
      BY <1>5
    <2>2. Goals(s, TRUE) \subseteq Sources(s)
      BY <1>3, <1>8, <2>1
    <2>3. \A t \in Sources(s) : Goals(t, FALSE) \subseteq Sources(s)
      BY <1>1, <1>7, <1>8
    <2> QED
      BY <2>1, <2>2, <2>3 DEF Encloses
  <1>10. ASSUME NEW Q \in SUBSET Loaded, Encloses(s, Q) PROVE Sources(s) \subseteq Q
    <2>1. s \in Q /\ referenced \subseteq Q /\ IsClosed(uses, Q)
      BY <1>1, <1>3, <1>10 DEF Encloses, IsClosed
    <2>2. Reached(uses, s) \subseteq Q
      BY <1>6, <2>1 DEF IsClosed
    <2>3. \A t \in referenced : Reached(uses, t) \subseteq Q
      BY <1>3, <1>6, <2>1 DEF IsClosed
    <2> QED
      BY <1>5, <2>1, <2>2, <2>3
  <1> QED
    BY <1>7, <1>9, <1>10

LEMMA PartialElems ==
    ASSUME Readable, NEW s \in SchemaNames, NEW r \in BOOLEAN
    PROVE  Elems(PartialItems(s, r)) = {i.node : i \in {j \in Elems(partial[s]) : r \/ j.mode = "use"}}
  <1> DEFINE set == {i \in Range(partial[s]) : r \/ i.mode = "use"}
             items == Filtered(partial[s], set)
  <1>1. partial[s] \in Seq(ListedLists)
    BY DEF Readable
  <1>2. Range(partial[s]) = Elems(partial[s])
    BY <1>1, RangeIsElems
  <1>3. items \in Seq(ListedLists) /\ Elems(items) = Elems(partial[s]) \cap set
    <2> HIDE DEF set
    <2> QED
      BY <1>1, FilteredTyped
  <1>4. Elems(items) = {j \in Elems(partial[s]) : r \/ j.mode = "use"}
    BY <1>2, <1>3
  <1>5. PartialItems(s, r) = [i \in DOMAIN items |-> items[i].node]
    BY DEF PartialItems
  <1> HIDE DEF set, items
  <1>6. PICK q \in Seq(ListedLists) : q = items
    BY <1>3
  <1>7. PartialItems(s, r) = [i \in DOMAIN q |-> q[i].node]
    BY <1>5, <1>6
  <1>8. DOMAIN q = 1..Len(q) /\ Len(q) \in Nat
    OBVIOUS
  <1>9. PICK p : p = PartialItems(s, r) /\ p \in Seq(Nodes)
    BY PartialTyped
  <1>10. Len(p) = Len(q) /\ \A i \in 1..Len(q) : p[i] = q[i].node
    BY <1>7, <1>8, <1>9
  <1>11. Elems(p) = {i.node : i \in Elems(q)}
    BY <1>10 DEF Elems
  <1> QED
    BY <1>4, <1>6, <1>9, <1>11

LEMMA ClauseIsShare ==
    ASSUME Readable, Interfaced, NEW s \in Loaded
    PROVE  SeenByClause11(s) = ShareOf(s, Sources(s))
  <1> DEFINE S == Sources(s)
  <1>1. S \in SUBSET Loaded /\ s \in S
    BY SourcesAreLeast DEF Encloses
  <1> HIDE DEF S
  <1>2. \A t \in Loaded : /\ Own(t, TRUE) = Range(LocalRegistry(schemas[t])) \cup ListedItems(t, Modes)
                          /\ Own(t, FALSE) = Range(LocalRegistry(schemas[t])) \cup ListedItems(t, {"use"})
    <2> TAKE t \in Loaded
    <2>1. t \in SchemaNames /\ schemas[t] \in Positions /\ ws \in Workspaces
      BY LoadedFinite DEF Loaded, Readable
    <2>2. Range(LocalRegistry(schemas[t])) = Elems(LocalRegistry(schemas[t]))
      BY <2>1, RegistryTyped, RangeIsElems
    <2> QED
      BY <2>2 DEF Own, Interfaced
  <1>3. \A t \in Loaded : ListedItems(t, {"use"}) \subseteq ListedItems(t, Modes)
    BY DEF ListedItems, Modes
  <1>4. SeenByClause11(s) = ListedItems(s, Modes) \cup UNION {Own(t, FALSE) : t \in S}
    <2>1. SeenByClause11(s) = ListedItems(s, Modes) \cup
             UNION {Range(LocalRegistry(schemas[t])) \cup ListedItems(t, {"use"}) : t \in S}
      <3>1. Modes = {"use", "reference"}
        BY DEF Modes
      <3> QED
        BY <3>1 DEF SeenByClause11, S
    <2>2. UNION {Range(LocalRegistry(schemas[t])) \cup ListedItems(t, {"use"}) : t \in S}
             = UNION {Own(t, FALSE) : t \in S}
      BY <1>1, <1>2
    <2> QED
      BY <2>1, <2>2
  <1>5. Own(s, TRUE) = Own(s, FALSE) \cup ListedItems(s, Modes)
    BY <1>2, <1>3
  <1>6. \A t \in S : t # s => Own(t, t = s) = Own(t, FALSE)
    <2>1. \A t \in S : t # s => (t = s) = FALSE
      OBVIOUS
    <2> QED
      BY <2>1
  <1>7. Own(s, s = s) = Own(s, TRUE)
    <2>1. (s = s) = TRUE
      OBVIOUS
    <2> QED
      BY <2>1
  <1>8. \A t \in S : Own(t, t = s) \subseteq SeenByClause11(s)
    <2> TAKE t \in S
    <2>1. CASE t = s
      BY ONLY <2>1, <1>1, <1>4, <1>5, <1>7
    <2>2. CASE t # s
      BY ONLY <2>2, <1>4, <1>6
    <2> QED
      BY <2>1, <2>2
  <1>9. ASSUME NEW x \in SeenByClause11(s) PROVE \E t \in S : x \in Own(t, t = s)
    <2>1. CASE x \in Own(s, TRUE)
      BY ONLY <2>1, <1>1, <1>7
    <2>2. CASE x \notin Own(s, TRUE)
      <3>1. PICK t \in S : x \in Own(t, FALSE)
        BY ONLY <2>2, <1>4, <1>5, <1>9
      <3>2. t # s
        BY <1>5, <2>2, <3>1
      <3> QED
        BY ONLY <1>6, <3>1, <3>2
    <2> QED
      BY <2>1, <2>2
  <1> QED
    BY <1>8, <1>9 DEF ShareOf, S

\* What a schema keeps of what it sees.
RightResources(s, list) ==
    /\ s \in Loaded /\ list \in Seq(Nodes)
    /\ Range(list) \subseteq SeenByClause11(s)
    /\ KeysOf(Range(list)) = KeysOf(SeenByClause11(s))

LEMMA ComputedRight ==
    ASSUME Readable, Interfaced, NEW s \in Loaded
    PROVE  RightResources(s, AllResources(s))
  <1>1. PICK Q \in SUBSET Loaded :
              /\ AllResources(s) \in Seq(Nodes)
              /\ Elems(AllResources(s)) \subseteq ShareOf(s, Q)
              /\ KeysOf(Elems(AllResources(s))) = KeysOf(ShareOf(s, Q))
              /\ Encloses(s, Q)
              /\ \A T \in SUBSET Loaded : Encloses(s, T) => Q \subseteq T
    BY AllResourcesRight
  <1>2. Q = Sources(s)
    BY <1>1, SourcesAreLeast
  <1>3. SeenByClause11(s) = ShareOf(s, Q)
    BY <1>2, ClauseIsShare
  <1>4. Range(AllResources(s)) = Elems(AllResources(s))
    BY <1>1, RangeIsElems
  <1> QED
    BY <1>1, <1>3, <1>4 DEF RightResources

----------------------------------------------------------------------------
(* Reading the interface specifications *)

\* What is read of one text.
KnownSpecs(i) == Filtered(ws[i].specs, {p \in Range(ws[i].specs) : schemas[p.schema] # 0})
WholeSpecs(i) == Filtered(KnownSpecs(i), {p \in Range(KnownSpecs(i)) : p.items = <<>>})
FoundFor(p) == Written(p.items, LAMBDA i : LocalDefinition(schemas[p.schema], i))
ListedFor(p) == [i \in DOMAIN FoundFor(p) |-> [mode |-> p.mode, node |-> FoundFor(p)[i]]]

\* What the objects of s are to hold when the first k texts have been read.
Whole(p) == [mode |-> p.mode, schema |-> p.schema]
Interfacing(s, k) == {q \in UNION {Elems(ws[i].specs) : i \in {j \in 1..k : ws[j].name = s}} :
                         q.items = <<>> /\ schemas[q.schema] # 0}
Read(s, k) == {Whole(p) : p \in Interfacing(s, k)}
KnownTo(s, k) == {q \in UNION {Elems(ws[i].specs) : i \in {j \in 1..k : ws[j].name = s}} : schemas[q.schema] # 0}
ReadLists(s, k) == UNION {Elems(ListedFor(p)) : p \in KnownTo(s, k)}

HasRead(s, k) == Elems(full[s]) = Read(s, k) /\ Elems(partial[s]) = ReadLists(s, k)

InterfaceInv ==
    /\ \A s \in Loaded : ws[schemas[s]].name = s
    /\ full \in [SchemaNames -> Seq(Wholes)]
    /\ partial \in [SchemaNames -> Seq(ListedLists)]
    /\ stage = "load" => \A s \in SchemaNames : full[s] = <<>> /\ partial[s] = <<>>
    /\ stage = "interface" => at \in Positions /\ \A s \in SchemaNames : HasRead(s, at - 1)
    /\ stage \in {"name", "wire", "enter", "built"} => \A s \in SchemaNames : HasRead(s, Len(ws))

LEMMA ThenStage ==
    ASSUME NEW last, Advance(last)
    PROVE  /\ stage = "load" => stage' \in {"load", "interface"}
           /\ stage = "interface" => stage' \in {"interface", "name"}
           /\ stage = "name" => stage' \in {"name", "wire"}
           /\ stage = "wire" => stage' \in {"wire", "enter"}
           /\ stage = "enter" => stage' \in {"enter", "built"}
           /\ stage = "interface" /\ stage' = "interface" => at < last /\ at' = at + 1
  <1>1. CASE at < last
    BY <1>1 DEF Advance
  <1>2. CASE ~(at < last)
    <2>1. stage' = Stages[CHOOSE i \in 2..Len(Stages) : Stages[i - 1] = stage] /\ Len(Stages) = 6
      BY <1>2 DEF Advance, Stages
    <2>2. \A i \in 2..6 : /\ Stages[i - 1] = "load" <=> i = 2
                          /\ Stages[i - 1] = "interface" <=> i = 3
                          /\ Stages[i - 1] = "name" <=> i = 4
                          /\ Stages[i - 1] = "wire" <=> i = 5
                          /\ Stages[i - 1] = "enter" <=> i = 6
      BY DEF Stages
    <2>3. /\ Stages[2] = "interface" /\ Stages[3] = "name" /\ Stages[4] = "wire"
          /\ Stages[5] = "enter" /\ Stages[6] = "built"
      BY DEF Stages
    <2>4. {2, 3, 4, 5, 6} \subseteq 2..6
      OBVIOUS
    <2> DEFINE next == CHOOSE i \in 2..6 : Stages[i - 1] = stage
    <2>5. stage \in {"load", "interface", "name", "wire", "enter"} => next \in 2..6 /\ Stages[next - 1] = stage
      <3>1. stage \in {"load", "interface", "name", "wire", "enter"} => \E i \in 2..6 : Stages[i - 1] = stage
        BY <2>2, <2>4
      <3> QED
        BY <3>1
    <2>6. stage' = Stages[next]
      BY <2>1
    <2> HIDE DEF next
    <2> QED
      BY <2>2, <2>3, <2>5, <2>6
  <1> QED
    BY <1>1, <1>2

LEMMA NothingInterfaced ==
    /\ ws \in Workspaces /\ stage = "load" /\ schemas = [s \in SchemaNames |-> 0]
    /\ full = [s \in SchemaNames |-> <<>>] /\ partial = [s \in SchemaNames |-> <<>>]
    => InterfaceInv
  <1> SUFFICES ASSUME ws \in Workspaces, schemas = [s \in SchemaNames |-> 0], stage = "load",
                      full = [s \in SchemaNames |-> <<>>], partial = [s \in SchemaNames |-> <<>>]
               PROVE  InterfaceInv
    OBVIOUS
  <1>1. Loaded = {}
    BY DEF Loaded
  <1>2. \A M : <<>> \in Seq(M)
    BY EmptySeq
  <1>3. full \in [SchemaNames -> Seq(Wholes)] /\ partial \in [SchemaNames -> Seq(ListedLists)]
    BY <1>2
  <1> QED
    BY <1>1, <1>3 DEF InterfaceInv

LEMMA InitInterface == Init => InterfaceInv
  <1> SUFFICES ASSUME Init PROVE InterfaceInv
    OBVIOUS
  <1>1. /\ ws \in Workspaces /\ schemas = [s \in SchemaNames |-> 0] /\ stage = "load"
        /\ full = [s \in SchemaNames |-> <<>>] /\ partial = [s \in SchemaNames |-> <<>>]
    BY DEF Init, NothingKept
  <1> QED
    BY <1>1, NothingInterfaced

LEMMA BuildInterface ==
    ASSUME ObjectsInv, Build
    PROVE  InterfaceInv'
  <1>1. PICK w \in Edited : ws' = w /\ ClearObjects(w)
    BY DEF Build
  <1>2. (/\ ws \in Workspaces /\ stage = "load" /\ schemas = [s \in SchemaNames |-> 0]
         /\ full = [s \in SchemaNames |-> <<>>] /\ partial = [s \in SchemaNames |-> <<>>])'
    BY <1>1, ContainerAssumption DEF Build, ClearObjects, NothingKept
  <1> QED
    BY <1>2, NothingInterfaced, PTL

LEMMA SpecsTyped ==
    ASSUME ws \in Workspaces, NEW i \in Positions
    PROVE  /\ ws[i].specs \in Seq(Specifications)
           /\ \A p \in Elems(ws[i].specs) : /\ p \in Specifications /\ p.mode \in Modes
                                            /\ p.schema \in SchemaNames /\ p.items \in Seq(Names)
  <1>1. ws \in Seq(SchemaTexts) /\ Positions = 1..Len(ws)
    BY TextsTyped
  <1>2. ws[i] \in SchemaTexts
    BY <1>1
  <1>3. ws[i].specs \in Seq(Specifications)
    BY <1>2 DEF SchemaTexts
  <1>4. \A p \in Elems(ws[i].specs) : p \in Specifications
    BY <1>3, ElemsTyped
  <1>5. \A p \in Specifications : p.mode \in Modes /\ p.schema \in SchemaNames /\ p.items \in Seq(Names)
    BY DEF Specifications, Modes
  <1> QED
    BY <1>3, <1>4, <1>5

LEMMA LoadInterface ==
    ASSUME ObjectsInv, InterfaceInv, LoadSchema
    PROVE  InterfaceInv'
  <1>1. /\ ws \in Workspaces /\ schemas \in [SchemaNames -> {0} \cup Positions] /\ at \in Positions
        /\ stage = "load" /\ UNCHANGED <<ws, full, partial>>
        /\ schemas' = [schemas EXCEPT ![ws[at].name] = at]
        /\ Advance(Len(ws))
    BY DEF LoadSchema, ObjectsInv, texts
  <1>2. /\ Positions' = Positions /\ Nodes' = Nodes /\ Positions = 1..Len(ws) /\ Len(ws) \in Nat \ {0}
        /\ \A i \in Positions : ws[i].name \in SchemaNames
    BY <1>1, TextsTyped, SameTexts
  <1>3. (\A s \in Loaded : ws[schemas[s]].name = s)'
    <2> SUFFICES ASSUME NEW s \in SchemaNames, schemas'[s] # 0 PROVE ws[schemas'[s]].name = s
      BY <1>1 DEF Loaded
    <2>1. CASE s = ws[at].name
      BY <1>1, <2>1
    <2>2. CASE s # ws[at].name
      <3>1. schemas'[s] = schemas[s] /\ s \in Loaded
        BY <1>1, <2>2 DEF Loaded
      <3> QED
        BY <3>1 DEF InterfaceInv
    <2> QED
      BY <2>1, <2>2
  <1>4. /\ \A s \in SchemaNames : full'[s] = <<>> /\ partial'[s] = <<>>
        /\ full' = [s \in SchemaNames |-> full'[s]] /\ partial' = [s \in SchemaNames |-> partial'[s]]
    BY <1>1 DEF InterfaceInv
  <1>5. full' \in [SchemaNames -> Seq(Wholes')] /\ partial' \in [SchemaNames -> Seq(ListedLists')]
    <2>1. \A M : <<>> \in Seq(M)
      BY EmptySeq
    <2> QED
      BY <1>4, <2>1
  <1>6. stage' \in {"load", "interface"} /\ (stage' = "interface" => at' = 1)
    BY <1>1, NextStage, ThenStage
  <1>7. at' = 1 => \A s : Read(s, at - 1)' = {} /\ ReadLists(s, at - 1)' = {}
    <2>1. at' = 1 => \A j \in 1..(at' - 1) : FALSE
      OBVIOUS
    <2>2. at' = 1 => \A s : KnownTo(s, at - 1)' = {}
      BY <2>1 DEF KnownTo
    <2> QED
      BY <2>1, <2>2 DEF Read, Interfacing, ReadLists
  <1>8. stage' = "interface" => at' \in Positions' /\ \A s \in SchemaNames : HasRead(s, at - 1)'
    <2>1. \A s \in SchemaNames : Elems(full'[s]) = {} /\ Elems(partial'[s]) = {}
      BY <1>4 DEF Elems
    <2>2. 1 \in Positions'
      BY <1>2
    <2> QED
      BY <1>6, <1>7, <2>1, <2>2 DEF HasRead
  <1>9. stage' \notin {"name", "wire", "enter", "built"}
    BY <1>6
  <1> QED
    BY <1>3, <1>4, <1>5, <1>8, <1>9 DEF InterfaceInv

\* The steps that touch nothing of it.
\* The registry of a text, of the texts alone.
RegistryIn(w, c) ==
    FoldLeft(LAMBDA list, n :
                IF /\ w[n[1]].decls[n[2]].kind = "Entity"
                   /\ {m \in UNION {{<<s, d>> : d \in DOMAIN w[s].decls} : s \in DOMAIN w} :
                          /\ m[1] = n[1] /\ m[2] < n[2]
                          /\ w[m[1]].decls[m[2]].kind = w[n[1]].decls[n[2]].kind
                          /\ w[m[1]].decls[m[2]].name = w[n[1]].decls[n[2]].name} # {}
                THEN list
                ELSE PutAt(list, SelectInSeq(list, LAMBDA m : w[m[1]].decls[m[2]].name = w[n[1]].decls[n[2]].name), n),
             <<>>, [d \in DOMAIN w[c].decls |-> <<c, d>>])

LEMMA RegistryIsOfTexts == \A c : LocalRegistry(c) = RegistryIn(ws, c)
  BY DEF LocalRegistry, RegistryIn, TextNodes, Decl, Earlier, Nodes, Positions, Put

LEMMA SameRegistry ==
    ASSUME ws' = ws
    PROVE  \A c : LocalRegistry(c)' = LocalRegistry(c)
  <1>1. (\A c : LocalRegistry(c) = RegistryIn(ws, c))'
    BY RegistryIsOfTexts, PTL
  <1> QED
    BY <1>1, RegistryIsOfTexts

\* What a name stands for in a text, of the texts alone.
DefinitionIn(w, c, name) ==
    OrElse(Find(RegistryIn(w, c), LAMBDA n : w[n[1]].decls[n[2]].name = name),
           Find(RegistryIn(w, c), LAMBDA n : /\ Folded[w[n[1]].decls[n[2]].name] = Folded[name]
                                             /\ w[n[1]].decls[n[2]].kind # "Entity"))

LEMMA DefinitionIsOfTexts == \A c, name : LocalDefinition(c, name) = DefinitionIn(ws, c, name)
  BY RegistryIsOfTexts DEF LocalDefinition, DefinitionIn, Find, Decl

\* What is read is of the texts and the schema objects.
LEMMA SameLists ==
    ASSUME UNCHANGED <<ws, schemas>>
    PROVE  /\ \A p : ListedFor(p)' = ListedFor(p)
           /\ \A s, k : ReadLists(s, k)' = ReadLists(s, k)
           /\ \A s : ReadLists(s, Len(ws))' = ReadLists(s, Len(ws))
           /\ \A s, modes : ListedItems(s, modes)' = ListedItems(s, modes)
  <1>1. \A c, name : LocalDefinition(c, name)' = LocalDefinition(c, name)
    <2>1. (\A c, name : LocalDefinition(c, name) = DefinitionIn(ws, c, name))'
      BY DefinitionIsOfTexts, PTL
    <2> QED
      BY <2>1, DefinitionIsOfTexts
  <1>2. Nodes' = Nodes /\ Positions' = Positions
    BY SameTexts
  <1>3. \A p : FoundFor(p)' = FoundFor(p)
    BY <1>1, <1>2 DEF FoundFor, Written, Filtered
  <1>4. \A p : ListedFor(p)' = ListedFor(p)
    BY <1>3 DEF ListedFor
  <1>5. /\ \A s, k : ReadLists(s, k)' = ReadLists(s, k)
        /\ \A s : ReadLists(s, Len(ws))' = ReadLists(s, Len(ws))
    BY <1>4 DEF ReadLists, KnownTo
  <1>6. \A s, modes : ListedItems(s, modes)' = ListedItems(s, modes)
    <2>1. \A s : Range(TextsNamed(s))' = Range(TextsNamed(s))
      BY <1>2 DEF TextsNamed, Filtered, Positions
    <2> QED
      BY <1>1, <1>2, <2>1, SMTT(30) DEF ListedItems
  <1> QED
    BY <1>4, <1>5, <1>6

LEMMA SameRead ==
    ASSUME UNCHANGED <<ws, schemas>>
    PROVE  /\ Nodes' = Nodes /\ Positions' = Positions /\ Loaded' = Loaded
           /\ Wholes' = Wholes /\ ListedLists' = ListedLists
           /\ \A s, k : Read(s, k)' = Read(s, k) /\ ReadLists(s, k)' = ReadLists(s, k)
           /\ \A s : Read(s, Len(ws))' = Read(s, Len(ws)) /\ ReadLists(s, Len(ws))' = ReadLists(s, Len(ws))
  BY SameTexts, SameLists DEF Loaded, Wholes, ListedLists, Read, Interfacing

LEMMA OtherInterface ==
    ASSUME InterfaceInv, UNCHANGED <<ws, schemas, full, partial>>,
           \/ UNCHANGED <<stage, at>>
           \/ stage' = "stopped"
           \/ stage \in {"name", "wire", "enter", "built"} /\ stage' \in {"name", "wire", "enter", "built"}
    PROVE  InterfaceInv'
  <1>1. /\ Nodes' = Nodes /\ Positions' = Positions /\ Loaded' = Loaded
        /\ Wholes' = Wholes /\ ListedLists' = ListedLists
        /\ \A s : HasRead(s, Len(ws))' = HasRead(s, Len(ws))
    BY SameRead DEF HasRead
  <1>2. ASSUME UNCHANGED <<stage, at>> PROVE InterfaceInv'
    <2>1. \A s : HasRead(s, at - 1)' = HasRead(s, at - 1)
      <3>1. PICK k : k = at - 1
        OBVIOUS
      <3>2. at' - 1 = k
        BY <1>2, <3>1
      <3>3. \A s : Read(s, at - 1)' = Read(s, at - 1) /\ ReadLists(s, at - 1)' = ReadLists(s, at - 1)
        BY <1>2, SameLists DEF Read, Interfacing, ReadLists, KnownTo
      <3> QED
        BY <3>3 DEF HasRead
    <2> QED
      BY <1>1, <1>2, <2>1 DEF InterfaceInv
  <1>3. CASE stage' = "stopped"
    BY <1>1, <1>3 DEF InterfaceInv
  <1>4. CASE stage \in {"name", "wire", "enter", "built"} /\ stage' \in {"name", "wire", "enter", "built"}
    BY <1>1, <1>4 DEF InterfaceInv
  <1> QED
    BY <1>2, <1>3, <1>4

LEMMA KnownTyped ==
    ASSUME ws \in Workspaces, NEW i \in Positions
    PROVE  /\ KnownSpecs(i) \in Seq(Specifications) /\ WholeSpecs(i) \in Seq(Specifications)
           /\ Elems(KnownSpecs(i)) = {p \in Elems(ws[i].specs) : schemas[p.schema] # 0}
           /\ Elems(WholeSpecs(i)) = {p \in Elems(ws[i].specs) : schemas[p.schema] # 0 /\ p.items = <<>>}
  <1> PICK q : q = ws[i].specs
    OBVIOUS
  <1>1. q \in Seq(Specifications) /\ Range(q) = Elems(q)
    <2>1. q \in Seq(Specifications)
      BY SpecsTyped
    <2> QED
      BY <2>1, RangeIsElems
  <1> DEFINE S == {p \in Range(q) : schemas[p.schema] # 0}
  <1> PICK k : k = KnownSpecs(i)
    OBVIOUS
  <1>2. k = Filtered(q, S)
    BY DEF KnownSpecs
  <1>3. k \in Seq(Specifications) /\ Elems(k) = Elems(q) \cap S
    <2> HIDE DEF S
    <2> QED
      BY <1>1, <1>2, FilteredTyped
  <1>4. Elems(k) = {p \in Elems(q) : schemas[p.schema] # 0} /\ Range(k) = Elems(k)
    <2>1. Range(k) = Elems(k)
      BY <1>3, RangeIsElems
    <2> QED
      BY <1>1, <1>3, <2>1
  <1> DEFINE T == {p \in Range(k) : p.items = <<>>}
  <1>5. WholeSpecs(i) = Filtered(k, T)
    BY DEF WholeSpecs
  <1>6. WholeSpecs(i) \in Seq(Specifications) /\ Elems(WholeSpecs(i)) = Elems(k) \cap T
    <2> HIDE DEF T
    <2> QED
      BY <1>3, <1>5, FilteredTyped
  <1> QED
    BY <1>3, <1>4, <1>6

\* With one more text more is to be held of its schema.
LEMMA ReadMore ==
    ASSUME ws \in Workspaces, NEW k \in Positions, NEW s
    PROVE  /\ Read(s, k) = Read(s, k - 1) \cup
                  IF s = ws[k].name THEN {Whole(p) : p \in Elems(WholeSpecs(k))} ELSE {}
           /\ ReadLists(s, k) = ReadLists(s, k - 1) \cup
                  IF s = ws[k].name THEN UNION {Elems(ListedFor(p)) : p \in Elems(KnownSpecs(k))} ELSE {}
  <1>1. Positions = 1..Len(ws) /\ Len(ws) \in Nat
    BY TextsTyped
  <1>2. k \in 1..k /\ \A j : j \in 1..k <=> j \in 1..(k - 1) \/ j = k
    BY <1>1
  <1> DEFINE I(n) == {j \in 1..n : ws[j].name = s}
  <1>3. I(k) = I(k - 1) \cup IF s = ws[k].name THEN {k} ELSE {}
    BY <1>2
  <1>4. \A n :
        /\ Interfacing(s, n) = {q \in UNION {Elems(ws[i].specs) : i \in I(n)} :
                                       q.items = <<>> /\ schemas[q.schema] # 0}
        /\ KnownTo(s, n) = {q \in UNION {Elems(ws[i].specs) : i \in I(n)} : schemas[q.schema] # 0}
    BY DEF Interfacing, KnownTo
  <1>5. /\ Elems(WholeSpecs(k)) = {p \in Elems(ws[k].specs) : schemas[p.schema] # 0 /\ p.items = <<>>}
        /\ Elems(KnownSpecs(k)) = {p \in Elems(ws[k].specs) : schemas[p.schema] # 0}
    BY KnownTyped
  <1> HIDE DEF I
  <1>6. Interfacing(s, k) = Interfacing(s, k - 1) \cup IF s = ws[k].name THEN Elems(WholeSpecs(k)) ELSE {}
    BY <1>3, <1>4, <1>5
  <1>7. KnownTo(s, k) = KnownTo(s, k - 1) \cup IF s = ws[k].name THEN Elems(KnownSpecs(k)) ELSE {}
    BY <1>3, <1>4, <1>5
  <1> QED
    BY <1>6, <1>7 DEF Read, ReadLists

LEMMA WrittenTyped ==
    ASSUME NEW n \in Nat, NEW list, list = [i \in 1..n |-> list[i]]
    PROVE  Filtered(list, Nodes) \in Seq(Nodes)
  <1> DEFINE All == {list[i] : i \in 1..n}
  <1>1. list \in [1..n -> All]
    OBVIOUS
  <1>2. list \in Seq(All)
    <2> HIDE DEF All
    <2> QED
      BY <1>1, IsASeq
  <1> HIDE DEF All
  <1>3. PICK f : f = Filtered(list, Nodes)
    OBVIOUS
  <1>4. f \in Seq(All) /\ Elems(f) = Elems(list) \cap Nodes
    BY <1>2, <1>3, FilteredTyped
  <1>5. f \in Seq(Nodes)
    BY <1>4 DEF Elems
  <1> QED
    BY <1>3, <1>5

LEMMA ListedTyped ==
    ASSUME NEW p \in Specifications
    PROVE  ListedFor(p) \in Seq(ListedLists)
  <1>1. p.items \in Seq(Names) /\ p.mode \in Modes
    BY DEF Specifications, Modes
  <1> DEFINE list == [i \in DOMAIN p.items |-> LocalDefinition(schemas[p.schema], p.items[i])]
  <1>2. Len(p.items) \in Nat /\ list = [i \in 1..Len(p.items) |-> list[i]]
    BY <1>1
  <1>3. FoundFor(p) = Filtered(list, Nodes)
    BY DEF FoundFor, Written
  <1> HIDE DEF list
  <1>4. FoundFor(p) \in Seq(Nodes)
    BY <1>2, <1>3, WrittenTyped
  <1>5. PICK q \in Seq(Nodes) : q = FoundFor(p)
    BY <1>4
  <1> DEFINE r == [i \in DOMAIN q |-> [mode |-> p.mode, node |-> q[i]]]
  <1>6. ListedFor(p) = r
    BY <1>5 DEF ListedFor
  <1>7. r \in [1..Len(q) -> ListedLists] /\ Len(q) \in Nat
    BY <1>1 DEF ListedLists
  <1> QED
    BY <1>6, <1>7, IsASeq

\* What is read of a specification are the declarations its items name.
LEMMA ListedElems ==
    ASSUME NEW p \in Specifications
    PROVE  Elems(ListedFor(p)) = {[mode |-> p.mode, node |-> n] : n \in
               {m \in Nodes : \E i \in Range(p.items) : m = LocalDefinition(schemas[p.schema], i)}}
  <1>1. p.items \in Seq(Names)
    BY DEF Specifications
  <1>2. DOMAIN p.items = 1..Len(p.items) /\ Len(p.items) \in Nat
    BY <1>1
  <1> DEFINE list == [j \in DOMAIN p.items |-> LocalDefinition(schemas[p.schema], p.items[j])]
             All == {LocalDefinition(schemas[p.schema], p.items[j]) : j \in DOMAIN p.items}
  <1>3. list \in [1..Len(p.items) -> All] /\ \A m : m \in All <=> \E j \in 1..Len(p.items) : m = list[j]
    BY <1>2
  <1>4. FoundFor(p) = Filtered(list, Nodes)
    BY DEF FoundFor, Written
  <1>5. All = {m : m \in All} /\ \A m : m \in All <=> \E i \in Range(p.items) : m = LocalDefinition(schemas[p.schema], i)
    BY DEF Range
  <1>6. list \in Seq(All) /\ Len(list) = Len(p.items)
    <2> HIDE DEF All, list
    <2> QED
      BY <1>2, <1>3, IsASeq, LenProperties
  <1> HIDE DEF list, All
  <1>7. Elems(list) = All
    BY <1>3, <1>6 DEF Elems
  <1>8. PICK q : q = FoundFor(p)
    OBVIOUS
  <1>9. q \in Seq(All) /\ Elems(q) = All \cap Nodes
    BY <1>4, <1>6, <1>7, <1>8, FilteredTyped
  <1>10. PICK r : r = ListedFor(p)
    OBVIOUS
  <1>11. r = [j \in DOMAIN q |-> [mode |-> p.mode, node |-> q[j]]]
    BY <1>8, <1>10 DEF ListedFor
  <1>12. DOMAIN q = 1..Len(q) /\ Len(q) \in Nat
    BY <1>9
  <1>13. Len(r) = Len(q) /\ \A j \in 1..Len(q) : r[j] = [mode |-> p.mode, node |-> q[j]]
    <2>1. r \in Seq(ListedLists)
      BY <1>10, ListedTyped
    <2> QED
      BY <1>11, <1>12, <2>1
  <1>14. Elems(r) = {[mode |-> p.mode, node |-> n] : n \in Elems(q)}
    BY <1>13 DEF Elems
  <1>15. Elems(q) = {m \in Nodes : \E i \in Range(p.items) : m = LocalDefinition(schemas[p.schema], i)}
    BY <1>5, <1>9
  <1> QED
    BY <1>10, <1>14, <1>15

LEMMA ReadInterface ==
    ASSUME ObjectsInv, InterfaceInv, InterfaceSchema
    PROVE  InterfaceInv'
  <1>1. /\ ws \in Workspaces /\ schemas \in [SchemaNames -> {0} \cup Positions] /\ at \in Positions
        /\ full \in [SchemaNames -> Seq(Wholes)] /\ partial \in [SchemaNames -> Seq(ListedLists)]
        /\ stage = "interface" /\ UNCHANGED <<ws, schemas>> /\ Advance(Len(ws))
    BY DEF InterfaceSchema, ObjectsInv, InterfaceInv, texts
  <1>2. /\ Positions = 1..Len(ws) /\ Len(ws) \in Nat \ {0} /\ ws[at].name \in SchemaNames
    BY <1>1, TextsTyped
  <1> PICK s : s = ws[at].name
    OBVIOUS
  <1> DEFINE more == [i \in DOMAIN WholeSpecs(at) |-> Whole(WholeSpecs(at)[i])]
             lists == [i \in DOMAIN KnownSpecs(at) |-> ListedFor(KnownSpecs(at)[i])]
  <1>3. full' = [full EXCEPT ![s] = full[s] \o more]
    BY DEF InterfaceSchema, ReadSpecifications, Whole, WholeSpecs, KnownSpecs
  <1>4. partial' = [partial EXCEPT ![s] = partial[s] \o FlattenSeq(lists)]
    BY DEF InterfaceSchema, ReadSpecifications, ListedFor, FoundFor, KnownSpecs
  <1>5. more \in Seq(Wholes) /\ Elems(more) = {Whole(p) : p \in Elems(WholeSpecs(at))}
    <2>1. PICK q \in Seq(Specifications) : q = WholeSpecs(at)
      BY <1>1, KnownTyped
    <2>2. ASSUME NEW i \in 1..Len(q) PROVE Whole(q[i]) \in Wholes
      <3>1. q[i] \in Elems(q)
        BY DEF Elems
      <3>2. q[i] \in Elems(ws[at].specs) /\ schemas[q[i].schema] # 0
        BY <1>1, <2>1, <3>1, KnownTyped
      <3>3. q[i].mode \in Modes /\ q[i].schema \in Loaded
        BY <1>1, <3>2, SpecsTyped DEF Loaded
      <3> QED
        BY <3>3 DEF Whole, Wholes
    <2>3. Len(q) \in Nat /\ DOMAIN q = 1..Len(q)
      OBVIOUS
    <2>4. more = [i \in 1..Len(q) |-> Whole(q[i])]
      BY <2>1, <2>3
    <2> HIDE DEF more
    <2>5. more \in [1..Len(q) -> Wholes]
      BY <2>2, <2>4
    <2>6. more \in Seq(Wholes) /\ Len(more) = Len(q)
      BY <2>3, <2>5, IsASeq, LenProperties
    <2>7. Elems(more) = {Whole(p) : p \in Elems(q)}
      BY <2>4, <2>6 DEF Elems
    <2> QED
      BY <2>1, <2>6, <2>7
  <1>6. /\ FlattenSeq(lists) \in Seq(ListedLists)
        /\ Elems(FlattenSeq(lists)) = UNION {Elems(ListedFor(p)) : p \in Elems(KnownSpecs(at))}
    <2>1. PICK q \in Seq(Specifications) : q = KnownSpecs(at)
      BY <1>1, KnownTyped
    <2>2. Len(q) \in Nat /\ DOMAIN q = 1..Len(q) /\ \A i \in 1..Len(q) : q[i] \in Specifications
      OBVIOUS
    <2>3. lists = [i \in 1..Len(q) |-> ListedFor(q[i])]
      BY <2>1, <2>2
    <2> HIDE DEF lists
    <2>4. lists \in [1..Len(q) -> Seq(ListedLists)]
      BY <2>2, <2>3, ListedTyped
    <2>5. lists \in Seq(Seq(ListedLists)) /\ Len(lists) = Len(q)
      BY <2>2, <2>4, IsASeq, LenProperties
    <2>6. /\ FlattenSeq(lists) \in Seq(ListedLists)
          /\ \A m : m \in Elems(FlattenSeq(lists)) <=> \E i \in 1..Len(lists) : m \in Elems(lists[i])
      BY <2>5, ElemsOfFlatten
    <2>7. \A i \in 1..Len(q) : lists[i] = ListedFor(q[i])
      BY <2>3
    <2>8. Elems(q) = {q[i] : i \in 1..Len(q)}
      BY DEF Elems
    <2>9. \A m : m \in Elems(FlattenSeq(lists)) <=> \E p \in Elems(q) : m \in Elems(ListedFor(p))
      BY ONLY <2>5, <2>6, <2>7, <2>8
    <2> QED
      BY <2>1, <2>6, <2>9
  <1> HIDE DEF more, lists
  <1>7. full[s] \o more \in Seq(Wholes) /\ Elems(full[s] \o more) = Elems(full[s]) \cup Elems(more)
    <2>1. PICK p \in Seq(Wholes) : p = full[s]
      BY <1>1, <1>2
    <2>2. PICK q \in Seq(Wholes) : q = more
      BY <1>5
    <2>3. p \o q \in Seq(Wholes) /\ Elems(p \o q) = Elems(p) \cup Elems(q)
      BY ONLY ElemsOfConcat
    <2> QED
      BY <2>1, <2>2, <2>3
  <1>8. /\ partial[s] \o FlattenSeq(lists) \in Seq(ListedLists)
        /\ Elems(partial[s] \o FlattenSeq(lists)) = Elems(partial[s]) \cup Elems(FlattenSeq(lists))
    <2>1. PICK p \in Seq(ListedLists) : p = partial[s]
      BY <1>1, <1>2
    <2>2. PICK q \in Seq(ListedLists) : q = FlattenSeq(lists)
      BY <1>6
    <2>3. p \o q \in Seq(ListedLists) /\ Elems(p \o q) = Elems(p) \cup Elems(q)
      BY ONLY ElemsOfConcat
    <2> QED
      BY <2>1, <2>2, <2>3
  <1>9. full' \in [SchemaNames -> Seq(Wholes)] /\ partial' \in [SchemaNames -> Seq(ListedLists)]
    BY <1>1, <1>3, <1>4, <1>7, <1>8
  <1>10. ASSUME NEW t \in SchemaNames
         PROVE  Elems(full'[t]) = Read(t, at) /\ Elems(partial'[t]) = ReadLists(t, at)
    <2>1. Elems(full[t]) = Read(t, at - 1) /\ Elems(partial[t]) = ReadLists(t, at - 1)
      BY <1>1 DEF InterfaceInv, HasRead
    <2>2. /\ Read(t, at) = Read(t, at - 1) \cup IF t = s THEN Elems(more) ELSE {}
          /\ ReadLists(t, at) = ReadLists(t, at - 1) \cup IF t = s THEN Elems(FlattenSeq(lists)) ELSE {}
      BY <1>1, <1>5, <1>6, ReadMore
    <2>3. /\ full'[t] = IF t = s THEN full[s] \o more ELSE full[t]
          /\ partial'[t] = IF t = s THEN partial[s] \o FlattenSeq(lists) ELSE partial[t]
      BY <1>1, <1>2, <1>3, <1>4
    <2>4. CASE t = s
      BY <1>7, <1>8, <2>1, <2>2, <2>3, <2>4
    <2>5. CASE t # s
      BY <2>1, <2>2, <2>3, <2>5
    <2> QED
      BY <2>4, <2>5
  <1>11. /\ Nodes' = Nodes /\ Positions' = Positions /\ Loaded' = Loaded
         /\ Wholes' = Wholes /\ ListedLists' = ListedLists
         /\ \A t : Read(t, Len(ws))' = Read(t, Len(ws)) /\ ReadLists(t, Len(ws))' = ReadLists(t, Len(ws))
    BY <1>1, SameRead
  <1>12. stage' \in {"interface", "name"}
    BY <1>1, ThenStage
  <1>13. CASE stage' = "interface"
    <2>1. at < Len(ws) /\ at' = at + 1
      BY <1>1, <1>13, ThenStage
    <2>2. at' - 1 = at /\ at' \in Positions
      BY <1>1, <1>2, <2>1
    <2>3. \A t : Read(t, at - 1)' = Read(t, at) /\ ReadLists(t, at - 1)' = ReadLists(t, at)
      BY <1>1, <2>2, SameLists DEF Read, Interfacing, ReadLists, KnownTo
    <2>4. \A t \in SchemaNames : HasRead(t, at - 1)'
      BY <1>10, <2>3 DEF HasRead
    <2> QED
      BY <1>1, <1>9, <1>11, <1>13, <2>2, <2>4 DEF InterfaceInv
  <1>14. CASE stage' = "name"
    <2>1. PICK last \in Nat : last = Len(ws) /\ at \in 1..last
      BY <1>1, <1>2
    <2>2. ~(at < last)
      <3>1. stage' # stage
        BY <1>1, <1>14
      <3> QED
        BY <1>1, <2>1, <3>1 DEF Advance
    <2>3. at = Len(ws)
      BY <2>1, <2>2
    <2>4. \A t \in SchemaNames : HasRead(t, Len(ws))'
      BY <1>10, <1>11, <2>3 DEF HasRead
    <2> QED
      BY <1>1, <1>9, <1>11, <1>14, <2>4 DEF InterfaceInv
  <1> QED
    BY <1>12, <1>13, <1>14

LEMMA NextInterface ==
    ASSUME ObjectsInv, InterfaceInv, [Next]_vars
    PROVE  InterfaceInv'
  <1>1. CASE UNCHANGED vars
    BY <1>1, OtherInterface DEF vars, texts, objects
  <1>2. CASE Build
    BY <1>2, BuildInterface
  <1>3. CASE LoadSchema
    BY <1>3, LoadInterface
  <1>4. CASE InterfaceSchema
    BY <1>4, ReadInterface
  <1>5. CASE NameSupertypes \/ WireSchema \/ EnterSubtypes
    <2>1. UNCHANGED <<ws, schemas, full, partial>>
      BY <1>5 DEF NameSupertypes, WireSchema, EnterSubtypes, texts
    <2>2. stage \in {"name", "wire", "enter"} /\ \E last : Advance(last)
      BY <1>5 DEF NameSupertypes, WireSchema, EnterSubtypes
    <2>3. stage' \in {"name", "wire", "enter", "built"}
      BY <2>2, ThenStage
    <2> QED
      BY <2>1, <2>2, <2>3, OtherInterface
  <1>6. CASE Interrupt
    BY <1>6, OtherInterface DEF Interrupt, texts, objects
  <1>7. ASSUME NEW s, AskResources(s) PROVE InterfaceInv'
    BY <1>7, OtherInterface DEF AskResources, Answers, texts, objects
  <1>8. ASSUME NEW n, AskRelatives(n, "up") \/ AskRelatives(n, "down") \/ AskGraph(n) \/ AskVisible(n)
        PROVE  InterfaceInv'
    BY <1>8, OtherInterface DEF AskRelatives, AskGraph, AskVisible, Answers, texts, objects
  <1> QED
    BY <1>1, <1>2, <1>3, <1>4, <1>5, <1>6, <1>7, <1>8 DEF Next

\* Once the specifications are read, the objects say what the texts say.
LEMMA ReadAll ==
    ASSUME ObjectsInv, InterfaceInv, stage \in {"name", "wire", "enter", "built"}
    PROVE  Readable /\ Interfaced
  <1>1. Readable
    BY DEF ObjectsInv, InterfaceInv, Readable
  <1>2. ASSUME NEW s \in Loaded
        PROVE  /\ \A mode \in Modes : Wanted(s, mode) = Interfaces(s, mode)
               /\ Elems(PartialItems(s, TRUE)) = ListedItems(s, Modes)
               /\ Elems(PartialItems(s, FALSE)) = ListedItems(s, {"use"})
    <2>1. ws \in Workspaces /\ Positions = 1..Len(ws) /\ Len(ws) \in Nat
      BY <1>1, TextsTyped DEF Readable
    <2>2. Elems(full[s]) = Read(s, Len(ws)) /\ Elems(partial[s]) = ReadLists(s, Len(ws))
      BY DEF InterfaceInv, HasRead, Loaded
    <2> DEFINE named_s == {i \in Positions : ws[i].name = s}
               id == [i \in DOMAIN ws |-> i]
    <2>3. Range(TextsNamed(s)) = named_s
      <3>1. id \in [1..Len(ws) -> Positions] /\ \A i \in 1..Len(ws) : id[i] = i
        BY <2>1 DEF Positions
      <3>2. TextsNamed(s) = Filtered(id, named_s)
        BY DEF TextsNamed
      <3> HIDE DEF id, named_s
      <3>3. id \in Seq(Positions) /\ Len(id) = Len(ws)
        <4>1. PICK k \in Nat : k = Len(ws)
          BY <2>1
        <4> QED
          <5>1. id \in [1..k -> Positions]
            BY <3>1, <4>1
          <5>2. id \in Seq(Positions) /\ Len(id) = k
            BY <5>1, ListByNumbers
          <5> QED
            BY <4>1, <5>2
      <3>4. Elems(id) = Positions
        BY <2>1, <3>1, <3>3 DEF Elems
      <3>5. TextsNamed(s) \in Seq(Positions) /\ Elems(TextsNamed(s)) = Positions \cap named_s
        BY <3>2, <3>3, <3>4, FilteredTyped
      <3>6. Range(TextsNamed(s)) = Elems(TextsNamed(s))
        BY <3>5, RangeIsElems
      <3>7. named_s \subseteq Positions
        BY DEF named_s
      <3> QED
        BY <3>5, <3>6, <3>7
    <2>4. \A i \in Positions : Range(ws[i].specs) = Elems(ws[i].specs)
      BY <2>1, SpecsTyped, RangeIsElems
    <2>5. UNION {Range(ws[c].specs) : c \in Range(TextsNamed(s))}
             = UNION {Elems(ws[i].specs) : i \in {j \in 1..Len(ws) : ws[j].name = s}}
      BY <2>1, <2>3, <2>4
    <2>6. \A mode : Interfaces(s, mode) = {p.schema : p \in {q \in Interfacing(s, Len(ws)) : q.mode = mode}}
      BY <2>5 DEF Interfaces, Interfacing
    <2>7. \A p : Whole(p).mode = p.mode /\ Whole(p).schema = p.schema
      BY DEF Whole
    <2>8. \A mode : Wanted(s, mode) =
             {i.schema : i \in {Whole(p) : p \in {q \in Interfacing(s, Len(ws)) : q.mode = mode}}}
      BY <2>2, <2>7 DEF Wanted, Read
    <2>9. ASSUME NEW mode PROVE Wanted(s, mode) = Interfaces(s, mode)
      <3>1. Interfaces(s, mode) = {p.schema : p \in {q \in Interfacing(s, Len(ws)) : q.mode = mode}}
        BY <2>6
      <3>2. Wanted(s, mode) = {i.schema : i \in {Whole(p) : p \in {q \in Interfacing(s, Len(ws)) : q.mode = mode}}}
        BY <2>8
      <3> QED
        BY <2>7, <3>1, <3>2
    <2>10. \A p : p \in KnownTo(s, Len(ws)) <=>
              \E c \in Range(TextsNamed(s)) : p \in Range(ws[c].specs) /\ schemas[p.schema] # 0
      BY <2>5 DEF KnownTo
    <2>11. \A p \in KnownTo(s, Len(ws)) : p \in Specifications /\ p.mode \in Modes
      BY <2>1, SpecsTyped DEF KnownTo
    <2> DEFINE Named(p) == {m \in Nodes : \E i \in Range(p.items) : m = LocalDefinition(schemas[p.schema], i)}
    <2>12. \A j : j \in Elems(partial[s]) <=>
              \E p \in KnownTo(s, Len(ws)) : \E n \in Named(p) : j = [mode |-> p.mode, node |-> n]
      <3>1. \A p \in KnownTo(s, Len(ws)) : Elems(ListedFor(p)) = {[mode |-> p.mode, node |-> n] : n \in Named(p)}
        BY <2>11, ListedElems
      <3> HIDE DEF Named
      <3> QED
        BY <2>2, <3>1 DEF ReadLists
    <2>13. \A modes, n : n \in ListedItems(s, modes) <=>
              \E p \in KnownTo(s, Len(ws)) : p.mode \in modes /\ n \in Named(p)
      BY <2>10 DEF ListedItems
    <2> HIDE DEF Named
    <2>14. ASSUME NEW r \in BOOLEAN, NEW modes, \A m \in Modes : m \in modes <=> r \/ m = "use"
           PROVE  Elems(PartialItems(s, r)) = ListedItems(s, modes)
      <3>1. Elems(PartialItems(s, r)) = {i.node : i \in {j \in Elems(partial[s]) : r \/ j.mode = "use"}}
        BY <1>1, PartialElems DEF Loaded
      <3>2. \A n : n \in Elems(PartialItems(s, r)) <=>
               \E j \in Elems(partial[s]) : (r \/ j.mode = "use") /\ n = j.node
        BY <3>1
      <3>3. \A n : n \in Elems(PartialItems(s, r)) <=>
               \E p \in KnownTo(s, Len(ws)) : (r \/ p.mode = "use") /\ n \in Named(p)
        <4>1. \A j \in Elems(partial[s]) :
                 \E p \in KnownTo(s, Len(ws)) : \E n \in Named(p) : j.mode = p.mode /\ j.node = n
          BY <2>12
        <4>2. ASSUME NEW p \in KnownTo(s, Len(ws)), NEW n \in Named(p)
              PROVE  \E j \in Elems(partial[s]) : j.mode = p.mode /\ j.node = n
          <5>1. PICK j : j = [mode |-> p.mode, node |-> n]
            OBVIOUS
          <5>2. j \in Elems(partial[s]) /\ j.mode = p.mode /\ j.node = n
            BY <2>12, <5>1
          <5> QED
            BY <5>2
        <4> QED
          BY ONLY <3>2, <4>1, <4>2
      <3>4. \A n : n \in Elems(PartialItems(s, r)) <=> n \in ListedItems(s, modes)
        BY ONLY <2>11, <2>13, <2>14, <3>3
      <3> QED
        BY <3>4
    <2>15. Elems(PartialItems(s, TRUE)) = ListedItems(s, Modes)
      BY <2>14
    <2>16. Elems(PartialItems(s, FALSE)) = ListedItems(s, {"use"})
      BY <2>14
    <2> QED
      BY <2>9, <2>15, <2>16
  <1> QED
    BY <1>1, <1>2 DEF Interfaced

----------------------------------------------------------------------------
(* Kept resources *)

LEMMA SameSeen ==
    ASSUME UNCHANGED <<ws, schemas, full, partial>>
    PROVE  /\ Nodes' = Nodes /\ Loaded' = Loaded /\ \A n : Decl(n)' = Decl(n)
           /\ \A s, mode : Interfaces(s, mode)' = Interfaces(s, mode)
           /\ \A s : Sources(s)' = Sources(s)
           /\ \A s : SeenByClause11(s)' = SeenByClause11(s)
  <1>1. /\ Nodes' = Nodes /\ Positions' = Positions /\ Loaded' = Loaded
        /\ \A n : Decl(n)' = Decl(n)
    BY SameTexts DEF Loaded
  <1>2. \A s, modes : ListedItems(s, modes)' = ListedItems(s, modes)
    BY SameLists
  <1>3. \A s, mode : Interfaces(s, mode)' = Interfaces(s, mode)
    BY DEF Interfaces, TextsNamed, Filtered, Positions
  <1>4. \A s : Sources(s)' = Sources(s)
    BY <1>1, <1>3 DEF Sources
  <1>5. \A c : LocalRegistry(c)' = LocalRegistry(c)
    BY SameRegistry
  <1>6. \A s : SeenByClause11(s)' = SeenByClause11(s)
    <2> TAKE s
    <2>1. SeenByClause11(s)' = ListedItems(s, {"use", "reference"})' \cup
             UNION {Range(LocalRegistry(schemas[t])') \cup ListedItems(t, {"use"})' : t \in Sources(s)'}
      BY DEF SeenByClause11
    <2>2. \A t : LocalRegistry(schemas[t])' = LocalRegistry(schemas[t])
      BY <1>5
    <2>3. \A t : Range(LocalRegistry(schemas[t])') \cup ListedItems(t, {"use"})'
                   = Range(LocalRegistry(schemas[t])) \cup ListedItems(t, {"use"})
      BY <1>2, <2>2
    <2>4. SeenByClause11(s)' = ListedItems(s, {"use", "reference"}) \cup
             UNION {Range(LocalRegistry(schemas[t])) \cup ListedItems(t, {"use"}) : t \in Sources(s)}
      BY ONLY <1>2, <1>4, <2>1, <2>3
    <2> QED
      BY <2>4 DEF SeenByClause11
  <1> QED
    BY <1>1, <1>2, <1>3, <1>4, <1>6

LEMMA SameRight ==
    ASSUME UNCHANGED <<ws, schemas, full, partial>>, NEW s, NEW CONSTANT list, RightResources(s, list)
    PROVE  RightResources(s, list)'
  BY SameSeen DEF RightResources, KeysOf, KeyOf

\* Lists are kept from the second resolution on, of schemas that have an object.
ResourcesInv ==
    /\ memo = [up |-> memo.up, down |-> memo.down, resources |-> memo.resources]
    /\ memo.resources = [s \in SchemaNames |-> memo.resources[s]]
    /\ \A s \in SchemaNames : Memoized(s) =>
          stage \in {"wire", "enter", "built", "stopped"} /\ RightResources(s, memo.resources[s])

LEMMA NothingListed ==
    ASSUME NEW u, NEW d, memo = [up |-> u, down |-> d, resources |-> [s \in SchemaNames |-> <<NoNode>>]]
    PROVE  ResourcesInv
  BY DEF ResourcesInv, Memoized

LEMMA InitResources == Init => ResourcesInv
  <1> SUFFICES ASSUME Init PROVE ResourcesInv
    OBVIOUS
  <1>1. memo = [up |-> [n \in Nodes |-> Unset], down |-> [n \in Nodes |-> Unset],
                resources |-> [s \in SchemaNames |-> <<NoNode>>]]
    BY DEF Init, NothingKept, Nodes, Positions
  <1> QED
    BY <1>1, NothingListed

LEMMA SameResources ==
    ASSUME ResourcesInv, UNCHANGED <<ws, schemas, full, partial>>, memo'.resources = memo.resources,
           memo' = [up |-> memo'.up, down |-> memo'.down, resources |-> memo'.resources],
           stage \in {"wire", "enter", "built", "stopped"} => stage' \in {"wire", "enter", "built", "stopped"}
    PROVE  ResourcesInv'
  <1>1. ASSUME NEW s \in SchemaNames, Memoized(s)'
        PROVE  stage' \in {"wire", "enter", "built", "stopped"} /\ RightResources(s, memo.resources[s])'
    <2>1. Memoized(s)
      BY <1>1 DEF Memoized
    <2>2. PICK k : k = memo.resources[s]
      OBVIOUS
    <2>3. RightResources(s, k)
      BY <2>1, <2>2 DEF ResourcesInv
    <2>4. RightResources(s, k)'
      BY <2>3, SameRight
    <2>5. memo'.resources[s] = k
      BY <2>2
    <2> QED
      BY <2>1, <2>4, <2>5 DEF ResourcesInv
  <1> QED
    BY <1>1 DEF ResourcesInv

\* A list that is asked for is kept.
LEMMA RememberedRight ==
    ASSUME ObjectsInv, InterfaceInv, ResourcesInv, UNCHANGED <<ws, schemas, full, partial>>,
           stage \in {"wire", "built"}, stage' \in {"wire", "enter", "built"},
           NEW i \in Positions, NEW s, s = ws[i].name, memo' = RememberResources(s)
    PROVE  ResourcesInv'
  <1>1. Readable /\ Interfaced
    BY ReadAll
  <1>2. s \in Loaded /\ s \in SchemaNames
    <2>1. ws[i].name \in SchemaNames /\ schemas[ws[i].name] # 0
      BY <1>1, TextsTyped DEF ObjectsInv, Readable
    <2> QED
      BY <2>1 DEF Loaded
  <1>3. PICK k : k = Resources(s)
    OBVIOUS
  <1>4. RightResources(s, k)
    <2>1. CASE Memoized(s)
      BY <1>2, <1>3, <2>1 DEF Resources, ResourcesInv
    <2>2. CASE ~Memoized(s)
      BY <1>1, <1>2, <1>3, <2>2, ComputedRight DEF Resources
    <2> QED
      BY <2>1, <2>2
  <1>5. /\ memo' = [up |-> memo'.up, down |-> memo'.down, resources |-> memo'.resources]
        /\ memo'.resources = [memo.resources EXCEPT ![s] = k]
    BY <1>3 DEF ResourcesInv, RememberResources
  <1>6. memo'.resources = [t \in SchemaNames |-> IF t = s THEN k ELSE memo.resources[t]]
    <2>1. memo.resources = [t \in SchemaNames |-> memo.resources[t]]
      BY DEF ResourcesInv
    <2> QED
      BY <1>2, <1>5, <2>1
  <1>7. ASSUME NEW t \in SchemaNames, Memoized(t)' PROVE RightResources(t, memo.resources[t])'
    <2>1. PICK m : m = memo'.resources[t]
      OBVIOUS
    <2>2. RightResources(t, m)
      <3>1. CASE t = s
        BY <1>4, <1>6, <2>1, <3>1
      <3>2. CASE t # s
        <4>1. m = memo.resources[t] /\ Memoized(t)
          BY <1>6, <1>7, <2>1, <3>2 DEF Memoized
        <4> QED
          BY <4>1 DEF ResourcesInv
      <3> QED
        BY <3>1, <3>2
    <2>3. RightResources(t, m)'
      BY <2>2, SameRight
    <2> QED
      BY <2>1, <2>3
  <1> QED
    BY <1>5, <1>6, <1>7 DEF ResourcesInv

LEMMA NextResources ==
    ASSUME Serial, ObjectsInv, InterfaceInv, ResourcesInv, [Next]_vars
    PROVE  ResourcesInv'
  <1>0. memo = [up |-> memo.up, down |-> memo.down, resources |-> memo.resources]
    BY DEF ResourcesInv
  <1>1. CASE UNCHANGED vars
    <2>1. UNCHANGED <<ws, schemas, full, partial, stage, memo>>
      BY <1>1 DEF vars, texts, objects, memos
    <2> QED
      BY <1>0, <2>1, SameResources
  <1>2. CASE Build
    <2>1. PICK w \in Edited : ws' = w /\ ClearMemos(w)
      BY <1>2 DEF Build
    <2>2. memo' = [up |-> [n \in Nodes' |-> Unset], down |-> [n \in Nodes' |-> Unset],
                   resources |-> [s \in SchemaNames |-> <<NoNode>>]]
      BY <2>1 DEF ClearMemos, NothingKept, Nodes, Positions
    <2> QED
      BY <2>2 DEF ResourcesInv, Memoized
  <1>3. CASE LoadSchema \/ InterfaceSchema \/ NameSupertypes
    <2>1. memo' = memo /\ stage \notin {"wire", "enter", "built", "stopped"}
      BY <1>3 DEF LoadSchema, InterfaceSchema, NameSupertypes, memos
    <2>2. \A s \in SchemaNames : ~Memoized(s)
      BY <2>1 DEF ResourcesInv
    <2>3. \A s \in SchemaNames : ~Memoized(s)'
      BY <2>1, <2>2 DEF Memoized
    <2> QED
      BY <2>1, <2>3 DEF ResourcesInv
  <1>4. CASE WireSchema
    <2>1. /\ stage = "wire" /\ UNCHANGED <<ws, schemas, full, partial>>
          /\ memo' = RememberResources(Order[at]) /\ Advance(Len(Order))
      BY <1>4 DEF WireSchema, texts
    <2>2. stage' \in {"wire", "enter"}
      BY <2>1, ThenStage
    <2>3. at \in DOMAIN Order /\ ws \in Workspaces
      BY <2>1 DEF ObjectsInv
    <2>4. Order[at] \in Elems(Order)
      BY <2>3, OrderTyped DEF Elems
    <2>5. PICK i \in Positions : Order[at] = ws[i].name
      BY <2>3, <2>4, OrderTyped
    <2> QED
      BY <2>1, <2>2, <2>5, RememberedRight
  <1>5. CASE EnterSubtypes
    <2>1. stage = "enter" /\ UNCHANGED <<ws, schemas, full, partial, memo>> /\ Advance(Len(Order))
      BY <1>5 DEF EnterSubtypes, texts, memos
    <2>2. stage' \in {"enter", "built"}
      BY <2>1, ThenStage
    <2> QED
      BY <1>0, <2>1, <2>2, SameResources
  <1>6. CASE Interrupt
    <2>1. stage' = "stopped" /\ UNCHANGED <<ws, schemas, full, partial, memo>>
      BY <1>6 DEF Interrupt, texts, objects, memos
    <2> QED
      BY <1>0, <2>1, SameResources
  <1>7. ASSUME NEW i \in Positions, AskResources(i) PROVE ResourcesInv'
    <2>1. Answers(i) /\ memo' = RememberResources(ws[i].name)
      BY <1>7 DEF AskResources
    <2>2. stage = "built" /\ UNCHANGED <<ws, stage, schemas, full, partial>>
      BY <2>1, AskedWhenBuilt
    <2> QED
      BY <2>1, <2>2, RememberedRight
  <1>8. ASSUME NEW n, AskGraph(n) \/ AskVisible(n) PROVE ResourcesInv'
    <2>1. UNCHANGED <<ws, schemas, full, partial, stage, memo>>
      BY <1>8 DEF AskGraph, AskVisible, Answers, texts, objects
    <2> QED
      BY <1>0, <2>1, SameResources
  <1>9. ASSUME NEW n, NEW dir \in {"up", "down"}, AskRelatives(n, dir) PROVE ResourcesInv'
    <2>1. PICK pool : memo' = [memo EXCEPT ![dir] = pool]
      BY <1>9 DEF AskRelatives
    <2>2. UNCHANGED <<ws, schemas, full, partial, stage>>
      BY <1>9 DEF AskRelatives, Answers, texts, objects
    <2>3. /\ memo'.resources = memo.resources
          /\ memo' = [up |-> memo'.up, down |-> memo'.down, resources |-> memo'.resources]
      BY <1>0, <2>1
    <2> QED
      BY <2>2, <2>3, SameResources
  <1> QED
    BY <1>1, <1>2, <1>3, <1>4, <1>5, <1>6, <1>7, <1>8, <1>9 DEF Next

LEMMA ResourcesAreKept == ResourcesInv => ResourcesFollowClause11
  <1> SUFFICES ASSUME ResourcesInv, NEW s \in SchemaNames, Memoized(s)
               PROVE  /\ Range(memo.resources[s]) \subseteq SeenByClause11(s)
                      /\ {<<Decl(n).kind, Decl(n).name>> : n \in Range(memo.resources[s])}
                            = {<<Decl(n).kind, Decl(n).name>> : n \in SeenByClause11(s)}
    BY DEF ResourcesFollowClause11
  <1> QED
    BY DEF ResourcesInv, RightResources, KeysOf, KeyOf

\* However the interfaces are chained or cyclic, and whatever was asked before: the
\* list of resources a container keeps of a schema (getAllResources), when it answers
\* nothing while it is built, names what clause 11 makes visible in it, its own
\* declarations, the listed items and what the schemas it interfaces as a whole
\* declare or use, and nothing else; a declaration is missing only where another of
\* its kind and name stands for it.
THEOREM ResourcesByClause11 ==
    ASSUME Serial
    PROVE  Spec => []ResourcesFollowClause11
  <1>1. ObjectsInv /\ InterfaceInv /\ [Next]_vars => InterfaceInv'
    BY NextInterface
  <1>2. ObjectsInv /\ InterfaceInv /\ ResourcesInv /\ [Next]_vars => ResourcesInv'
    BY NextResources
  <1> QED
    BY <1>1, <1>2, InitInterface, InitResources, ResourcesAreKept, ObjectsInvariance, PTL DEF Spec

----------------------------------------------------------------------------
(* The entities a schema sees *)

\* The entities of the schema objects.
ObjectsOf == {n \in Nodes : n \in Elems(EntitiesOf(SchemaOf(n)))}
\* What may be in the registry of a text.
Registrable(c) == {n \in Nodes : n[1] = c /\ (Decl(n).kind = "Entity" => Earlier(n) = {})}

LEMMA EnteredWithin ==
    ASSUME NEW l \in Seq(Nodes), NEW n \in Nodes
    PROVE  \/ Entered(l, n) = l
           \/ /\ Decl(n).kind = "Entity" => Earlier(n) = {}
              /\ Elems(Entered(l, n)) \subseteq Elems(l) \cup {n}
  <1> DEFINE I == {i \in 1..Len(l) : Decl(l[i]).name = Decl(n).name}
             j == IF I # {} THEN Min(I) ELSE 0
  <1>1. \/ Entered(l, n) = l
        \/ (Decl(n).kind = "Entity" => Earlier(n) = {}) /\ Entered(l, n) = PutAt(l, j, n)
    BY DEF Entered, Put, SelectInSeq
  <1>2. j = 0 \/ j \in I
    <2>1. I \in SUBSET (1..Len(l))
      OBVIOUS
    <2> HIDE DEF I
    <2> QED
      BY <2>1, FirstThat
  <1>3. j \in 0..Len(l)
    <2> HIDE DEF j
    <2> QED
      BY <1>2
  <1> HIDE DEF j
  <1>4. Elems(PutAt(l, j, n)) \subseteq Elems(l) \cup {n}
    <2>1. CASE j = 0
      BY <1>3, <2>1, PutAtTyped
    <2>2. CASE j # 0
      <3>1. /\ Len(PutAt(l, j, n)) = Len(l)
            /\ \A i \in 1..Len(l) : PutAt(l, j, n)[i] = IF i = j THEN n ELSE l[i]
        BY <1>3, <2>2, PutAtTyped
      <3> QED
        BY <3>1 DEF Elems
    <2> QED
      BY <2>1, <2>2
  <1> QED
    BY <1>1, <1>4

\* An entity in the registry of a text is one that addEntity kept.
LEMMA RegistryWithin ==
    ASSUME ws \in Workspaces, NEW c \in Positions
    PROVE  LocalRegistry(c) \in Seq(Nodes) /\ Elems(LocalRegistry(c)) \subseteq Registrable(c)
  <1> DEFINE q == TextNodes(c)
             F == CHOOSE iter : IsEntering(iter, <<>>, q)
  <1>1. TextNodes(c) \in Seq(Nodes) /\ \A i \in 1..Len(TextNodes(c)) : TextNodes(c)[i][1] = c
    <2>1. DOMAIN ws[c].decls = 1..Len(ws[c].decls) /\ Len(ws[c].decls) \in Nat
      BY TextsTyped
    <2>2. \A d \in DOMAIN ws[c].decls : <<c, d>> \in Nodes
      BY TextsTyped
    <2>3. TextNodes(c) \in [1..Len(ws[c].decls) -> Nodes]
      BY <2>1, <2>2 DEF TextNodes
    <2>4. TextNodes(c) \in Seq(Nodes) /\ Len(TextNodes(c)) = Len(ws[c].decls)
      BY <2>1, <2>3, IsASeq, LenProperties
    <2>5. \A i \in 1..Len(ws[c].decls) : TextNodes(c)[i] = <<c, i>>
      BY <2>1 DEF TextNodes
    <2> QED
      BY <2>4, <2>5
  <1>2. <<>> \in Seq(Nodes)
    BY EmptySeq
  <1> HIDE DEF q
  <1>3. q = TextNodes(c) /\ q \in Seq(Nodes) /\ \A i \in 1..Len(q) : q[i] \in Nodes /\ q[i][1] = c
    BY <1>1 DEF q
  <1>4. IsEntering(F, <<>>, q)
    BY <1>2, <1>3, EnteringExists
  <1>5. LocalRegistry(c) = F[DOMAIN q]
    BY <1>3 DEF LocalRegistry, FoldLeft, MapThenFoldSet, IsEntering, Entered
  <1> HIDE DEF F
  <1>6. PICK acc \in [0..Len(q) -> Seq(Nodes)] :
            /\ acc[0] = <<>> /\ F[DOMAIN q] = acc[Len(q)]
            /\ \A i \in 1..Len(q) : acc[i] = Entered(acc[i - 1], q[i])
    <2>1. PICK base \in Seq(Nodes) : base = <<>>
      BY <1>2
    <2>2. q \in Seq(Nodes) /\ base \in Seq(Nodes) /\ IsEntering(F, base, q)
      BY <1>3, <1>4, <2>1
    <2>3. \E acc \in [0..Len(q) -> Seq(Nodes)] :
            /\ acc[0] = base /\ F[DOMAIN q] = acc[Len(q)]
            /\ \A i \in 1..Len(q) : acc[i] = Entered(acc[i - 1], q[i])
      BY ONLY <2>2, EnteringAlong
    <2> QED
      BY <2>1, <2>3
  <1> DEFINE P == {i \in 0..Len(q) : Elems(acc[i]) \subseteq Registrable(c)}
  <1>7. 0 \in P
    <2>1. Elems(<<>>) = {}
      BY DEF Elems
    <2>2. 0 \in 0..Len(q)
      BY <1>3
    <2> QED
      BY <1>6, <2>1, <2>2
  <1>8. ASSUME NEW i \in 1..Len(q), i - 1 \in P PROVE i \in P
    <2>1. PICK l \in Seq(Nodes) : l = acc[i - 1]
      BY <1>6, <1>8
    <2>2. PICK n \in Nodes : n = q[i] /\ n[1] = c
      BY <1>3
    <2>3. acc[i] = Entered(l, n) /\ Elems(l) \subseteq Registrable(c)
      BY <1>6, <1>8, <2>1, <2>2
    <2>4. \/ Entered(l, n) = l
          \/ /\ Decl(n).kind = "Entity" => Earlier(n) = {}
             /\ Elems(Entered(l, n)) \subseteq Elems(l) \cup {n}
      BY EnteredWithin
    <2>5. Elems(acc[i]) \subseteq Registrable(c)
      BY <2>2, <2>3, <2>4 DEF Registrable
    <2> QED
      BY <2>5
  <1>9. Len(q) \in P
    <2> HIDE DEF P
    <2>1. Len(q) \in Nat /\ Len(q) \in 0..Len(q)
      BY <1>3
    <2> QED
      BY <1>7, <1>8, <2>1, NumberByNumber
  <1> QED
    BY <1>5, <1>6, <1>9

\* The entities among them are those of the schema object.
LEMMA RegisteredEntities ==
    ASSUME ws \in Workspaces, NEW c \in Positions, NEW n \in Registrable(c), Decl(n).kind = "Entity"
    PROVE  n \in Elems(Entities(c))
  <1> DEFINE set == {m \in Nodes : Decl(m).kind = "Entity" /\ Earlier(m) = {}}
  <1>1. TextNodes(c) \in Seq(Nodes) /\ n \in Elems(TextNodes(c))
    <2>1. DOMAIN ws[c].decls = 1..Len(ws[c].decls) /\ Len(ws[c].decls) \in Nat
      BY TextsTyped
    <2>2. \A d \in DOMAIN ws[c].decls : <<c, d>> \in Nodes
      BY TextsTyped
    <2>3. TextNodes(c) \in [1..Len(ws[c].decls) -> Nodes]
      BY <2>1, <2>2 DEF TextNodes
    <2>4. TextNodes(c) \in Seq(Nodes) /\ Len(TextNodes(c)) = Len(ws[c].decls)
      BY <2>1, <2>3, IsASeq, LenProperties
    <2>5. n \in Nodes /\ n[1] = c
      BY DEF Registrable
    <2>6. PICK s \in Positions : \E d \in DOMAIN ws[s].decls : n = <<s, d>>
      BY <2>5, TextsTyped
    <2>7. PICK d \in DOMAIN ws[c].decls : n = <<c, d>>
      BY <2>5, <2>6
    <2>8. TextNodes(c)[d] = n /\ d \in 1..Len(TextNodes(c))
      BY <2>1, <2>4, <2>7 DEF TextNodes
    <2> QED
      BY <2>4, <2>8 DEF Elems
  <1>2. n \in set
    BY DEF Registrable
  <1>3. Entities(c) = Filtered(TextNodes(c), set)
    BY DEF Entities
  <1> HIDE DEF set
  <1> QED
    BY <1>1, <1>2, <1>3, FilteredTyped

\* The first of a list that has a property is of the list and has it.
LEMMA FoundAmong ==
    ASSUME NEW l \in Seq(Nodes), NEW I \in SUBSET (1..Len(l)),
           NEW m, m = ElementAt(l, IF I # {} THEN Min(I) ELSE 0), m # NoNode
    PROVE  m \in Nodes /\ m \in Elems(l) /\ \E i \in I : m = l[i]
  <1>1. I # {}
    BY DEF ElementAt
  <1>2. PICK i \in I : i = Min(I)
    BY <1>1, FirstThat
  <1>3. i \in 1..Len(l) /\ i # 0
    OBVIOUS
  <1>4. m = l[i]
    BY <1>1, <1>2, <1>3 DEF ElementAt
  <1> QED
    BY <1>3, <1>4 DEF Elems

LEMMA SeenUnderCaseRule ==
    ASSUME NEW l \in Seq(Nodes), NEW kind, NEW w, NEW folds,
           NEW m, m = UnderCaseRule(l, kind, w, folds), m # NoNode
    PROVE  m \in Nodes /\ m \in Elems(l) /\ Decl(m).kind = kind
  <1> DEFINE I == {i \in 1..Len(l) : Decl(l[i]).kind = kind /\ Decl(l[i]).name = w}
             J == {i \in 1..Len(l) : Decl(l[i]).kind = kind /\ Folded[Decl(l[i]).name] = Folded[w]}
             x == ElementAt(l, IF I # {} THEN Min(I) ELSE 0)
             y == ElementAt(l, IF J # {} THEN Min(J) ELSE 0)
  <1>1. UnderCaseRule(l, kind, w, folds) = OrElse(x, IF folds THEN y ELSE NoNode)
    BY DEF UnderCaseRule, Find, SelectInSeq
  <1>2. m = x \/ m = y
    <2> HIDE DEF x, y
    <2> QED
      BY <1>1 DEF OrElse
  <1>3. I \in SUBSET (1..Len(l)) /\ J \in SUBSET (1..Len(l))
    OBVIOUS
  <1>4. (\A i \in I : Decl(l[i]).kind = kind) /\ (\A i \in J : Decl(l[i]).kind = kind)
    OBVIOUS
  <1> HIDE DEF I, J
  <1>5. CASE m = x
    <2>1. m \in Nodes /\ m \in Elems(l) /\ \E i \in I : m = l[i]
      BY <1>3, <1>5, FoundAmong
    <2> QED
      BY <1>4, <2>1
  <1>6. CASE m = y
    <2>1. m \in Nodes /\ m \in Elems(l) /\ \E i \in J : m = l[i]
      BY <1>3, <1>6, FoundAmong
    <2> QED
      BY <1>4, <2>1
  <1> QED
    BY <1>2, <1>5, <1>6

LEMMA LocallyDefined ==
    ASSUME ws \in Workspaces, NEW c \in Positions, NEW w,
           NEW m, m = LocalDefinition(c, w), m # NoNode
    PROVE  m \in Nodes /\ m \in Elems(LocalRegistry(c))
  <1>1. PICK l \in Seq(Nodes) : l = LocalRegistry(c)
    BY RegistryTyped
  <1> DEFINE I == {i \in 1..Len(l) : Decl(l[i]).name = w}
             J == {i \in 1..Len(l) : Folded[Decl(l[i]).name] = Folded[w] /\ Decl(l[i]).kind # "Entity"}
             x == ElementAt(l, IF I # {} THEN Min(I) ELSE 0)
             y == ElementAt(l, IF J # {} THEN Min(J) ELSE 0)
  <1>2. LocalDefinition(c, w) = OrElse(x, y)
    BY <1>1 DEF LocalDefinition, Find, SelectInSeq
  <1>3. m = x \/ m = y
    <2> HIDE DEF x, y
    <2> QED
      BY <1>2 DEF OrElse
  <1>4. I \in SUBSET (1..Len(l)) /\ J \in SUBSET (1..Len(l))
    OBVIOUS
  <1> HIDE DEF I, J
  <1>5. CASE m = x
    BY <1>1, <1>4, <1>5, FoundAmong
  <1>6. CASE m = y
    BY <1>1, <1>4, <1>6, FoundAmong
  <1> QED
    BY <1>3, <1>5, <1>6

\* An entity in the registry of a schema object is one of its entities.
LEMMA RegisteredObjects ==
    ASSUME ws \in Workspaces, NEW t \in Loaded, schemas[t] \in Positions, ws[schemas[t]].name = t,
           NEW n \in Elems(LocalRegistry(schemas[t])), Decl(n).kind = "Entity"
    PROVE  n \in ObjectsOf
  <1>1. PICK c \in Positions : c = schemas[t]
    OBVIOUS
  <1>2. n \in Registrable(c)
    BY <1>1, RegistryWithin
  <1>3. n \in Nodes /\ n[1] = c
    BY <1>2 DEF Registrable
  <1>4. n \in Elems(Entities(c))
    BY <1>1, <1>2, RegisteredEntities
  <1>5. SchemaOf(n) = t
    BY <1>1, <1>3 DEF SchemaOf
  <1>6. EntitiesOf(t) = Entities(c)
    BY <1>1 DEF EntitiesOf, Loaded
  <1> QED
    BY <1>3, <1>4, <1>5, <1>6 DEF ObjectsOf

\* An entity that a specification lists is one of an object.
IsObjectIfEntity(n) == Decl(n).kind = "Entity" => n \in ObjectsOf
ItemsInv == \A s \in SchemaNames : \A i \in Elems(partial[s]) : IsObjectIfEntity(i.node)

LEMMA ListedObjects ==
    ASSUME ws \in Workspaces, NEW p \in Specifications, p.schema \in Loaded,
           schemas[p.schema] \in Positions, ws[schemas[p.schema]].name = p.schema,
           NEW i \in Elems(ListedFor(p))
    PROVE  IsObjectIfEntity(i.node)
  <1> DEFINE c == schemas[p.schema]
             list == [j \in DOMAIN p.items |-> LocalDefinition(c, p.items[j])]
             All == {LocalDefinition(c, p.items[j]) : j \in DOMAIN p.items}
  <1>1. p.items \in Seq(Names)
    BY DEF Specifications
  <1>2. list \in [1..Len(p.items) -> All] /\ Len(p.items) \in Nat
    BY <1>1
  <1>3. FoundFor(p) = Filtered(list, Nodes)
    BY DEF FoundFor, Written
  <1>4. list \in Seq(All)
    <2> HIDE DEF All, list
    <2> QED
      BY <1>2, IsASeq
  <1>5. ASSUME NEW m \in All, m \in Nodes PROVE IsObjectIfEntity(m)
    <2>1. PICK w : m = LocalDefinition(c, w)
      OBVIOUS
    <2>2. m # NoNode
      BY <1>5, NoNodeIsNone
    <2>3. m \in Elems(LocalRegistry(c))
      BY <2>1, <2>2, LocallyDefined
    <2> QED
      BY <2>3, RegisteredObjects DEF IsObjectIfEntity
  <1> HIDE DEF list, All
  <1>6. PICK q : q = FoundFor(p)
    OBVIOUS
  <1>7. q \in Seq(All) /\ Elems(q) = Elems(list) \cap Nodes
    BY <1>3, <1>4, <1>6, FilteredTyped
  <1>8. ListedFor(p) = [j \in DOMAIN q |-> [mode |-> p.mode, node |-> q[j]]]
    BY <1>6 DEF ListedFor
  <1>9. PICK r : r = ListedFor(p)
    OBVIOUS
  <1>10. Len(r) = Len(q) /\ DOMAIN q = 1..Len(q) /\ Len(q) \in Nat /\ \A j \in 1..Len(q) : r[j].node = q[j]
    <2>1. DOMAIN q = 1..Len(q) /\ Len(q) \in Nat
      BY <1>7
    <2>2. r \in Seq(ListedLists)
      BY <1>9, ListedTyped
    <2> QED
      BY <1>8, <1>9, <2>1, <2>2
  <1>11. PICK j \in 1..Len(q) : i = r[j]
    BY <1>9, <1>10 DEF Elems
  <1>12. i.node = q[j] /\ q[j] \in Elems(q)
    BY <1>10, <1>11 DEF Elems
  <1>13. q[j] \in All /\ q[j] \in Nodes
    BY <1>7, <1>12
  <1> QED
    BY <1>5, <1>12, <1>13

LEMMA ReadItems ==
    ASSUME ObjectsInv, InterfaceInv, ItemsInv, InterfaceSchema
    PROVE  ItemsInv'
  <1>1. /\ ws \in Workspaces /\ schemas \in [SchemaNames -> {0} \cup Positions] /\ at \in Positions
        /\ partial \in [SchemaNames -> Seq(ListedLists)] /\ \A t \in Loaded : ws[schemas[t]].name = t
        /\ UNCHANGED <<ws, schemas>>
    BY DEF InterfaceSchema, ObjectsInv, InterfaceInv, texts
  <1>2. ws[at].name \in SchemaNames
    BY <1>1, TextsTyped
  <1> PICK s : s = ws[at].name
    OBVIOUS
  <1> DEFINE lists == [i \in DOMAIN KnownSpecs(at) |-> ListedFor(KnownSpecs(at)[i])]
  <1>3. partial' = [partial EXCEPT ![s] = partial[s] \o FlattenSeq(lists)]
    BY DEF InterfaceSchema, ReadSpecifications, ListedFor, FoundFor, KnownSpecs
  <1>4. /\ FlattenSeq(lists) \in Seq(ListedLists)
        /\ \A i \in Elems(FlattenSeq(lists)) : IsObjectIfEntity(i.node)
    <2>1. PICK q \in Seq(Specifications) : q = KnownSpecs(at)
      BY <1>1, KnownTyped
    <2>2. Len(q) \in Nat /\ DOMAIN q = 1..Len(q) /\ \A i \in 1..Len(q) : q[i] \in Specifications
      OBVIOUS
    <2>3. lists = [i \in 1..Len(q) |-> ListedFor(q[i])]
      BY <2>1, <2>2
    <2> HIDE DEF lists
    <2>4. lists \in [1..Len(q) -> Seq(ListedLists)]
      BY <2>2, <2>3, ListedTyped
    <2>5. lists \in Seq(Seq(ListedLists)) /\ Len(lists) = Len(q)
      BY <2>2, <2>4, IsASeq, LenProperties
    <2>6. /\ FlattenSeq(lists) \in Seq(ListedLists)
          /\ \A i : i \in Elems(FlattenSeq(lists)) <=> \E j \in 1..Len(lists) : i \in Elems(lists[j])
      BY <2>5, ElemsOfFlatten
    <2>7. ASSUME NEW i \in Elems(FlattenSeq(lists)) PROVE IsObjectIfEntity(i.node)
      <3>1. PICK j \in 1..Len(q) : i \in Elems(ListedFor(q[j]))
        BY <2>3, <2>5, <2>6
      <3>2. PICK p \in Specifications : p = q[j]
        BY <2>2
      <3>3. p \in Elems(KnownSpecs(at))
        BY <2>1, <3>2 DEF Elems
      <3>4. p \in Elems(ws[at].specs) /\ schemas[p.schema] # 0
        BY <1>1, <3>3, KnownTyped
      <3>5. p.schema \in SchemaNames
        BY DEF Specifications
      <3>6. p.schema \in Loaded /\ schemas[p.schema] \in Positions
        BY <1>1, <3>4, <3>5 DEF Loaded
      <3>7. ws[schemas[p.schema]].name = p.schema
        BY <1>1, <3>6
      <3> QED
        BY <1>1, <3>1, <3>2, <3>6, <3>7, ListedObjects
    <2> QED
      BY <2>6, <2>7
  <1> HIDE DEF lists
  <1>5. \A i \in Elems(partial[s] \o FlattenSeq(lists)) : IsObjectIfEntity(i.node)
    <2>1. PICK p \in Seq(ListedLists) : p = partial[s]
      BY <1>1, <1>2
    <2>2. PICK q \in Seq(ListedLists) : q = FlattenSeq(lists)
      BY <1>4
    <2>3. Elems(p \o q) = Elems(p) \cup Elems(q)
      BY ONLY ElemsOfConcat
    <2>4. \A i \in Elems(p) : IsObjectIfEntity(i.node)
      BY <1>2, <2>1 DEF ItemsInv
    <2> QED
      BY <1>4, <2>1, <2>2, <2>3, <2>4
  <1>6. \A t \in SchemaNames : \A i \in Elems(partial'[t]) : IsObjectIfEntity(i.node)
    <2> SUFFICES ASSUME NEW t \in SchemaNames, NEW i \in Elems(partial'[t]) PROVE IsObjectIfEntity(i.node)
      OBVIOUS
    <2>1. partial'[t] = IF t = s THEN partial[s] \o FlattenSeq(lists) ELSE partial[t]
      BY <1>1, <1>2, <1>3
    <2>2. CASE t = s
      BY <1>5, <2>1, <2>2
    <2>3. CASE t # s
      BY <2>1, <2>3 DEF ItemsInv
    <2> QED
      BY <2>2, <2>3
  <1>7. \A n : IsObjectIfEntity(n)' = IsObjectIfEntity(n)
    BY <1>1, SameTexts, SameObjects DEF IsObjectIfEntity, ObjectsOf
  <1> QED
    BY <1>6, <1>7 DEF ItemsInv

LEMMA NextItems ==
    ASSUME ObjectsInv, InterfaceInv, ItemsInv, [Next]_vars
    PROVE  ItemsInv'
  <1>1. ASSUME UNCHANGED <<ws, schemas, partial>> PROVE ItemsInv'
    <2>1. \A n : IsObjectIfEntity(n)' = IsObjectIfEntity(n)
      BY <1>1, SameTexts, SameObjects DEF IsObjectIfEntity, ObjectsOf
    <2> QED
      BY <1>1, <2>1 DEF ItemsInv
  <1>2. CASE UNCHANGED vars
    BY <1>1, <1>2 DEF vars, texts, objects
  <1>3. ASSUME \A s \in SchemaNames : partial'[s] = <<>> PROVE ItemsInv'
    <2>1. \A i : i \notin Elems(<<>>)
      BY DEF Elems
    <2> QED
      BY <1>3, <2>1 DEF ItemsInv
  <1>4. CASE Build
    <2>1. PICK w \in Edited : ClearObjects(w)
      BY <1>4 DEF Build
    <2>2. partial' = [s \in SchemaNames |-> <<>>]
      BY <2>1 DEF ClearObjects, NothingKept
    <2> QED
      BY <1>3, <2>2
  <1>5. CASE LoadSchema
    <2>1. stage = "load" /\ partial' = partial
      BY <1>5 DEF LoadSchema
    <2> QED
      BY <1>3, <2>1 DEF InterfaceInv
  <1>6. CASE InterfaceSchema
    BY <1>6, ReadItems
  <1>7. CASE NameSupertypes \/ WireSchema \/ EnterSubtypes \/ Interrupt
    BY <1>1, <1>7 DEF NameSupertypes, WireSchema, EnterSubtypes, Interrupt, texts, objects
  <1>8. ASSUME NEW s, AskResources(s) PROVE ItemsInv'
    BY <1>1, <1>8 DEF AskResources, Answers, texts, objects
  <1>9. ASSUME NEW n, AskRelatives(n, "up") \/ AskRelatives(n, "down") \/ AskGraph(n) \/ AskVisible(n)
        PROVE  ItemsInv'
    BY <1>1, <1>9 DEF AskRelatives, AskGraph, AskVisible, Answers, texts, objects
  <1> QED
    BY <1>2, <1>4, <1>5, <1>6, <1>7, <1>8, <1>9 DEF Next

LEMMA InitItems == Init => ItemsInv
  <1> SUFFICES ASSUME Init PROVE ItemsInv
    OBVIOUS
  <1>1. partial = [s \in SchemaNames |-> <<>>]
    BY DEF Init, NothingKept
  <1>2. \A i : i \notin Elems(<<>>)
    BY DEF Elems
  <1> QED
    BY <1>1, <1>2 DEF ItemsInv

LEMMA PartialAmong ==
    ASSUME Readable, NEW s \in SchemaNames, NEW r \in BOOLEAN, NEW n \in Elems(PartialItems(s, r))
    PROVE  \E i \in Elems(partial[s]) : n = i.node
  <1> DEFINE set == {i \in Range(partial[s]) : r \/ i.mode = "use"}
  <1>1. partial[s] \in Seq(ListedLists)
    BY DEF Readable
  <1> PICK q : q = Filtered(partial[s], set)
    OBVIOUS
  <1>2. q \in Seq(ListedLists) /\ Elems(q) = Elems(partial[s]) \cap set
    <2> HIDE DEF set
    <2> QED
      BY <1>1, FilteredTyped
  <1>3. PartialItems(s, r) = [i \in DOMAIN q |-> q[i].node]
    BY DEF PartialItems
  <1> HIDE DEF set
  <1>4. PICK p \in Seq(Nodes) : p = PartialItems(s, r)
    BY PartialTyped
  <1>5. DOMAIN q = 1..Len(q) /\ Len(q) \in Nat
    BY <1>2
  <1>6. Len(p) = Len(q) /\ \A i \in 1..Len(q) : p[i] = q[i].node
    BY <1>3, <1>4, <1>5
  <1>7. PICK j \in 1..Len(q) : n = q[j].node
    BY <1>4, <1>6 DEF Elems
  <1> QED
    BY <1>2, <1>7 DEF Elems

\* The entity a name is resolved to is one of an object.
LEMMA SeenObjects ==
    ASSUME Readable, Interfaced, ItemsInv, NEW s, NEW l, RightResources(s, l),
           NEW n \in Elems(l), Decl(n).kind = "Entity"
    PROVE  n \in ObjectsOf
  <1>1. s \in Loaded /\ l \in Seq(Nodes) /\ n \in SeenByClause11(s)
    <2>1. Range(l) = Elems(l)
      BY RangeIsElems DEF RightResources
    <2> QED
      BY <2>1 DEF RightResources
  <1>2. Sources(s) \subseteq Loaded
    BY <1>1, SourcesAreLeast
  <1>3. PICK t \in Loaded : n \in Own(t, t = s)
    BY <1>1, <1>2, ClauseIsShare DEF ShareOf
  <1>4. t \in SchemaNames /\ schemas[t] \in Positions /\ ws[schemas[t]].name = t /\ ws \in Workspaces
    BY LoadedFinite DEF Loaded, Readable
  <1>5. CASE n \in Elems(LocalRegistry(schemas[t]))
    BY <1>4, <1>5, RegisteredObjects
  <1>6. CASE n \in Elems(PartialItems(t, t = s))
    <2>1. (t = s) \in BOOLEAN
      OBVIOUS
    <2>2. PICK i \in Elems(partial[t]) : n = i.node
      BY <1>4, <1>6, <2>1, PartialAmong
    <2> QED
      BY <1>4, <2>2 DEF ItemsInv, IsObjectIfEntity
  <1> QED
    BY <1>3, <1>5, <1>6 DEF Own

\* The list a schema has, kept or not.
LEMMA ListRight ==
    ASSUME ObjectsInv, InterfaceInv, ResourcesInv, stage \in {"name", "wire", "enter", "built"},
           NEW s \in Loaded
    PROVE  RightResources(s, Resources(s))
  <1>1. Readable /\ Interfaced /\ s \in SchemaNames
    BY ReadAll DEF Loaded
  <1>2. CASE Memoized(s)
    BY <1>1, <1>2 DEF Resources, ResourcesInv
  <1>3. CASE ~Memoized(s)
    BY <1>1, <1>3, ComputedRight DEF Resources
  <1> QED
    BY <1>2, <1>3

LEMMA SeesObjects ==
    ASSUME ObjectsInv, InterfaceInv, ItemsInv, ResourcesInv, stage \in {"name", "wire", "enter", "built"},
           NEW s \in Loaded, NEW w, SeesEntity(s, w) # NoNode
    PROVE  SeesEntity(s, w) \in ObjectsOf
  <1>1. Readable /\ Interfaced
    BY ReadAll
  <1>2. PICK l : l = Resources(s)
    OBVIOUS
  <1>3. RightResources(s, l)
    BY <1>2, ListRight
  <1>4. PICK m : m = SeesEntity(s, w)
    OBVIOUS
  <1>5. m = UnderCaseRule(l, "Entity", w, LongForm(s)) /\ m # NoNode
    BY <1>2, <1>4 DEF SeesEntity
  <1>6. l \in Seq(Nodes)
    BY <1>3 DEF RightResources
  <1>7. m \in Elems(l) /\ Decl(m).kind = "Entity"
    BY <1>5, <1>6, SeenUnderCaseRule
  <1> QED
    BY <1>1, <1>3, <1>4, <1>7, SeenObjects

----------------------------------------------------------------------------
(* What the second resolution leaves *)

\* What schema s sees under the names an entity writes.
SeenBy(s, n) == {SeesEntity(s, w) : w \in Range(Decl(n).supers)} \ {NoNode}
Unseen(s, n) == {w \in Range(Decl(n).supers) : SeesEntity(s, w) = NoNode}

\* The supertypes of the entities of s are what a later look-up finds.
Wired(s) ==
    /\ Memoized(s)
    /\ \A n \in Elems(EntitiesOf(s)) :
          Range(supers[n]) = SeenBy(s, n) /\ (missing[n] # <<>> <=> Unseen(s, n) # {})

WireInv ==
    /\ missing = [n \in Nodes |-> missing[n]]
    /\ stage = "wire" => \A k \in 1..(at - 1) : Wired(Order[k])
    /\ stage \in {"enter", "built"} => \A k \in DOMAIN Order : Wired(Order[k])

LEMMA NamesTyped ==
    ASSUME ws \in Workspaces, NEW n \in Nodes
    PROVE  Decl(n).supers \in Seq(Names) /\ Range(Decl(n).supers) = Elems(Decl(n).supers)
  <1>0. PICK t \in Positions : \E d \in DOMAIN ws[t].decls : n = <<t, d>>
    BY TextsTyped
  <1>1. PICK d \in DOMAIN ws[t].decls : n = <<t, d>>
    BY <1>0
  <1>2. Decl(n) = ws[t].decls[d] /\ ws[t].decls \in Seq(Declarations)
    BY <1>1, TextsTyped DEF Decl
  <1>3. Decl(n) \in Declarations
    BY <1>1, <1>2, TextsTyped
  <1>4. Decl(n).supers \in Seq(Names)
    BY <1>3 DEF Declarations
  <1> QED
    BY <1>4, RangeIsElems

LEMMA OrderLoaded ==
    ASSUME ObjectsInv, stage \notin {"load", "stopped"}
    PROVE  /\ \A k \in DOMAIN Order : Order[k] \in Loaded
           /\ \A i \in Positions : \E k \in DOMAIN Order : Order[k] = ws[i].name
  <1>1. /\ ws \in Workspaces /\ \A i \in Positions : schemas[ws[i].name] # 0 /\ ws[i].name \in SchemaNames
    BY TextsTyped DEF ObjectsInv
  <1>2. /\ DOMAIN Order = 1..Len(Order)
        /\ \A s : s \in Elems(Order) <=> \E i \in Positions : s = ws[i].name
    BY <1>1, OrderTyped
  <1>3. \A s : s \in Elems(Order) <=> \E k \in DOMAIN Order : s = Order[k]
    BY <1>2 DEF Elems
  <1>4. ASSUME NEW k \in DOMAIN Order
        PROVE  Order[k] \in Loaded
    <2>1. PICK i \in Positions : Order[k] = ws[i].name
      BY <1>2, <1>3
    <2> QED
      BY <1>1, <2>1 DEF Loaded
  <1>5. ASSUME NEW i \in Positions
        PROVE  \E k \in DOMAIN Order : Order[k] = ws[i].name
    <2>1. ws[i].name \in Elems(Order)
      BY <1>2
    <2> QED
      BY <1>3, <2>1
  <1> QED
    BY <1>4, <1>5

LEMMA SameSees ==
    ASSUME ws' = ws, NEW CONSTANT s, Resources(s)' = Resources(s)
    PROVE  \A w : SeesEntity(s, w)' = SeesEntity(s, w)
  BY DEF SeesEntity, UnderCaseRule, Find, SelectInSeq, ElementAt, OrElse, Decl

\* What is wired stays as it is while the objects and the list are the same.
LEMMA SameWired ==
    ASSUME NEW CONSTANT s, Wired(s), UNCHANGED <<ws, schemas>>, memo'.resources[s] = memo.resources[s],
           \A n \in Elems(EntitiesOf(s)) : supers'[n] = supers[n] /\ missing'[n] = missing[n]
    PROVE  Wired(s)'
  <1>1. Memoized(s)' /\ Resources(s)' = Resources(s)
    BY DEF Wired, Memoized, Resources
  <1>2. \A w : SeesEntity(s, w)' = SeesEntity(s, w)
    BY <1>1, SameSees
  <1>3. EntitiesOf(s)' = EntitiesOf(s) /\ \A n : Decl(n)' = Decl(n)
    BY SameTexts, SameObjects
  <1>4. \A n : SeenBy(s, n)' = SeenBy(s, n) /\ Unseen(s, n)' = Unseen(s, n)
    BY <1>2, <1>3 DEF SeenBy, Unseen
  <1> QED
    BY <1>1, <1>3, <1>4 DEF Wired

\* The two results of a resolution.
LEMMA WrittenSees ==
    ASSUME ObjectsInv, InterfaceInv, ItemsInv, ResourcesInv, stage = "wire", NEW s \in Loaded, NEW n \in Nodes
    PROVE  /\ Range(Written(Decl(n).supers, LAMBDA w : SeesEntity(s, w))) = SeenBy(s, n)
           /\ Filtered(Decl(n).supers, Unseen(s, n)) # <<>> <=> Unseen(s, n) # {}
  <1> DEFINE q == Decl(n).supers
             list == [i \in DOMAIN q |-> SeesEntity(s, q[i])]
             All == {SeesEntity(s, q[i]) : i \in DOMAIN q}
  <1>1. q \in Seq(Names) /\ DOMAIN q = 1..Len(q) /\ Len(q) \in Nat /\ Range(q) = Elems(q)
    <2>1. q \in Seq(Names) /\ Range(q) = Elems(q)
      BY NamesTyped DEF ObjectsInv
    <2> HIDE DEF q
    <2> QED
      BY <2>1
  <1>2. Filtered(q, Unseen(s, n)) # <<>> <=> Unseen(s, n) # {}
    <2>1. Unseen(s, n) \subseteq Elems(q)
      BY <1>1 DEF Unseen
    <2> HIDE DEF q
    <2>2. PICK x : x = q
      OBVIOUS
    <2>3. PICK U : U = Unseen(s, n)
      OBVIOUS
    <2>4. x \in Seq(Names) /\ U \subseteq Elems(x)
      BY <1>1, <2>1, <2>2, <2>3
    <2>5. Filtered(x, U) \in Seq(Names) /\ Elems(Filtered(x, U)) = Elems(x) \cap U
      BY ONLY <2>4, FilteredTyped
    <2>6. Elems(Filtered(x, U)) = U
      BY <2>4, <2>5
    <2> QED
      BY <2>2, <2>3, <2>5, <2>6, NothingIn
  <1>3. PICK f : f = Written(q, LAMBDA w : SeesEntity(s, w))
    OBVIOUS
  <1>4. f = Filtered(list, Nodes)
    BY <1>3 DEF Written
  <1>5. All = {SeesEntity(s, w) : w \in Range(q)}
    <2> HIDE DEF q
    <2> QED
      BY <1>1 DEF Elems
  <1>6. \A m \in All : m # NoNode => m \in Nodes
    BY SeesObjects DEF ObjectsOf
  <1>7. NoNode \notin Nodes
    BY NoNodeIsNone DEF ObjectsInv
  <1>8. SeenBy(s, n) = All \cap Nodes
    <2>1. SeenBy(s, n) = All \ {NoNode}
      BY <1>5 DEF SeenBy
    <2> HIDE DEF All
    <2> QED
      BY <1>6, <1>7, <2>1
  <1>9. list \in [1..Len(q) -> All] /\ Elems(list) = All
    <2>1. list \in [1..Len(q) -> All]
      <3> HIDE DEF q
      <3> QED
        BY <1>1
    <2>2. list \in Seq(All) /\ Len(list) = Len(q)
      <3> HIDE DEF list, All, q
      <3> QED
        BY <1>1, <2>1, IsASeq, LenProperties
    <2>3. \A i \in 1..Len(q) : list[i] = SeesEntity(s, q[i])
      BY <1>1
    <2> HIDE DEF list
    <2> QED
      BY <1>1, <2>1, <2>2, <2>3 DEF Elems
  <1>10. list \in Seq(All)
    <2> HIDE DEF list, All, q
    <2> QED
      BY <1>1, <1>9, IsASeq
  <1>11. f \in Seq(All) /\ Elems(f) = All \cap Nodes
    <2> HIDE DEF list, All
    <2> QED
      BY <1>4, <1>9, <1>10, FilteredTyped
  <1>12. Range(f) = Elems(f)
    <2> HIDE DEF All
    <2> QED
      BY <1>11, RangeIsElems
  <1> QED
    BY <1>2, <1>3, <1>8, <1>11, <1>12

\* A resolution wires its schema and leaves the others as they are.
LEMMA OneWired ==
    ASSUME ObjectsInv, InterfaceInv, ItemsInv, ResourcesInv, WireInv, WireSchema,
           NEW CONSTANT s, s \in Loaded, s = Order[at] \/ Wired(s)
    PROVE  Wired(s)'
  <1> PICK r : r = Order[at]
    OBVIOUS
  <1> PICK c : c = schemas[r]
    OBVIOUS
  <1>1. /\ ws \in Workspaces /\ stage = "wire" /\ at \in DOMAIN Order
        /\ UNCHANGED <<ws, schemas>> /\ memo' = RememberResources(r)
        /\ supers' = [n \in Nodes |-> IF n \in Range(Entities(c))
                                      THEN Written(Decl(n).supers, LAMBDA w : SeesEntity(r, w)) ELSE supers[n]]
        /\ missing' = [n \in Nodes |-> IF n \in Range(Entities(c))
                                       THEN Filtered(Decl(n).supers, Unseen(r, n)) ELSE missing[n]]
    BY DEF WireSchema, ObjectsInv, texts, Unseen
  <1>2. r \in Loaded /\ r \in SchemaNames /\ s \in SchemaNames
    BY <1>1, OrderLoaded DEF Loaded
  <1>3. Readable
    BY <1>1, ReadAll
  <1>4. c \in Positions /\ c # 0 /\ ws[c].name = r /\ schemas[s] \in Positions /\ ws[schemas[s]].name = s
    BY <1>2, <1>3, LoadedFinite DEF Loaded, Readable
  <1>5. PICK l : l = Resources(r)
    OBVIOUS
  <1>6. l \in Seq(Nodes) /\ l # <<NoNode>>
    <2>1. l \in Seq(Nodes)
      BY <1>1, <1>2, <1>5, ListRight DEF RightResources
    <2>2. ASSUME l = <<NoNode>> PROVE FALSE
      <3>1. Len(l) = 1 /\ l[1] = NoNode
        BY <2>2
      <3>2. NoNode \in Nodes
        BY <2>1, <3>1
      <3> QED
        BY <1>1, <3>2, NoNodeIsNone
    <2> QED
      BY <2>1, <2>2
  <1>7. memo'.resources = [t \in SchemaNames |-> IF t = r THEN l ELSE memo.resources[t]]
    <2>1. /\ memo = [up |-> memo.up, down |-> memo.down, resources |-> memo.resources]
          /\ memo.resources = [t \in SchemaNames |-> memo.resources[t]]
      BY DEF ResourcesInv
    <2>2. memo'.resources = [memo.resources EXCEPT ![r] = l]
      BY <1>1, <1>5, <2>1 DEF RememberResources
    <2> QED
      BY <1>2, <2>1, <2>2
  <1>8. Memoized(s)' /\ Resources(s)' = Resources(s)
    <2>1. CASE s = r
      <3>1. memo'.resources[s] = l
        BY <1>2, <1>7, <2>1
      <3> QED
        BY <1>5, <1>6, <2>1, <3>1 DEF Memoized, Resources
    <2>2. CASE s # r
      <3>1. memo'.resources[s] = memo.resources[s] /\ Memoized(s)
        BY <1>2, <1>7, <2>2 DEF Wired
      <3> QED
        BY <3>1 DEF Memoized, Resources
    <2> QED
      BY <2>1, <2>2
  <1>9. \A w : SeesEntity(s, w)' = SeesEntity(s, w)
    BY <1>1, <1>8, SameSees
  <1>10. EntitiesOf(s)' = EntitiesOf(s) /\ \A n : Decl(n)' = Decl(n)
    BY <1>1, SameTexts, SameObjects
  <1>11. \A n : SeenBy(s, n)' = SeenBy(s, n) /\ Unseen(s, n)' = Unseen(s, n)
    BY <1>9, <1>10 DEF SeenBy, Unseen
  <1>12. /\ Entities(c) \in Seq(Nodes) /\ Range(Entities(c)) = Elems(Entities(c))
         /\ \A n \in Elems(Entities(c)) : n[1] = c
    BY <1>1, <1>4, EntitiesTyped, RangeIsElems
  <1>13. /\ EntitiesOf(s) = Entities(schemas[s])
         /\ \A n \in Elems(EntitiesOf(s)) : n \in Nodes /\ n[1] = schemas[s]
    <2>1. EntitiesOf(s) = Entities(schemas[s])
      BY DEF EntitiesOf, Loaded
    <2>2. PICK d \in Positions : d = schemas[s]
      BY <1>4
    <2>3. Entities(d) \in Seq(Nodes) /\ \A n \in Elems(Entities(d)) : n[1] = d
      BY <1>1, EntitiesTyped
    <2>4. Elems(Entities(d)) \subseteq Nodes
      BY <2>3, ElemsTyped
    <2> QED
      BY <2>1, <2>2, <2>3, <2>4
  <1>14. ASSUME NEW n \in Elems(EntitiesOf(s))
         PROVE  Range(supers'[n]) = SeenBy(s, n) /\ (missing'[n] # <<>> <=> Unseen(s, n) # {})
    <2>1. CASE s = r
      <3>1. n \in Nodes /\ n \in Range(Entities(c))
        BY <1>12, <1>13, <1>14, <2>1
      <3>2. /\ supers'[n] = Written(Decl(n).supers, LAMBDA w : SeesEntity(s, w))
            /\ missing'[n] = Filtered(Decl(n).supers, Unseen(s, n))
        BY <1>1, <2>1, <3>1
      <3>3. /\ Range(Written(Decl(n).supers, LAMBDA w : SeesEntity(s, w))) = SeenBy(s, n)
            /\ Filtered(Decl(n).supers, Unseen(s, n)) # <<>> <=> Unseen(s, n) # {}
        BY <1>1, <3>1, WrittenSees
      <3> QED
        BY <3>2, <3>3
    <2>2. CASE s # r
      <3>1. n \in Nodes /\ n[1] # c
        BY <1>4, <1>13, <1>14, <2>2
      <3>2. n \notin Range(Entities(c))
        BY <1>12, <3>1
      <3>3. supers'[n] = supers[n] /\ missing'[n] = missing[n]
        BY <1>1, <3>1, <3>2
      <3>4. Wired(s)
        BY <2>2
      <3> QED
        BY <1>14, <3>3, <3>4 DEF Wired
    <2> QED
      BY <2>1, <2>2
  <1>15. \A n \in Elems(EntitiesOf(s)') : Range(supers'[n]) = SeenBy(s, n)' /\ (missing'[n] # <<>> <=> Unseen(s, n)' # {})
    BY <1>10, <1>11, <1>14
  <1> QED
    BY <1>8, <1>15 DEF Wired

LEMMA WireWired ==
    ASSUME ObjectsInv, InterfaceInv, ItemsInv, ResourcesInv, WireInv, WireSchema
    PROVE  WireInv'
  <1>1. /\ ws \in Workspaces /\ stage = "wire" /\ at \in DOMAIN Order /\ UNCHANGED ws /\ Advance(Len(Order))
    BY DEF WireSchema, ObjectsInv, texts
  <1>2. Order' = Order /\ Nodes' = Nodes
    BY <1>1, SameTexts
  <1>3. DOMAIN Order = 1..Len(Order) /\ Len(Order) \in Nat
    BY <1>1, OrderTyped
  <1>4. ASSUME NEW k \in 1..at PROVE Wired(Order[k])'
    <2>1. k \in DOMAIN Order /\ k \in Nat /\ at \in Nat
      BY <1>1, <1>3
    <2>2. PICK s : s = Order[k]
      OBVIOUS
    <2>3. s \in Loaded
      BY <1>1, <2>1, <2>2, OrderLoaded
    <2>4. s = Order[at] \/ Wired(s)
      <3>1. k = at \/ k \in 1..(at - 1)
        BY <2>1
      <3> QED
        BY <1>1, <2>2, <3>1 DEF WireInv
    <2>5. Wired(s)'
      BY <2>3, <2>4, OneWired
    <2>6. Order'[k] = s
      BY <1>2, <2>2
    <2> QED
      BY <2>5, <2>6
  <1>5. missing' = [n \in Nodes' |-> missing'[n]]
    BY <1>2 DEF WireSchema
  <1>6. \/ at < Len(Order) /\ at' = at + 1 /\ stage' = "wire"
        \/ at = Len(Order) /\ stage' = "enter"
    <2>1. stage' \in {"wire", "enter"}
      BY <1>1, ThenStage
    <2>2. CASE at < Len(Order)
      BY <1>1, <2>2 DEF Advance
    <2>3. CASE ~(at < Len(Order))
      <3>1. at = Len(Order)
        BY <1>1, <1>3, <2>3
      <3>2. stage' = Stages[CHOOSE i \in 2..Len(Stages) : Stages[i - 1] = stage]
        BY <1>1, <2>3 DEF Advance
      <3>3. stage' = "enter"
        <4>1. Len(Stages) = 6 /\ Stages[4] = "wire" /\ Stages[5] = "enter"
          BY DEF Stages
        <4>2. \A i \in 2..6 : Stages[i - 1] = "wire" <=> i = 5
          BY DEF Stages
        <4>3. PICK j : j = (CHOOSE i \in 2..6 : Stages[i - 1] = "wire")
          OBVIOUS
        <4>4. j = 5
          <5>1. 5 \in 2..6
            OBVIOUS
          <5> QED
            BY <4>2, <4>3, <5>1
        <4> QED
          BY <1>1, <3>2, <4>1, <4>3, <4>4
      <3> QED
        BY <3>1, <3>3
    <2> QED
      BY <2>2, <2>3
  <1>7. CASE at < Len(Order) /\ at' = at + 1 /\ stage' = "wire"
    <2>1. at' - 1 = at
      BY <1>1, <1>3, <1>7
    <2> QED
      BY <1>4, <1>5, <1>7, <2>1 DEF WireInv
  <1>8. CASE at = Len(Order) /\ stage' = "enter"
    BY <1>2, <1>3, <1>4, <1>5, <1>8 DEF WireInv
  <1> QED
    BY <1>6, <1>7, <1>8

\* Nothing else changes what the resolutions made, except a new build.
LEMMA OtherWired ==
    ASSUME WireInv, ws \in Workspaces, UNCHANGED <<ws, schemas, supers, missing>>,
           memo'.resources = memo.resources \/ stage' \notin {"wire", "enter", "built"},
           \/ stage' = stage /\ at' = at
           \/ stage' \notin {"wire", "enter", "built"}
           \/ stage = "enter" /\ stage' \in {"enter", "built"}
           \/ stage' = "wire" /\ at' = 1
    PROVE  WireInv'
  <1>1. Order' = Order /\ Nodes' = Nodes
    BY SameTexts
  <1>2. ASSUME NEW k, memo'.resources = memo.resources, Wired(Order[k]) PROVE Wired(Order[k])'
    <2>1. PICK s : s = Order[k]
      OBVIOUS
    <2>2. memo'.resources[s] = memo.resources[s]
      BY <1>2
    <2>3. Wired(s)'
      BY <1>2, <2>1, <2>2, SameWired
    <2> QED
      BY <1>1, <2>1, <2>3
  <1>3. missing' = [n \in Nodes' |-> missing'[n]]
    BY <1>1 DEF WireInv
  <1>4. 1..(1 - 1) = {}
    OBVIOUS
  <1>5. CASE stage' = stage /\ at' = at
    BY <1>1, <1>2, <1>3, <1>5 DEF WireInv
  <1>6. CASE stage' \notin {"wire", "enter", "built"}
    BY <1>3, <1>6 DEF WireInv
  <1>7. CASE stage = "enter" /\ stage' \in {"enter", "built"}
    BY <1>1, <1>2, <1>3, <1>7 DEF WireInv
  <1>8. CASE stage' = "wire" /\ at' = 1
    BY <1>3, <1>4, <1>8 DEF WireInv
  <1> QED
    BY <1>5, <1>6, <1>7, <1>8

LEMMA InitWired == Init => WireInv
  <1> SUFFICES ASSUME Init PROVE WireInv
    OBVIOUS
  <1>1. missing = [n \in Nodes |-> <<>>] /\ stage = "load"
    BY DEF Init, NothingKept, Nodes, Positions
  <1> QED
    BY <1>1 DEF WireInv

LEMMA NextWired ==
    ASSUME Serial, ObjectsInv, InterfaceInv, ItemsInv, ResourcesInv, WireInv, [Next]_vars
    PROVE  WireInv'
  <1>0. ws \in Workspaces
    BY DEF ObjectsInv
  <1>1. CASE UNCHANGED vars
    BY <1>0, <1>1, OtherWired DEF vars, texts, objects, memos
  <1>2. CASE Build
    <2>1. PICK w \in Edited : ws' = w /\ ClearObjects(w)
      BY <1>2 DEF Build
    <2>2. missing' = [n \in Nodes' |-> <<>>] /\ stage' = "load"
      BY <1>2, <2>1 DEF Build, ClearObjects, NothingKept, Nodes, Positions
    <2> QED
      BY <2>2 DEF WireInv
  <1>3. CASE LoadSchema
    <2>1. stage = "load" /\ Advance(Len(ws)) /\ ws' = ws /\ missing' = missing
      BY <1>3 DEF LoadSchema, texts
    <2>2. stage' \in {"load", "interface"}
      BY <2>1, ThenStage
    <2>3. Nodes' = Nodes
      BY <2>1, SameTexts
    <2> QED
      BY <2>1, <2>2, <2>3 DEF WireInv
  <1>4. CASE InterfaceSchema \/ Interrupt
    <2>1. UNCHANGED <<ws, schemas, supers, missing>>
      BY <1>4 DEF InterfaceSchema, Interrupt, texts, objects
    <2>2. stage' \in {"interface", "name", "stopped"}
      <3>1. CASE InterfaceSchema
        <4>1. stage = "interface" /\ Advance(Len(ws))
          BY <3>1 DEF InterfaceSchema
        <4> QED
          BY <4>1, ThenStage
      <3> QED
        BY <1>4, <3>1 DEF Interrupt
    <2> QED
      BY <1>0, <2>1, <2>2, OtherWired
  <1>5. CASE NameSupertypes
    <2>1. UNCHANGED <<ws, schemas, supers, missing, memo>> /\ stage = "name" /\ Advance(Len(ws))
      BY <1>5 DEF NameSupertypes, texts, memos
    <2>2. stage' \in {"name", "wire"}
      BY <2>1, ThenStage
    <2>3. stage' = "wire" => at' = 1
      BY <2>1, NextStage
    <2> QED
      BY <1>0, <2>1, <2>2, <2>3, OtherWired
  <1>6. CASE WireSchema
    BY <1>6, WireWired
  <1>7. CASE EnterSubtypes
    <2>1. UNCHANGED <<ws, schemas, supers, missing, memo>> /\ stage = "enter" /\ Advance(Len(Order))
      BY <1>7 DEF EnterSubtypes, texts, memos
    <2>2. stage' \in {"enter", "built"}
      BY <2>1, ThenStage
    <2> QED
      BY <1>0, <2>1, <2>2, OtherWired
  <1>8. ASSUME NEW i \in Positions, AskResources(i) PROVE WireInv'
    <2>1. Answers(i) /\ memo' = RememberResources(ws[i].name)
      BY <1>8 DEF AskResources
    <2>2. stage = "built" /\ UNCHANGED <<ws, stage, at, schemas, supers, missing>>
      BY <2>1, AskedWhenBuilt
    <2>3. Memoized(ws[i].name)
      <3>1. PICK k \in DOMAIN Order : Order[k] = ws[i].name
        BY <2>2, OrderLoaded
      <3>2. Wired(Order[k])
        BY <2>2, <3>1 DEF WireInv
      <3> QED
        BY <3>1, <3>2 DEF Wired
    <2>4. memo'.resources = memo.resources
      <3>1. PICK s : s = ws[i].name
        OBVIOUS
      <3>2. memo' = [memo EXCEPT !.resources[s] = memo.resources[s]]
        BY <2>1, <2>3, <3>1 DEF RememberResources, Resources
      <3>3. /\ memo = [up |-> memo.up, down |-> memo.down, resources |-> memo.resources]
            /\ memo.resources = [t \in SchemaNames |-> memo.resources[t]]
        BY DEF ResourcesInv
      <3> QED
        BY <3>2, <3>3
    <2> QED
      BY <1>0, <2>2, <2>4, OtherWired
  <1>9. ASSUME NEW n, AskGraph(n) \/ AskVisible(n) PROVE WireInv'
    <2>1. UNCHANGED <<ws, schemas, supers, missing, stage, at, memo>>
      BY <1>9 DEF AskGraph, AskVisible, Answers, texts, objects
    <2> QED
      BY <1>0, <2>1, OtherWired
  <1>10. ASSUME NEW n, NEW dir \in {"up", "down"}, AskRelatives(n, dir) PROVE WireInv'
    <2>1. PICK pool : memo' = [memo EXCEPT ![dir] = pool]
      BY <1>10 DEF AskRelatives
    <2>2. UNCHANGED <<ws, schemas, supers, missing, stage, at>>
      BY <1>10 DEF AskRelatives, Answers, texts, objects
    <2>3. memo'.resources = memo.resources
      <3>1. memo = [up |-> memo.up, down |-> memo.down, resources |-> memo.resources]
        BY DEF ResourcesInv
      <3> QED
        BY <2>1, <3>1
    <2> QED
      BY <1>0, <2>2, <2>3, OtherWired
  <1> QED
    BY <1>1, <1>2, <1>3, <1>4, <1>5, <1>6, <1>7, <1>8, <1>9, <1>10 DEF Next

----------------------------------------------------------------------------
(* Attributes: the objects and the syntax tree *)

\* The relation of the syntax tree.
AstUp == [m \in Nodes |-> AstSupers(m)]

LEMMA AstTyped ==
    ASSUME ObjectsInv, InterfaceInv, ItemsInv, ResourcesInv, stage = "built"
    PROVE  /\ AstUp \in [Nodes -> SUBSET Nodes] /\ \A m \in Nodes : AstUp[m] = AstSupers(m)
           /\ \A m \in Nodes : SchemaOf(m) \in Loaded /\ AstSupers(m) \subseteq ObjectsOf
  <1>1. ASSUME NEW m \in Nodes PROVE SchemaOf(m) \in Loaded /\ AstSupers(m) \subseteq ObjectsOf
    <2>1. PICK i \in Positions : SchemaOf(m) = ws[i].name
      BY TextsTyped DEF ObjectsInv, SchemaOf
    <2>2. SchemaOf(m) \in Loaded
      <3>1. PICK k \in DOMAIN Order : Order[k] = ws[i].name
        BY OrderLoaded
      <3> QED
        BY <2>1, <3>1, OrderLoaded
    <2>3. \A w : SeesEntity(SchemaOf(m), w) # NoNode => SeesEntity(SchemaOf(m), w) \in ObjectsOf
      BY <2>2, SeesObjects
    <2> QED
      BY <2>2, <2>3 DEF AstSupers
  <1>2. ObjectsOf \subseteq Nodes
    BY DEF ObjectsOf
  <1> QED
    BY <1>1, <1>2 DEF AstUp

\* Once the container is built an object has the supertypes of its syntax tree.
LEMMA ObjectsAgree ==
    ASSUME ObjectsInv, InterfaceInv, ItemsInv, ResourcesInv, WireInv, stage = "built", NEW n \in ObjectsOf
    PROVE  /\ Range(supers[n]) = AstSupers(n)
           /\ missing[n] # <<>> <=> \E w \in Range(Decl(n).supers) : SeesEntity(SchemaOf(n), w) = NoNode
  <1>1. n \in Nodes /\ n \in Elems(EntitiesOf(SchemaOf(n)))
    BY DEF ObjectsOf
  <1>2. PICK i \in Positions : SchemaOf(n) = ws[i].name
    BY <1>1, TextsTyped DEF ObjectsInv, SchemaOf
  <1>3. PICK k \in DOMAIN Order : Order[k] = ws[i].name
    BY OrderLoaded
  <1>4. Wired(SchemaOf(n))
    BY <1>2, <1>3 DEF WireInv
  <1> QED
    BY <1>1, <1>4 DEF Wired, SeenBy, Unseen, AstSupers

\* The function in AstLevels.
IsAstExpansion(expand) ==
    expand = [w \in (SUBSET Nodes) \X (SUBSET Nodes) |->
                 LET level == w[1]
                     past == w[2] \cup level
                 IN  IF level = {} THEN <<>>
                     ELSE <<level>> \o expand[<<(UNION {AstSupers(m) : m \in level}) \ past, past>>]]

LEMMA AstExpansionIsWalk ==
    ASSUME NEW f
    PROVE  IsAstExpansion(f) <=> IsWalk(f, Nodes, AstUp)
  <1>1. ASSUME NEW w \in Arguments(Nodes)
        PROVE  Beyond(AstUp, w[1], w[2] \cup w[1]) = (UNION {AstSupers(m) : m \in w[1]}) \ (w[2] \cup w[1])
    <2>1. w[1] \subseteq Nodes
      BY DEF Arguments
    <2>2. \A m \in w[1] : AstUp[m] = AstSupers(m)
      BY <2>1 DEF AstUp
    <2> QED
      BY <2>2 DEF Beyond
  <1> QED
    BY <1>1 DEF IsAstExpansion, IsWalk, Arguments

LEMMA AstLevelsReach ==
    ASSUME ws \in Workspaces, AstUp \in [Nodes -> SUBSET Nodes], NEW n \in Nodes
    PROVE  AstLevels(n) \in Seq(SUBSET Nodes) /\ UNION Range(AstLevels(n)) = Closure(AstUp, {n})
  <1> DEFINE F == CHOOSE expand : IsAstExpansion(expand)
  <1> PICK u : u = AstUp
    OBVIOUS
  <1>1. IsFiniteSet(Nodes) /\ u \in [Nodes -> SUBSET Nodes] /\ \A m \in Nodes : u[m] = AstSupers(m)
    BY NodesFinite DEF AstUp
  <1>2. ASSUME NEW f PROVE IsAstExpansion(f) <=> IsWalk(f, Nodes, u)
    BY AstExpansionIsWalk
  <1>3. IsWalk(F, Nodes, u)
    <2>1. PICK f : IsWalk(f, Nodes, u)
      BY <1>1, WalkExists
    <2>2. IsAstExpansion(f)
      BY <1>2, <2>1
    <2>3. IsAstExpansion(F)
      BY <2>2
    <2> HIDE DEF F
    <2> QED
      BY <1>2, <2>3
  <1>4. AstLevels(n) = F[<<{n}, {}>>]
    BY DEF AstLevels, IsAstExpansion
  <1> HIDE DEF F
  <1>5. {n} \in SUBSET Nodes /\ {} \in SUBSET Nodes
    OBVIOUS
  <1> PICK E : E = F[<<{n}, {}>>]
    OBVIOUS
  <1>6. Levelled(Nodes, u, {n}, {}, E)
    BY <1>1, <1>3, <1>5, WalkIsLevelled
  <1>7. PICK V \in SUBSET Nodes : V = UNION Range(Tail(E))
    <2>1. E \in Seq(SUBSET Nodes) /\ E # <<>>
      BY <1>6 DEF Levelled
    <2>2. Tail(E) \in Seq(SUBSET Nodes)
      BY <2>1, FirstAndRest
    <2>3. UNION Range(Tail(E)) \in SUBSET Nodes
      BY <2>2, UnionOfLevels
    <2> QED
      BY <2>3
  <1>8. PICK G : Levelled(Nodes, u, {n}, V, G)
    BY <1>1, <1>3, <1>5, WalkIsLevelled
  <1>9. BothWays(Nodes, u, u, n, E, V, G)
    BY <1>1, <1>6, <1>7, <1>8 DEF BothWays
  <1>10. UNION Range(E) = Closure(u, {n})
    <2>1. WhatBothWaysMake(u, u, n, E, G)
      BY ONLY <1>9, AboveAndBelow
    <2> QED
      BY ONLY <2>1 DEF WhatBothWaysMake
  <1> QED
    BY <1>4, <1>6, <1>10 DEF Levelled

LEMMA AttributesGathered ==
    ASSUME NEW E, NEW a
    PROVE  UNION Range(AttributesIn(E, a)) = UNION {AttributesOf(m, a) : m \in UNION Range(E)}
  <1> DEFINE A == AttributesIn(E, a)
             O(m) == AttributesOf(m, a)
  <1>1. /\ DOMAIN A = DOMAIN E /\ \A i \in DOMAIN E : A[i] = UNION {O(m) : m \in E[i]}
    BY DEF AttributesIn
  <1> HIDE DEF A, O
  <1>2. UNION Range(A) = UNION {O(m) : m \in UNION Range(E)}
    BY <1>1 DEF Range
  <1> QED
    BY <1>2 DEF A, O

\* Itself and all above it in the syntax tree.
LEMMA AllAbove ==
    ASSUME ws \in Workspaces, AstUp \in [Nodes -> SUBSET Nodes], NEW n \in Nodes
    PROVE  {n} \cup Reached(AstUp, n) = Closure(AstUp, {n})
  <1> PICK u \in [Nodes -> SUBSET Nodes] : u = AstUp
    OBVIOUS
  <1>1. IsFiniteSet(Nodes)
    BY NodesFinite
  <1>2. Reached(u, n) = Closure(u, u[n])
    BY <1>1, ReachedIsClosure
  <1>3. {n} \cup Closure(u, u[n]) = Closure(u, {n})
    BY ClosureOfOne
  <1> QED
    BY <1>2, <1>3

\* The object of an entity that is its own is one of its schema object.
LEMMA OwnObject ==
    ASSUME ObjectsInv, NEW n \in Nodes, Object(n) = n
    PROVE  n \in ObjectsOf
  <1> DEFINE L == EntitiesOf(SchemaOf(n))
             I == {i \in 1..Len(L) : Decl(L[i]).name = Decl(n).name}
  <1>1. L \in Seq(Nodes)
    <2>1. PICK s \in Positions : SchemaOf(n) = ws[s].name /\ ws[s].name \in SchemaNames
      BY TextsTyped DEF ObjectsInv, SchemaOf
    <2>2. CASE schemas[ws[s].name] = 0
      BY <2>1, <2>2, EmptySeq DEF EntitiesOf
    <2>3. CASE schemas[ws[s].name] # 0
      <3>1. schemas[ws[s].name] \in Positions
        BY <2>1, <2>3 DEF ObjectsInv
      <3> QED
        BY <2>1, <2>3, <3>1, EntitiesTyped DEF EntitiesOf, ObjectsInv
    <2> QED
      BY <2>2, <2>3
  <1>2. n = ElementAt(L, IF I # {} THEN Min(I) ELSE 0)
    BY DEF Object, Find, SelectInSeq
  <1>3. I \in SUBSET (1..Len(L)) /\ n # NoNode
    BY NoNodeIsNone DEF ObjectsInv
  <1> HIDE DEF I, L
  <1>4. n \in Elems(L)
    BY <1>1, <1>2, <1>3, FoundAmong
  <1> QED
    BY <1>4 DEF ObjectsOf, L

\* Where the kept levels, or those made now, lead.
LEMMA LevelsReach ==
    ASSUME ObjectsInv, InterfaceInv, ItemsInv, ResourcesInv, WireInv, LevelsInv, stage = "built", NEW n \in ObjectsOf
    PROVE  /\ UNION Range(NodesIn(n, LevelsOf(n), FALSE)) = Closure(AstUp, {n})
           /\ Closure(AstUp, {n}) \subseteq ObjectsOf
  <1>1. n \in Nodes /\ ObjectsOf \in SUBSET Nodes
    BY DEF ObjectsOf
  <1>2. Typed
    BY DEF Typed, ObjectsInv
  <1>3. KeptNearestFirst(n, LevelsOf(n))
    BY <1>1, <1>2, VisibleIsNearestFirst DEF LevelsOf, LevelsInv
  <1>4. UNION Range(NodesIn(n, LevelsOf(n), FALSE)) = {n} \cup Relatives(n, "up")
    BY <1>3 DEF KeptNearestFirst, NearestFirst, NodesIn
  <1> PICK f \in [Nodes -> SUBSET Nodes] : f = NextOf("up") /\ \A m \in Nodes : f[m] = Range(supers[m])
    BY <1>2, NeighboursTyped DEF Neighbours
  <1> PICK g \in [Nodes -> SUBSET Nodes] : g = AstUp /\ \A m \in Nodes : g[m] = AstSupers(m) /\ AstSupers(m) \subseteq ObjectsOf
    BY AstTyped
  <1>5. {n} \cup Relatives(n, "up") = Closure(f, {n})
    <2>1. Relatives(n, "up") = Closure(f, f[n])
      BY <1>1, <1>2, RelativesAreClosed
    <2>2. {n} \cup Closure(f, f[n]) = Closure(f, {n})
      BY <1>1, ClosureOfOne
    <2> QED
      BY <2>1, <2>2
  <1>6. \A m \in ObjectsOf : f[m] = g[m] /\ g[m] \subseteq ObjectsOf
    BY <1>1, ObjectsAgree
  <1>7. Closure(f, {n}) = Closure(g, {n}) /\ Closure(g, {n}) \subseteq ObjectsOf
    <2> PICK O \in SUBSET Nodes : O = ObjectsOf
      BY <1>1
    <2>1. n \in O
      OBVIOUS
    <2>2. AgreeOn(Nodes, f, g, O)
      BY <1>6 DEF AgreeOn
    <2>3. Closure(f, {n}) = Closure(g, {n}) /\ Closure(g, {n}) \subseteq O
      BY ONLY <2>1, <2>2, ClosuresAgree
    <2> QED
      BY <2>3
  <1> QED
    BY <1>4, <1>5, <1>7

LEMMA AttributesAreFound ==
    ObjectsInv /\ InterfaceInv /\ ItemsInv /\ ResourcesInv /\ WireInv /\ LevelsInv => AttributesAreInherited
  <1> SUFFICES ASSUME ObjectsInv, InterfaceInv, ItemsInv, ResourcesInv, WireInv, LevelsInv, stage = "built",
                      NEW n \in Nodes, NEW all, all = {n} \cup Reached(AstUp, n)
               PROVE  /\ \A a : UNION Range(AttributeCandidates(n, a, FALSE))
                                   = UNION {AttributesOf(m, a) : m \in all}
                      /\ HasUnresolvedSupertypes(n) <=>
                            \E m \in all : \E w \in Range(Decl(m).supers) : SeesEntity(SchemaOf(m), w) = NoNode
    BY DEF AttributesAreInherited, AstUp
  <1>0. ws \in Workspaces
    BY DEF ObjectsInv
  <1>1. AstUp \in [Nodes -> SUBSET Nodes]
    BY AstTyped
  <1>2. all = Closure(AstUp, {n})
    BY <1>0, <1>1, AllAbove
  <1>3. CASE Object(n) = n
    <2>1. n \in ObjectsOf
      BY <1>3, OwnObject
    <2> PICK E : E = NodesIn(n, LevelsOf(n), FALSE)
      OBVIOUS
    <2>2. UNION Range(E) = all /\ all \subseteq ObjectsOf
      BY <1>2, <2>1, LevelsReach
    <2>3. \A a : AttributeCandidates(n, a, FALSE) = AttributesIn(E, a)
      BY <1>3 DEF AttributeCandidates
    <2>4. \A m \in all : missing[m] # <<>> <=> \E w \in Range(Decl(m).supers) : SeesEntity(SchemaOf(m), w) = NoNode
      BY <2>2, ObjectsAgree
    <2>5. HasUnresolvedSupertypes(n) <=> \E m \in all : missing[m] # <<>>
      BY <1>3, <2>2 DEF HasUnresolvedSupertypes
    <2>6. \A a : UNION Range(AttributeCandidates(n, a, FALSE)) = UNION {AttributesOf(m, a) : m \in all}
      BY <2>2, <2>3, AttributesGathered
    <2> QED
      BY <2>4, <2>5, <2>6
  <1>4. CASE Object(n) # n
    <2> PICK E : E = AstLevels(n)
      OBVIOUS
    <2>1. UNION Range(E) = all
      BY <1>0, <1>1, <1>2, AstLevelsReach
    <2>2. \A a : AttributeCandidates(n, a, FALSE) = AttributesIn(E, a)
      BY <1>4 DEF AttributeCandidates
    <2>3. HasUnresolvedSupertypes(n) <=>
             \E m \in all : \E w \in Range(Decl(m).supers) : SeesEntity(SchemaOf(m), w) = NoNode
      BY <1>4, <2>1 DEF HasUnresolvedSupertypes
    <2>4. \A a : UNION Range(AttributeCandidates(n, a, FALSE)) = UNION {AttributesOf(m, a) : m \in all}
      BY <2>1, <2>2, AttributesGathered
    <2> QED
      BY <2>3, <2>4
  <1> QED
    BY <1>3, <1>4

\* However the SUBTYPE OF clauses cross schemas or are cyclic, and whatever was
\* asked before: once the container is built, when it answers nothing while it is,
\* the candidates for an attribute name are the attributes of that name which an
\* entity has or inherits, whether its object is asked or, for a text whose name is
\* another's, the syntax tree, and a supertype that nothing declares is noticed
\* wherever it is written above the entity.
THEOREM AttributesInherited ==
    ASSUME Serial
    PROVE  Spec => []AttributesAreInherited
  <1>1. ObjectsInv /\ InterfaceInv /\ [Next]_vars => InterfaceInv'
    BY NextInterface
  <1>2. ObjectsInv /\ InterfaceInv /\ ItemsInv /\ [Next]_vars => ItemsInv'
    BY NextItems
  <1>3. ObjectsInv /\ InterfaceInv /\ ResourcesInv /\ [Next]_vars => ResourcesInv'
    BY NextResources
  <1>4. ObjectsInv /\ InterfaceInv /\ ItemsInv /\ ResourcesInv /\ WireInv /\ [Next]_vars => WireInv'
    BY NextWired
  <1>5. ObjectsInv /\ LevelsInv /\ [Next]_vars => LevelsInv'
    BY NextLevels
  <1> QED
    BY <1>1, <1>2, <1>3, <1>4, <1>5, InitInterface, InitItems, InitResources, InitWired, InitLevels,
       AttributesAreFound, ObjectsInvariance, PTL DEF Spec

----------------------------------------------------------------------------
(* References: the caches *)

MemoShape ==
    /\ memo = [up |-> memo.up, down |-> memo.down, resources |-> memo.resources]
    /\ memo.resources = [t \in SchemaNames |-> memo.resources[t]]

\* The scope of a schema is cached after the container kept its resources; what
\* is cached is what is made now.
CachesInv ==
    /\ MemoShape
    /\ DOMAIN interfaces \subseteq SchemaNames
    /\ \A s \in DOMAIN interfaces : Memoized(s) /\ interfaces[s] = Symbols(ByKind(memo.resources[s]))
    /\ \A type \in ReferenceTypes : \A longForm \in BOOLEAN :
          GlobalKey(type, longForm) \in DOMAIN globals =>
             globals[GlobalKey(type, longForm)] = [list |-> Index(type), longForm |-> longForm]

LEMMA RememberedStays ==
    ASSUME MemoShape, NEW t, memo' = RememberResources(t)
    PROVE  /\ MemoShape'
           /\ \A s \in SchemaNames : Memoized(s) => memo'.resources[s] = memo.resources[s]
  <1> PICK r : r = Resources(t)
    OBVIOUS
  <1>1. memo' = [memo EXCEPT !.resources[t] = r]
    BY DEF RememberResources
  <1>2. memo' = [up |-> memo.up, down |-> memo.down, resources |-> [memo.resources EXCEPT ![t] = r]]
    BY <1>1 DEF MemoShape
  <1>3. /\ memo'.resources = [memo.resources EXCEPT ![t] = r]
        /\ memo' = [up |-> memo'.up, down |-> memo'.down, resources |-> memo'.resources]
    BY <1>2
  <1>4. memo'.resources = [s \in SchemaNames |-> memo'.resources[s]]
    BY <1>3 DEF MemoShape
  <1>5. MemoShape'
    BY <1>3, <1>4 DEF MemoShape
  <1>6. ASSUME NEW s \in SchemaNames, Memoized(s) PROVE memo'.resources[s] = memo.resources[s]
    <2>1. CASE s = t
      BY <1>3, <1>6, <2>1 DEF Resources, MemoShape
    <2>2. CASE s # t
      BY <1>3, <2>2 DEF MemoShape
    <2> QED
      BY <2>1, <2>2
  <1> QED
    BY <1>5, <1>6

\* A schema whose resources are kept is not asked anything new.
LEMMA NothingToRemember ==
    ASSUME MemoShape, NEW s \in SchemaNames, Memoized(s)
    PROVE  RememberResources(s) = memo
  <1>1. RememberResources(s) = [memo EXCEPT !.resources[s] = memo.resources[s]]
    BY DEF RememberResources, Resources
  <1> QED
    BY <1>1 DEF MemoShape

LEMMA SameSymbols ==
    ASSUME ws' = ws
    PROVE  /\ \A list : Symbols(ByKind(list))' = Symbols(ByKind(list))
           /\ \A type \in ReferenceTypes : Index(type)' = Index(type)
  <1>1. \A list : Symbols(ByKind(list))' = Symbols(ByKind(list))
    BY DEF Symbols, ByKind, DeclSymbol, Decl, KindRank, Filtered, SelectInSeq
  <1>2. \A type : Index(type)' = Index(type)
    BY DEF Index, Exports, TextNodes, Symbols, FunSymbols, DeclSymbol, Decl, Positions, Accepted, Filtered
  <1> QED
    BY <1>1, <1>2

LEMMA KeptCaches ==
    ASSUME CachesInv, ws' = ws, interfaces' = interfaces, globals' = globals,
           memo' = memo \/ \E t : memo' = RememberResources(t)
    PROVE  CachesInv'
  <1>1. MemoShape' /\ \A s \in SchemaNames : Memoized(s) => memo'.resources[s] = memo.resources[s]
    <2>1. CASE memo' = memo
      BY <2>1 DEF CachesInv, MemoShape
    <2>2. ASSUME NEW t, memo' = RememberResources(t)
          PROVE  MemoShape' /\ \A s \in SchemaNames : Memoized(s) => memo'.resources[s] = memo.resources[s]
      BY <2>2, RememberedStays DEF CachesInv
    <2> QED
      BY <2>1, <2>2
  <1>2. ASSUME NEW s \in DOMAIN interfaces'
        PROVE  /\ s \in SchemaNames /\ Memoized(s)'
               /\ interfaces'[s] = Symbols(ByKind(memo.resources[s]))' 
    <2>1. s \in SchemaNames /\ Memoized(s) /\ interfaces'[s] = Symbols(ByKind(memo.resources[s]))
      BY <1>2 DEF CachesInv
    <2>2. PICK list : list = memo.resources[s]
      OBVIOUS
    <2>3. memo'.resources[s] = list
      BY <1>1, <2>1, <2>2
    <2>4. Symbols(ByKind(list))' = Symbols(ByKind(list))
      BY SameSymbols
    <2>5. Symbols(ByKind(memo.resources[s]))' = Symbols(ByKind(list))
      BY <2>3, <2>4
    <2> QED
      BY <2>1, <2>2, <2>3, <2>5 DEF Memoized
  <1>3. \A type \in ReferenceTypes : Index(type)' = Index(type)
    BY SameSymbols
  <1> HIDE DEF MemoShape
  <1> QED
    BY <1>1, <1>2, <1>3 DEF CachesInv, GlobalKey, ReferenceTypes

\* A plain reference asks the container for what its schema sees.
LEMMA LinkedIsAsked ==
    ASSUME CachesInv, NEW c, ws[c].name \in SchemaNames, NEW type, LinkPlain(c, type)
    PROVE  AskResources(c)
  <1> PICK s \in SchemaNames : s = ws[c].name
    OBVIOUS
  <1>1. memo' = RememberResources(s)
    <2>1. CASE s \in DOMAIN interfaces
      <3>1. memo' = memo /\ Memoized(s) /\ MemoShape
        BY <2>1 DEF LinkPlain, CachesInv
      <3> QED
        BY <3>1, NothingToRemember
    <2>2. CASE s \notin DOMAIN interfaces
      BY <2>2 DEF LinkPlain
    <2> QED
      BY <2>1, <2>2
  <1>2. Answers(c) /\ UNCHANGED <<graphs, key, levels>>
    BY DEF LinkPlain
  <1> QED
    BY <1>1, <1>2 DEF AskResources

LEMMA LinkingIsAsking ==
    ASSUME ws \in Workspaces, CachesInv, [LinkNext]_linkVars
    PROVE  [Next]_vars
  <1>1. CASE UNCHANGED linkVars
    BY <1>1 DEF linkVars, vars
  <1>2. CASE Relink
    BY <1>2 DEF Relink, Next
  <1>3. CASE Loading
    BY <1>3 DEF Loading, Next
  <1>4. ASSUME NEW c \in Positions, LinkNamed(c) PROVE Next
    BY <1>4 DEF LinkNamed, Next
  <1>5. ASSUME NEW c \in Positions, NEW type \in ReferenceTypes, LinkPlain(c, type) PROVE Next
    <2>1. ws[c].name \in SchemaNames
      BY TextsTyped
    <2>2. AskResources(c)
      BY <1>5, <2>1, LinkedIsAsked
    <2> QED
      BY <2>2 DEF Next
  <1>6. ASSUME NEW n \in Nodes, LinkGroup(n) \/ LinkAttribute(n) PROVE Next
    BY <1>6 DEF LinkGroup, LinkAttribute, Next
  <1> QED
    BY <1>1, <1>2, <1>3, <1>4, <1>5, <1>6 DEF LinkNext

LEMMA InitCaches == LinkInit => CachesInv
  <1> SUFFICES ASSUME LinkInit PROVE CachesInv
    OBVIOUS
  <1>1. DOMAIN globals = {} /\ DOMAIN interfaces = {}
    BY DEF LinkInit
  <1>2. MemoShape
    BY DEF LinkInit, Init, MemoShape, NothingKept
  <1> QED
    BY <1>1, <1>2 DEF CachesInv

\* The list of a request is kept for good.
LEMMA ListedForGood ==
    ASSUME ObjectsInv, InterfaceInv, NEW c \in Positions, Answers(c)
    PROVE  Resources(ws[c].name) # <<NoNode>>
  <1> PICK s \in SchemaNames : s = ws[c].name
    BY TextsTyped DEF ObjectsInv
  <1>1. s \in Loaded
    BY DEF Answers, ObjectsInv, Loaded
  <1>2. Readable
    BY DEF ObjectsInv, InterfaceInv, Readable
  <1>3. AllResources(s) \in Seq(Nodes)
    BY <1>1, <1>2, AllResourcesRight
  <1>4. <<NoNode>> \notin Seq(Nodes)
    <2>1. NoNode \notin Nodes
      BY NoNodeIsNone DEF ObjectsInv
    <2> QED
      BY <2>1
  <1> QED
    BY <1>3, <1>4 DEF Resources, Memoized

LEMMA NextCaches ==
    ASSUME ObjectsInv, InterfaceInv, CachesInv, [LinkNext]_linkVars
    PROVE  CachesInv'
  <1>0. ws \in Workspaces
    BY DEF ObjectsInv
  <1>1. CASE UNCHANGED linkVars
    BY <1>1, KeptCaches DEF linkVars, vars, caches, texts, memos
  <1>2. CASE Relink
    <2>1. PICK w : memo' = NothingKept(w).memo /\ globals' = <<>> /\ interfaces' = <<>>
      BY <1>2 DEF Relink, Build, ClearMemos
    <2>4. DOMAIN globals' = {} /\ DOMAIN interfaces' = {}
      BY <2>1
    <2>5. MemoShape'
      BY <2>1 DEF MemoShape, NothingKept
    <2> QED
      BY <2>4, <2>5 DEF CachesInv
  <1>3. CASE Loading
    <2>1. ws' = ws /\ globals' = globals /\ interfaces' = interfaces /\ (memo' = memo \/ memo' = RememberResources(Order[at]))
      BY <1>3 DEF Loading, LoadSchema, InterfaceSchema, NameSupertypes, WireSchema, EnterSubtypes, Interrupt,
                  texts, caches, memos
    <2> QED
      BY <2>1, KeptCaches
  <1>4. ASSUME NEW c \in Positions, LinkNamed(c) PROVE CachesInv'
    <2>1. ws' = ws /\ globals' = globals /\ interfaces' = interfaces /\ memo' = RememberResources(ws[c].name)
      BY <1>4 DEF LinkNamed, AskResources, Answers, texts, caches
    <2> QED
      BY <2>1, KeptCaches
  <1>5. ASSUME NEW c \in Positions, NEW type \in ReferenceTypes, LinkPlain(c, type) PROVE CachesInv'
    <2> PICK s \in SchemaNames : s = ws[c].name
      BY <1>0, TextsTyped
    <2>1. AskResources(c)
      BY <1>5, LinkedIsAsked
    <2>2. ws' = ws /\ memo' = RememberResources(s)
      BY <2>1 DEF AskResources, Answers, texts
    <2>3. MemoShape' /\ \A t \in SchemaNames : Memoized(t) => memo'.resources[t] = memo.resources[t]
      BY <2>2, RememberedStays DEF CachesInv
    <2>4. /\ globals' = With(globals, GlobalKey(type, LongForm(s)), GlobalScope(type, LongForm(s)))
          /\ interfaces' = With(interfaces, s, InterfaceScope(s))
      BY <1>5 DEF LinkPlain
    <2>5. PICK scope : scope = InterfaceScope(s)
      OBVIOUS
    <2>6. PICK list : list = Resources(s)
      OBVIOUS
    <2>7. memo'.resources[s] = list /\ list # <<NoNode>>
      <3>1. list # <<NoNode>>
        BY <2>1, <2>6, ListedForGood DEF AskResources
      <3>2. memo' = [memo EXCEPT !.resources[s] = list]
        BY <2>2, <2>6 DEF RememberResources
      <3> QED
        BY <3>1, <3>2 DEF CachesInv, MemoShape
    <2>8. scope = Symbols(ByKind(list))
      <3>1. CASE s \in DOMAIN interfaces
        BY <2>5, <2>6, <3>1 DEF InterfaceScope, CachesInv, Resources
      <3>2. CASE s \notin DOMAIN interfaces
        BY <2>5, <2>6, <3>2 DEF InterfaceScope, VisibleDeclarations
      <3> QED
        BY <3>1, <3>2
    <2>9. /\ DOMAIN interfaces' = {s} \cup DOMAIN interfaces /\ interfaces'[s] = scope
          /\ \A t \in DOMAIN interfaces : t # s => interfaces'[t] = interfaces[t]
      <3>1. PICK f, g : f = interfaces /\ g = interfaces'
        <4>1. \E f : \E g : f = interfaces /\ g = interfaces'
          OBVIOUS
        <4> QED
          BY <4>1
      <3>2. g = With(f, s, scope)
        BY <2>4, <2>5, <3>1
      <3>3. DOMAIN g = {s} \cup DOMAIN f /\ g[s] = scope /\ \A t \in DOMAIN f : t # s => g[t] = f[t]
        BY ONLY <3>2 DEF With
      <3> QED
        BY <3>1, <3>3
    <2>10. ASSUME NEW t \in DOMAIN interfaces'
           PROVE  t \in SchemaNames /\ Memoized(t)' /\ interfaces'[t] = Symbols(ByKind(memo.resources[t]))'
      <3>1. PICK kept_t : /\ kept_t = memo'.resources[t] /\ kept_t # <<NoNode>> /\ t \in SchemaNames
                          /\ interfaces'[t] = Symbols(ByKind(kept_t))
        <4>1. CASE t = s
          BY <2>7, <2>8, <2>9, <4>1
        <4>2. CASE t # s
          <5>1. /\ t \in DOMAIN interfaces /\ t \in SchemaNames /\ Memoized(t)
                /\ interfaces[t] = Symbols(ByKind(memo.resources[t]))
            BY <2>9, <2>10, <4>2 DEF CachesInv
          <5>2. memo'.resources[t] = memo.resources[t] /\ interfaces'[t] = interfaces[t]
            BY <2>3, <2>9, <4>2, <5>1
          <5> QED
            BY <5>1, <5>2 DEF Memoized
        <4> QED
          BY <4>1, <4>2
      <3>2. Symbols(ByKind(kept_t))' = Symbols(ByKind(kept_t))
        BY <2>2, SameSymbols
      <3>3. Symbols(ByKind(memo.resources[t]))' = Symbols(ByKind(kept_t))
        BY <3>1, <3>2
      <3> QED
        BY <3>1, <3>3 DEF Memoized
    <2>11. ASSUME NEW other \in ReferenceTypes, NEW form \in BOOLEAN, GlobalKey(other, form) \in DOMAIN globals'
           PROVE  globals'[GlobalKey(other, form)] = [list |-> Index(other), longForm |-> form]'
      <3>1. PICK k, v, f, g : k = GlobalKey(type, LongForm(s)) /\ v = GlobalScope(type, LongForm(s))
                                 /\ f = globals /\ g = globals'
        <4>1. \E k, v, f, g : k = GlobalKey(type, LongForm(s)) /\ v = GlobalScope(type, LongForm(s))
                                 /\ f = globals /\ g = globals'
          OBVIOUS
        <4> QED
          BY <4>1
      <3>2. DOMAIN g = {k} \cup DOMAIN f /\ g[k] = v /\ \A j \in DOMAIN f : j # k => g[j] = f[j]
        <4>1. g = With(f, k, v)
          BY <2>4, <3>1
        <4> QED
          BY ONLY <4>1 DEF With
      <3>3. globals'[GlobalKey(other, form)] = [list |-> Index(other), longForm |-> form]
        <4>1. CASE GlobalKey(other, form) = k
          <5>1. other = type /\ form = LongForm(s)
            BY <3>1, <4>1 DEF GlobalKey
          <5>2. v = [list |-> Index(other), longForm |-> form]
            BY <3>1, <5>1 DEF GlobalScope, CachesInv
          <5> QED
            BY <3>1, <3>2, <4>1, <5>2
        <4>2. CASE GlobalKey(other, form) # k
          BY <2>11, <3>1, <3>2, <4>2 DEF CachesInv
        <4> QED
          BY <4>1, <4>2
      <3>4. Index(other)' = Index(other)
        BY <2>2, SameSymbols
      <3> QED
        BY <3>3, <3>4
    <2>12. DOMAIN interfaces' \subseteq SchemaNames
      BY <2>9 DEF CachesInv
    <2> HIDE DEF MemoShape
    <2> QED
      BY <2>3, <2>10, <2>11, <2>12 DEF CachesInv, GlobalKey, ReferenceTypes
  <1>6. ASSUME NEW n \in Nodes, LinkGroup(n) \/ LinkAttribute(n) PROVE CachesInv'
    <2>1. ws' = ws /\ globals' = globals /\ interfaces' = interfaces /\ memo' = memo
      BY <1>6 DEF LinkGroup, LinkAttribute, AskGraph, AskVisible, Answers, texts, caches
    <2> QED
      BY <2>1, KeptCaches
  <1> QED
    BY <1>1, <1>2, <1>3, <1>4, <1>5, <1>6 DEF LinkNext

LEMMA CachesInvariance == LinkSpec => [](ObjectsInv /\ InterfaceInv /\ CachesInv)
  <1>1. LinkInit => ObjectsInv /\ InterfaceInv /\ CachesInv
    BY InitObjects, InitInterface, InitCaches DEF LinkInit
  <1>2. ObjectsInv /\ InterfaceInv /\ CachesInv /\ [LinkNext]_linkVars
          => ObjectsInv' /\ InterfaceInv' /\ CachesInv'
    <2> SUFFICES ASSUME ObjectsInv, InterfaceInv, CachesInv, [LinkNext]_linkVars
                 PROVE  ObjectsInv' /\ InterfaceInv' /\ CachesInv'
      OBVIOUS
    <2>1. [Next]_vars
      BY LinkingIsAsking DEF ObjectsInv
    <2> QED
      BY <2>1, NextObjects, NextInterface, NextCaches
  <1> QED
    BY <1>1, <1>2, PTL DEF LinkSpec

\* The scope provider uses the container as it may be used: whatever it takes from
\* its caches, every step of linking is a build, a request or nothing to the type
\* container.  A reference whose scope is cached asks for resources that are kept.
THEOREM LinkingUsesContainer == LinkSpec => Spec
  <1>1. LinkInit => Init
    BY DEF LinkInit
  <1>2. ObjectsInv /\ CachesInv /\ [LinkNext]_linkVars => [Next]_vars
    BY LinkingIsAsking DEF ObjectsInv
  <1> QED
    BY <1>1, <1>2, CachesInvariance, PTL DEF LinkSpec, Spec

----------------------------------------------------------------------------
(* The case rule *)

InExact(S, name) == {y \in S : y.name = name}
InAnyCase(S, name, longForm) == {y \in S : FoldsCase(y.kind, longForm) /\ SameIgnoringCase(y.name, name)}
Best(S, name, longForm) == IF InExact(S, name) # {} THEN InExact(S, name) ELSE InAnyCase(S, name, longForm)

\* The first element of a list at one of some places.
LEMMA FirstSymbol ==
    ASSUME NEW q, IsList(q), NEW I \in SUBSET (1..Len(q)), NEW y, y = SymbolIn(q, IF I # {} THEN Min(I) ELSE 0)
    PROVE  /\ I = {} => y = None
           /\ I # {} => \E i \in I : y = q[i] /\ \A j \in I : i <= j
  <1>1. CASE I = {}
    BY <1>1 DEF SymbolIn
  <1>2. CASE I # {}
    <2>1. I \in SUBSET Nat
      BY ListFacts
    <2>2. \E i \in I : \A j \in I : i <= j
      BY <1>2, <2>1, LeastNatural
    <2>3. PICK i \in I : i = Min(I) /\ \A j \in I : i <= j
      BY <2>2 DEF Min
    <2>4. i # 0
      BY ListFacts
    <2> QED
      BY <1>2, <2>3, <2>4 DEF SymbolIn
  <1> QED
    BY <1>1, <1>2

\* One layer: the first of the best there is.
LEMMA LookupIsBest ==
    ASSUME NEW q, IsList(q), None \notin Range(q), NEW name, NEW longForm, NEW y, y = Lookup(q, name, longForm)
    PROVE  /\ y = None <=> Best(Range(q), name, longForm) = {}
           /\ y # None => /\ y \in Best(Range(q), name, longForm)
                          /\ \E i \in 1..Len(q) : /\ y = q[i]
                                                  /\ \A j \in 1..Len(q) : q[j] \in Best(Range(q), name, longForm) => i <= j
  <1> DEFINE X == {i \in 1..Len(q) : q[i].name = name}
             A == {i \in 1..Len(q) : FoldsCase(q[i].kind, longForm) /\ SameIgnoringCase(q[i].name, name)}
             x == SymbolIn(q, IF X # {} THEN Min(X) ELSE 0)
             a == SymbolIn(q, IF A # {} THEN Min(A) ELSE 0)
  <1>1. y = Otherwise(x, a)
    BY DEF Lookup, FirstOf, SelectInSeq
  <1>2. /\ X = {} => x = None
        /\ X # {} => \E i \in X : x = q[i] /\ \A j \in X : i <= j
    <2> HIDE DEF X
    <2>1. X \in SUBSET (1..Len(q))
      BY DEF X
    <2> QED
      BY <2>1, FirstSymbol
  <1>3. /\ A = {} => a = None
        /\ A # {} => \E i \in A : a = q[i] /\ \A j \in A : i <= j
    <2> HIDE DEF A
    <2>1. A \in SUBSET (1..Len(q))
      BY DEF A
    <2> QED
      BY <2>1, FirstSymbol
  <1> HIDE DEF x, a
  <1>4. \A i \in 1..Len(q) : q[i] \in Range(q) /\ q[i] # None
    BY ListFacts
  <1>5. Range(q) = {q[i] : i \in 1..Len(q)}
    BY ListFacts DEF Elems
  <1>6. InExact(Range(q), name) = {q[i] : i \in X}
    BY <1>4, <1>5 DEF InExact
  <1>7. InAnyCase(Range(q), name, longForm) = {q[i] : i \in A}
    BY <1>4, <1>5 DEF InAnyCase
  <1>8. /\ \A j \in 1..Len(q) : q[j] \in {q[i] : i \in X} => j \in X
        /\ \A j \in 1..Len(q) : q[j] \in {q[i] : i \in A} => j \in A
    OBVIOUS
  <1>9. X \subseteq 1..Len(q) /\ A \subseteq 1..Len(q)
    OBVIOUS
  <1> HIDE DEF X, A
  <1>10. CASE X # {}
    <2>1. PICK i \in X : x = q[i] /\ \A j \in X : i <= j
      BY <1>2, <1>10
    <2>2. y = x /\ y # None
      BY <1>1, <1>4, <1>9, <2>1 DEF Otherwise
    <2>3. Best(Range(q), name, longForm) = {q[k] : k \in X}
      BY <1>6, <1>10 DEF Best
    <2> QED
      BY <1>8, <1>9, <2>1, <2>2, <2>3
  <1>11. CASE X = {} /\ A # {}
    <2>1. PICK i \in A : a = q[i] /\ \A j \in A : i <= j
      BY <1>3, <1>11
    <2>2. y = a /\ y # None
      BY <1>1, <1>2, <1>4, <1>9, <1>11, <2>1 DEF Otherwise
    <2>3. Best(Range(q), name, longForm) = {q[k] : k \in A}
      BY <1>6, <1>7, <1>11 DEF Best
    <2> QED
      BY <1>8, <1>9, <2>1, <2>2, <2>3
  <1>12. CASE X = {} /\ A = {}
    <2>1. y = None
      BY <1>1, <1>2, <1>3, <1>12 DEF Otherwise
    <2>2. Best(Range(q), name, longForm) = {}
      BY <1>6, <1>7, <1>12 DEF Best
    <2> QED
      BY <2>1, <2>2
  <1> QED
    BY <1>10, <1>11, <1>12

\* What is best among fewer symbols that have all the kinds and names.
LEMMA BestAlike ==
    ASSUME NEW S, NEW T, S \subseteq T, \A y \in T : \E z \in S : z.kind = y.kind /\ z.name = y.name,
           NEW name, NEW longForm
    PROVE  /\ Best(S, name, longForm) \subseteq Best(T, name, longForm)
           /\ Best(S, name, longForm) = {} <=> Best(T, name, longForm) = {}
  <1>1. InExact(S, name) \subseteq InExact(T, name) /\ (InExact(S, name) = {} <=> InExact(T, name) = {})
    BY DEF InExact
  <1>2. /\ InAnyCase(S, name, longForm) \subseteq InAnyCase(T, name, longForm)
        /\ InAnyCase(S, name, longForm) = {} <=> InAnyCase(T, name, longForm) = {}
    BY DEF InAnyCase
  <1> QED
    BY <1>1, <1>2 DEF Best

BestOf(S, type, name, longForm) == Best({y \in S : y.kind \in Accepts[type]}, name, longForm)

LEMMA AcceptedSymbols ==
    ASSUME NEW q, IsList(q), NEW type \in ReferenceTypes
    PROVE  /\ IsList(Accepted(q, type)) /\ Range(Accepted(q, type)) = {y \in Range(q) : y.kind \in Accepts[type]}
           /\ None \notin Range(Accepted(q, type))
  <1> PICK M : M = Range(q)
    OBVIOUS
  <1> DEFINE S == {y \in Range(q) : y.kind \in Accepts[type]}
  <1>1. q \in Seq(M)
    BY DEF IsList
  <1>2. Filtered(q, S) \in Seq(M) /\ Elems(Filtered(q, S)) = Elems(q) \cap S
    <2> HIDE DEF S
    <2> QED
      BY <1>1, FilteredTyped
  <1>3. Accepted(q, type) = Filtered(q, S)
    BY DEF Accepted
  <1>4. Elems(q) = Range(q)
    BY ListFacts
  <1>5. None \notin S
    BY DEF None, Accepts, ReferenceTypes
  <1> HIDE DEF S
  <1>6. IsList(Accepted(q, type)) /\ Range(Accepted(q, type)) = Elems(q) \cap S
    BY <1>2, <1>3, SequencesAreLists
  <1>7. S \subseteq Range(q)
    BY DEF S
  <1>8. Range(Accepted(q, type)) = S
    BY <1>4, <1>6, <1>7
  <1> QED
    BY <1>5, <1>6, <1>8 DEF S

\* A layer gives one of its best.
LEMMA LayerIsBest ==
    ASSUME NEW q, IsList(q), NEW type \in ReferenceTypes, NEW name, NEW longForm,
           NEW y, y = Lookup(Accepted(q, type), name, longForm)
    PROVE  /\ y = None <=> BestOf(Range(q), type, name, longForm) = {}
           /\ y # None => y \in BestOf(Range(q), type, name, longForm)
  <1> PICK a : a = Accepted(q, type)
    OBVIOUS
  <1>1. IsList(a) /\ Range(a) = {z \in Range(q) : z.kind \in Accepts[type]} /\ None \notin Range(a)
    BY AcceptedSymbols
  <1>2. /\ y = None <=> Best(Range(a), name, longForm) = {}
        /\ y # None => y \in Best(Range(a), name, longForm)
    <2>1. IsList(a) /\ None \notin Range(a) /\ y = Lookup(a, name, longForm)
      BY <1>1, AcceptedSymbols
    <2> QED
      BY ONLY <2>1, LookupIsBest
  <1> QED
    BY <1>1, <1>2 DEF BestOf

\* The innermost layer that has one.
FirstFound(hits) == FirstOf(hits, LAMBDA z : z # None)
Layered(layers, n) == n \in Nat /\ DOMAIN layers = 1..n /\ \A i \in 1..n : IsList(layers[i])
HitsIn(layers, type, name, longForm) ==
    [i \in DOMAIN layers |-> Lookup(Accepted(layers[i], type), name, longForm)]
FromInnermost(layers, n, type, name, longForm, y) ==
    /\ y = None <=> \A i \in 1..n : BestOf(Range(layers[i]), type, name, longForm) = {}
    /\ y # None => \E i \in 1..n : /\ y \in BestOf(Range(layers[i]), type, name, longForm)
                                   /\ \A j \in 1..n : BestOf(Range(layers[j]), type, name, longForm) # {} => i <= j

LEMMA InnermostIsBest ==
    ASSUME NEW layers, NEW n, Layered(layers, n), NEW type \in ReferenceTypes, NEW name, NEW longForm,
           NEW y, y = FirstFound(HitsIn(layers, type, name, longForm))
    PROVE  FromInnermost(layers, n, type, name, longForm, y)
  <1> PICK hits : hits = HitsIn(layers, type, name, longForm)
    OBVIOUS
  <1> DEFINE I == {i \in 1..Len(hits) : hits[i] # None}
             B(i) == BestOf(Range(layers[i]), type, name, longForm)
  <1>0. /\ n \in Nat /\ DOMAIN layers = 1..n /\ \A i \in 1..n : IsList(layers[i])
        /\ hits = [i \in 1..n |-> Lookup(Accepted(layers[i], type), name, longForm)]
    BY DEF Layered, HitsIn
  <1>1. IsList(hits) /\ Len(hits) = n
    BY <1>0, FunctionsAreLists
  <1>2. ASSUME NEW i \in 1..n PROVE (hits[i] = None <=> B(i) = {}) /\ (hits[i] # None => hits[i] \in B(i))
    <2> HIDE DEF B
    <2>1. PICK q, h : q = layers[i] /\ h = hits[i]
      <3>1. \E q, h : q = layers[i] /\ h = hits[i]
        OBVIOUS
      <3> QED
        BY <3>1
    <2>2. IsList(q) /\ h = Lookup(Accepted(q, type), name, longForm)
      BY <1>0, <2>1
    <2>3. /\ h = None <=> BestOf(Range(q), type, name, longForm) = {}
          /\ h # None => h \in BestOf(Range(q), type, name, longForm)
      BY <2>2, LayerIsBest
    <2> QED
      BY <2>1, <2>3 DEF B
  <1>3. y = SymbolIn(hits, IF I # {} THEN Min(I) ELSE 0)
    BY DEF FirstFound, FirstOf, SelectInSeq
  <1>4. I \in SUBSET (1..Len(hits)) /\ \A i \in 1..n : i \in I <=> hits[i] # None
    BY <1>1
  <1> HIDE DEF I, B
  <1>5. /\ I = {} => y = None
        /\ I # {} => \E i \in I : y = hits[i] /\ \A j \in I : i <= j
    BY ONLY <1>1, <1>3, <1>4, FirstSymbol
  <1>6. CASE I = {}
    <2>1. y = None /\ \A i \in 1..n : B(i) = {}
      BY <1>2, <1>4, <1>5, <1>6
    <2> QED
      BY <2>1 DEF B, FromInnermost
  <1>7. CASE I # {}
    <2>1. PICK i \in I : y = hits[i] /\ \A j \in I : i <= j
      BY <1>5, <1>7
    <2>2. i \in 1..n /\ y # None /\ y \in B(i)
      BY <1>1, <1>2, <1>4, <2>1
    <2>3. \A j \in 1..n : B(j) # {} => i <= j
      BY <1>2, <1>4, <2>1
    <2> QED
      BY <2>2, <2>3 DEF B, FromInnermost
  <1> QED
    BY <1>6, <1>7

----------------------------------------------------------------------------
(* The order of the index *)

LEMMA FilteredOrdered ==
    ASSUME NEW M, NEW tag \in [M -> Int], NEW q \in Seq(M), NEW S, Ordered(q, tag)
    PROVE  Ordered(Filtered(q, S), tag)
  <1> DEFINE Right(p) == Ordered(p, tag) => Ordered(Sifted(p, S), tag)
             P == {p \in Seq(M) : Right(p)}
  <1>1. <<>> \in P
    <2>1. <<>> \in Seq(M) /\ Sifted(<<>>, S) = <<>> /\ Len(<<>>) = 0 /\ 1..0 = {}
      BY SiftedNone, EmptySeq
    <2> QED
      BY <2>1 DEF Ordered
  <1>2. ASSUME NEW p \in Seq(M), NEW m \in M, p \in P PROVE Append(p, m) \in P
    <2>0. Sifted(Append(p, m), S) = IF m \in S THEN Append(Sifted(p, S), m) ELSE Sifted(p, S)
      BY SiftedAppend
    <2>1. PICK r \in Seq(M) : r = Append(p, m)
      <3>1. Append(p, m) \in Seq(M)
        OBVIOUS
      <3> QED
        BY <3>1
    <2>2. /\ Len(r) = Len(p) + 1 /\ Len(p) \in Nat /\ r[Len(p) + 1] = m
          /\ \A i \in 1..Len(p) : r[i] = p[i]
      BY <2>1
    <2>3. ASSUME Ordered(r, tag) PROVE Ordered(Sifted(r, S), tag)
      <3>1. Ordered(p, tag) /\ \A k \in Elems(p) : tag[k] <= tag[m]
        <4>1. \A i \in 1..Len(p) : i \in 1..Len(r) /\ Len(r) \in 1..Len(r) /\ i < Len(r)
          BY <2>2
        <4> QED
          BY <2>2, <2>3, <4>1 DEF Ordered, Elems
      <3>2. PICK f \in Seq(M) : f = Sifted(p, S) /\ Elems(f) = Elems(p) \cap S
        BY ElemsOfSifted
      <3>3. Ordered(f, tag) /\ \A k \in Elems(f) : tag[k] <= tag[m]
        BY <1>2, <3>1, <3>2
      <3>4. Sifted(r, S) = IF m \in S THEN Append(f, m) ELSE f
        BY <2>0, <2>1, <3>2
      <3>5. Ordered(Append(f, m), tag)
        <4>1. PICK g \in Seq(M) : g = Append(f, m)
          <5>1. Append(f, m) \in Seq(M)
            OBVIOUS
          <5> QED
            BY <5>1
        <4>2. /\ Len(g) = Len(f) + 1 /\ Len(f) \in Nat /\ g[Len(f) + 1] = m
              /\ \A i \in 1..Len(f) : g[i] = f[i] /\ f[i] \in Elems(f)
          BY <4>1 DEF Elems
        <4>3. \A i \in 1..Len(g) : g[i] \in M
          BY <4>1
        <4>4. ASSUME NEW i \in 1..Len(g), NEW j \in 1..Len(g), i < j PROVE tag[g[i]] <= tag[g[j]]
          <5>0. i \in Nat /\ j \in Nat /\ 1 <= i /\ 1 <= j /\ i < j /\ j <= Len(f) + 1 /\ Len(f) \in Nat
            BY <4>2, <4>4
          <5>1. i \in 1..Len(f) /\ (j \in 1..Len(f) \/ j = Len(f) + 1)
            BY ONLY <5>0, BeforeLast
          <5> QED
            BY <3>3, <4>2, <4>4, <5>1 DEF Ordered
        <4> QED
          BY <4>1, <4>4 DEF Ordered
      <3> QED
        BY <3>3, <3>4, <3>5
    <2> QED
      BY <2>1, <2>3
  <1>3. Seq(M) \subseteq P
    <2> HIDE DEF P
    <2> QED
      BY ONLY <1>1, <1>2, SequenceInduction
  <1>4. Filtered(q, S) = Sifted(q, S)
    BY FilteredIsSifted
  <1> QED
    BY <1>3, <1>4

----------------------------------------------------------------------------
(* The symbols of a text *)

LEMMA WhatTextsSay ==
    ASSUME ws \in Workspaces, NEW c \in Positions
    PROVE  /\ ws[c].funs \in Seq(Callables) /\ \A f \in DOMAIN ws[c].funs : \E M : ws[c].funs[f].vars \in Seq(M)
           /\ \A d \in DOMAIN ws[c].decls : /\ \E M : Decl(<<c, d>>).attrs \in Seq(M)
                                            /\ Decl(<<c, d>>).members \in Seq(Names)
  <1>1. ws[c] \in SchemaTexts
    BY TextsTyped
  <1>2. ws[c].funs \in Seq(Callables) /\ ws[c].decls \in Seq(Declarations)
    BY <1>1 DEF SchemaTexts
  <1>3. \A f \in DOMAIN ws[c].funs : ws[c].funs[f] \in Callables
    BY <1>2
  <1>4. \A d \in DOMAIN ws[c].decls : Decl(<<c, d>>) \in Declarations
    BY <1>2 DEF Decl
  <1>5. \A f \in DOMAIN ws[c].funs : \E M : ws[c].funs[f].vars \in Seq(M)
    BY <1>3 DEF Callables
  <1>6. \A d \in DOMAIN ws[c].decls : (\E M : Decl(<<c, d>>).attrs \in Seq(M)) /\ Decl(<<c, d>>).members \in Seq(Names)
    BY <1>4 DEF Declarations
  <1> QED
    BY <1>2, <1>5, <1>6

LEMMA AttributeSymbolsListed ==
    ASSUME ws \in Workspaces, NEW c \in Positions, NEW d \in DOMAIN ws[c].decls
    PROVE  IsList(AttributeSymbols(<<c, d>>)) /\ IsList(ItemSymbols(<<c, d>>))
  <1> PICK n : n = <<c, d>>
    OBVIOUS
  <1>1. PICK M : Decl(n).attrs \in Seq(M)
    BY WhatTextsSay
  <1>2. Decl(n).members \in Seq(Names)
    BY WhatTextsSay
  <1>3. IsList(AttributeSymbols(n))
    <2> PICK from \in Seq(M) : from = Decl(n).attrs
      BY <1>1
    <2> PICK q : q = AttributeSymbols(n)
      OBVIOUS
    <2>1. q = [i \in DOMAIN from |-> q[i]]
      BY DEF AttributeSymbols
    <2> QED
      BY <2>1, ListsMade
  <1>4. IsList(ItemSymbols(n))
    <2> PICK q : q = ItemSymbols(n)
      OBVIOUS
    <2>1. CASE Decl(n).kind # "EnumType"
      <3>1. q = <<>> /\ <<>> \in Seq(Names)
        BY <2>1, ElemsTyped DEF ItemSymbols
      <3> QED
        BY <3>1, SequencesAreLists
    <2>2. CASE Decl(n).kind = "EnumType"
      <3> PICK from \in Seq(Names) : from = Decl(n).members
        BY <1>2
      <3>1. q = [i \in DOMAIN from |-> q[i]]
        BY <2>2 DEF ItemSymbols
      <3> QED
        BY <3>1, ListsMade
    <2> QED
      BY <2>1, <2>2
  <1> QED
    BY <1>3, <1>4

LEMMA FunSymbolsListed ==
    ASSUME ws \in Workspaces, NEW c \in Positions
    PROVE  /\ IsList(FunSymbols(c)) /\ \A y \in Range(FunSymbols(c)) : y.id[1] = c
           /\ \A f \in DOMAIN ws[c].funs : IsList(VarSymbols(c, f))
  <1>1. ws[c].funs \in Seq(Callables)
    BY WhatTextsSay
  <1>2. IsList(FunSymbols(c))
    <2> PICK q : q = FunSymbols(c)
      OBVIOUS
    <2> PICK from \in Seq(Callables) : from = ws[c].funs
      BY <1>1
    <2>1. q = [i \in DOMAIN from |-> q[i]]
      BY DEF FunSymbols
    <2> QED
      BY <2>1, ListsMade
  <1>3. \A y \in Range(FunSymbols(c)) : y.id[1] = c
    <2>1. \A f \in DOMAIN ws[c].funs : FunSymbols(c)[f].id = <<c, 0, f>>
      BY DEF FunSymbols
    <2>2. DOMAIN FunSymbols(c) = DOMAIN ws[c].funs
      BY DEF FunSymbols
    <2>3. \A f : <<c, 0, f>>[1] = c
      OBVIOUS
    <2> QED
      BY <2>1, <2>2, <2>3 DEF Range
  <1>4. ASSUME NEW f \in DOMAIN ws[c].funs PROVE IsList(VarSymbols(c, f))
    <2>1. PICK M : ws[c].funs[f].vars \in Seq(M)
      BY WhatTextsSay
    <2> PICK from \in Seq(M) : from = ws[c].funs[f].vars
      BY <2>1
    <2> PICK q : q = VarSymbols(c, f)
      OBVIOUS
    <2>2. q = [i \in DOMAIN from |-> q[i]]
      BY DEF VarSymbols
    <2> QED
      BY <2>2, ListsMade
  <1> QED
    BY <1>2, <1>3, <1>4

LEMMA SymbolsListed ==
    ASSUME NEW M, NEW nodes \in Seq(M)
    PROVE  IsList(Symbols(nodes)) /\ Range(Symbols(nodes)) = {DeclSymbol(n) : n \in Range(nodes)}
  <1> PICK q : q = Symbols(nodes)
    OBVIOUS
  <1>1. q = [i \in DOMAIN nodes |-> q[i]]
    BY DEF Symbols
  <1>2. IsList(q)
    BY <1>1, ListsMade
  <1>3. Range(Symbols(nodes)) = {DeclSymbol(n) : n \in Range(nodes)}
    BY DEF Symbols, Range
  <1> QED
    BY <1>2, <1>3

\* What a document exports carries its position.
LEMMA ExportsListed ==
    ASSUME ws \in Workspaces, NEW c \in Positions
    PROVE  IsList(Exports(c)) /\ \A y \in Range(Exports(c)) : y.id[1] = c
  <1> DEFINE schema == [kind |-> "Schema", name |-> ws[c].name, id |-> <<c>>]
  <1>1. TextNodes(c) \in Seq(Nodes) /\ \A n \in Range(TextNodes(c)) : n[1] = c
    <2>1. DOMAIN ws[c].decls = 1..Len(ws[c].decls) /\ Len(ws[c].decls) \in Nat
      BY TextsTyped
    <2>2. TextNodes(c) \in [1..Len(ws[c].decls) -> Nodes]
      BY <2>1, TextsTyped DEF TextNodes
    <2>3. \A n \in Range(TextNodes(c)) : n[1] = c
      <3>1. DOMAIN TextNodes(c) = DOMAIN ws[c].decls /\ \A d \in DOMAIN ws[c].decls : TextNodes(c)[d] = <<c, d>>
        BY DEF TextNodes
      <3>2. \A d : <<c, d>>[1] = c
        OBVIOUS
      <3> QED
        BY <3>1, <3>2 DEF Range
    <2> QED
      BY <2>1, <2>2, <2>3, IsASeq
  <1>2. IsList(Symbols(TextNodes(c))) /\ \A y \in Range(Symbols(TextNodes(c))) : y.id[1] = c
    <2>1. IsList(Symbols(TextNodes(c))) /\ Range(Symbols(TextNodes(c))) = {DeclSymbol(n) : n \in Range(TextNodes(c))}
      BY <1>1, SymbolsListed
    <2> QED
      BY <1>1, <2>1 DEF DeclSymbol
  <1>3. IsList(FunSymbols(c)) /\ \A y \in Range(FunSymbols(c)) : y.id[1] = c
    BY FunSymbolsListed
  <1>4. IsList(<<schema>>) /\ Range(<<schema>>) = {schema} /\ schema.id[1] = c
    BY OneListed
  <1>5. Exports(c) = (<<schema>> \o Symbols(TextNodes(c))) \o FunSymbols(c)
    BY DEF Exports
  <1> PICK a, b, f : a = <<schema>> /\ b = Symbols(TextNodes(c)) /\ f = FunSymbols(c)
    <2>1. \E a, b, f : a = <<schema>> /\ b = Symbols(TextNodes(c)) /\ f = FunSymbols(c)
      OBVIOUS
    <2> QED
      BY <2>1
  <1>6. IsList(a \o b) /\ Range(a \o b) = Range(a) \cup Range(b)
    BY <1>2, <1>4, ListsConcat
  <1> PICK e : e = a \o b
    OBVIOUS
  <1>7. IsList(e \o f) /\ Range(e \o f) = Range(e) \cup Range(f)
    BY <1>3, <1>6, ListsConcat
  <1>8. Exports(c) = e \o f
    BY <1>5
  <1>9. \A y \in Range(e) \cup Range(f) : y.id[1] = c
    BY <1>2, <1>3, <1>4, <1>6
  <1> QED
    BY <1>7, <1>8, <1>9

LEMMA SchemaSymbolsListed ==
    ASSUME ws \in Workspaces, NEW c \in Positions
    PROVE  IsList(SchemaSymbols(c))
  <1> PICK n : n = Len(ws[c].decls)
    OBVIOUS
  <1>1. n \in Nat /\ DOMAIN ws[c].decls = 1..n
    BY TextsTyped
  <1> PICK qs : qs = [d \in DOMAIN ws[c].decls |-> <<DeclSymbol(<<c, d>>)>> \o ItemSymbols(<<c, d>>)]
    OBVIOUS
  <1>2. ASSUME NEW d \in 1..n PROVE IsList(qs[d])
    <2> PICK a, b : a = <<DeclSymbol(<<c, d>>)>> /\ b = ItemSymbols(<<c, d>>)
      <3>1. \E a, b : a = <<DeclSymbol(<<c, d>>)>> /\ b = ItemSymbols(<<c, d>>)
        OBVIOUS
      <3> QED
        BY <3>1
    <2>1. IsList(a) /\ IsList(b)
      BY <1>1, OneListed, AttributeSymbolsListed
    <2>2. IsList(a \o b)
      BY <2>1, ListsConcat
    <2> QED
      BY <1>1, <2>2
  <1>3. DOMAIN qs = 1..n /\ qs = [d \in 1..n |-> qs[d]]
    BY <1>1
  <1>4. IsList(FlattenSeq(qs))
    BY <1>1, <1>2, <1>3, ListsFlatten
  <1> PICK e, f : e = FlattenSeq(qs) /\ f = FunSymbols(c)
    <2>1. \E e, f : e = FlattenSeq(qs) /\ f = FunSymbols(c)
      OBVIOUS
    <2> QED
      BY <2>1
  <1>5. IsList(e) /\ IsList(f)
    BY <1>4, FunSymbolsListed
  <1>6. IsList(e \o f)
    BY <1>5, ListsConcat
  <1>7. SchemaSymbols(c) = e \o f
    BY DEF SchemaSymbols
  <1> QED
    BY <1>6, <1>7

\* A place is in a text of the workspace.
LEMMA PlacesTyped ==
    ASSUME ws \in Workspaces, NEW p \in Places
    PROVE  /\ p.text \in Positions
           /\ p.decl # 0 => p.decl \in DOMAIN ws[p.text].decls
           /\ p.fun # 0 => p.fun \in DOMAIN ws[p.text].funs
  <1>1. CASE \E n \in Nodes : p = [text |-> n[1], decl |-> n[2], fun |-> 0]
    <2> PICK n \in Nodes : p = [text |-> n[1], decl |-> n[2], fun |-> 0]
      BY <1>1
    <2>1. PICK t \in Positions : \E d \in DOMAIN ws[t].decls : n = <<t, d>>
      BY TextsTyped
    <2>2. PICK d \in DOMAIN ws[t].decls : n = <<t, d>>
      BY <2>1
    <2>3. p.text = t /\ p.decl = d /\ p.fun = 0
      BY <2>2
    <2> QED
      BY <2>3
  <1>2. CASE \E c \in Positions : \E f \in {0} \cup DOMAIN ws[c].funs : p = [text |-> c, decl |-> 0, fun |-> f]
    <2> PICK c \in Positions : \E f \in {0} \cup DOMAIN ws[c].funs : p = [text |-> c, decl |-> 0, fun |-> f]
      BY <1>2
    <2> PICK f \in {0} \cup DOMAIN ws[c].funs : p = [text |-> c, decl |-> 0, fun |-> f]
      OBVIOUS
    <2>1. p.text = c /\ p.decl = 0 /\ p.fun = f
      OBVIOUS
    <2> QED
      BY <2>1
  <1> QED
    BY <1>1, <1>2 DEF Places

LEMMA LayersListed ==
    ASSUME ws \in Workspaces, NEW p \in Places
    PROVE  \E n \in Nat : DOMAIN LocalLayers(p) = 1..n /\ \A i \in 1..n : IsList(LocalLayers(p)[i])
  <1> PICK t, d, f : t = p.text /\ d = p.decl /\ f = p.fun
    <2>1. \E t, d, f : t = p.text /\ d = p.decl /\ f = p.fun
      OBVIOUS
    <2> QED
      BY <2>1
  <1>1. /\ t \in Positions
        /\ d # 0 => d \in DOMAIN ws[t].decls
        /\ f # 0 => f \in DOMAIN ws[t].funs
    BY PlacesTyped
  <1> PICK x, y, z : x = AttributeSymbols(<<t, d>>) /\ y = VarSymbols(t, f) /\ z = SchemaSymbols(t)
    <2>1. \E x, y, z : x = AttributeSymbols(<<t, d>>) /\ y = VarSymbols(t, f) /\ z = SchemaSymbols(t)
      OBVIOUS
    <2> QED
      BY <2>1
  <1> DEFINE M == {q \in {x, y, z} : IsList(q)}
             a == IF d # 0 THEN <<x>> ELSE <<>>
             b == IF f # 0 THEN <<y>> ELSE <<>>
             c == <<z>>
  <1>2. (d # 0 => x \in M) /\ (f # 0 => y \in M) /\ z \in M
    BY <1>1, AttributeSymbolsListed, FunSymbolsListed, SchemaSymbolsListed
  <1>3. \A q \in M : IsList(q)
    OBVIOUS
  <1> HIDE DEF M
  <1>4. a \in Seq(M) /\ b \in Seq(M) /\ c \in Seq(M)
    BY <1>2
  <1>5. LocalLayers(p) = (a \o b) \o c
    BY DEF LocalLayers
  <1> HIDE DEF a, b, c
  <1>6. (a \o b) \o c \in Seq(M)
    BY <1>4
  <1> PICK l \in Seq(M) : l = LocalLayers(p)
    BY <1>5, <1>6
  <1>7. Len(l) \in Nat /\ DOMAIN l = 1..Len(l) /\ \A i \in 1..Len(l) : l[i] \in M
    OBVIOUS
  <1> QED
    BY <1>3, <1>7

\* Putting a list in the order of kinds loses nothing.
LEMMA ByKindKeeps ==
    ASSUME NEW list \in Seq(Nodes)
    PROVE  /\ \E M : ByKind(list) \in Seq(M)
           /\ Range(ByKind(list)) = Range(list)
  <1> DEFINE Ranked(r) == {n \in Range(list) : KindRank(list, Decl(n).kind) = r}
             qs == [r \in DOMAIN list |-> Filtered(list, Ranked(r))]
  <1>1. Len(list) \in Nat /\ DOMAIN list = 1..Len(list) /\ Range(list) = Elems(list)
    BY RangeIsElems
  <1>2. \A r \in 1..Len(list) : Filtered(list, Ranked(r)) \in Seq(Nodes)
                                /\ Elems(Filtered(list, Ranked(r))) = Elems(list) \cap Ranked(r)
    <2> HIDE DEF Ranked
    <2> QED
      BY FilteredTyped
  <1>3. ASSUME NEW n \in Range(list) PROVE \E r \in 1..Len(list) : n \in Ranked(r)
    <2> DEFINE I == {i \in 1..Len(list) : Decl(list[i]).kind = Decl(n).kind}
    <2>1. I # {}
      BY <1>1 DEF Elems
    <2>2. I \in SUBSET (1..Len(list))
      OBVIOUS
    <2>3. KindRank(list, Decl(n).kind) = Min(I)
      BY <2>1 DEF KindRank, SelectInSeq
    <2> HIDE DEF I
    <2>4. Min(I) \in 1..Len(list)
      BY <2>1, <2>2, FirstThat
    <2> QED
      BY <2>3, <2>4
  <1>4. ByKind(list) = FlattenSeq(qs)
    BY DEF ByKind
  <1>5. qs \in Seq(Seq(Nodes)) /\ Len(qs) = Len(list)
    <2>1. qs \in [1..Len(list) -> Seq(Nodes)]
      BY <1>1, <1>2
    <2> HIDE DEF qs
    <2> QED
      BY <1>1, <2>1, IsASeq, LenProperties
  <1>6. \A r \in 1..Len(list) : Elems(qs[r]) = Elems(list) \cap Ranked(r)
    BY <1>1, <1>2
  <1> HIDE DEF qs
  <1>7. /\ FlattenSeq(qs) \in Seq(Nodes)
        /\ \A n : n \in Elems(FlattenSeq(qs)) <=> \E r \in 1..Len(qs) : n \in Elems(qs[r])
    BY <1>5, ElemsOfFlatten
  <1>8. \A n : n \in Elems(FlattenSeq(qs)) <=> n \in Elems(list)
    <2> HIDE DEF Ranked
    <2> QED
      BY <1>1, <1>3, <1>5, <1>6, <1>7
  <1>9. Range(FlattenSeq(qs)) = Elems(FlattenSeq(qs))
    BY <1>7, RangeIsElems
  <1>10. Elems(FlattenSeq(qs)) = Elems(list)
    BY <1>8
  <1>11. Range(ByKind(list)) = Range(list) /\ ByKind(list) \in Seq(Nodes)
    BY <1>1, <1>4, <1>7, <1>9, <1>10
  <1> QED
    BY <1>11

\* The index: every declaration, documents in their order.
LEMMA IndexListed ==
    ASSUME ws \in Workspaces, NEW type \in ReferenceTypes
    PROVE  LET declared == UNION {Range(Exports(c)) : c \in Positions}
           IN  /\ IsList(Index(type)) /\ None \notin Range(Index(type))
               /\ Range(Index(type)) = {y \in declared : y.kind \in Accepts[type]}
               /\ \A i, j \in 1..Len(Index(type)) : i < j => Index(type)[i].id[1] <= Index(type)[j].id[1]
  <1> DEFINE declared == UNION {Range(Exports(c)) : c \in Positions}
             tag == [y \in declared |-> y.id[1]]
  <1> PICK n : n = Len(ws)
    OBVIOUS
  <1> PICK qs : qs = [i \in DOMAIN ws |-> Exports(i)]
    OBVIOUS
  <1>1. n \in Nat /\ DOMAIN ws = 1..n /\ Positions = 1..n
    BY TextsTyped DEF Positions
  <1>2. DOMAIN qs = 1..n /\ qs = [i \in 1..n |-> qs[i]] /\ \A i \in 1..n : qs[i] = Exports(i) /\ IsList(qs[i])
    BY <1>1, ExportsListed
  <1>3. \A i \in 1..n : Range(qs[i]) \subseteq declared /\ \A y \in Range(qs[i]) : y.id[1] = i
    BY <1>1, <1>2, ExportsListed
  <1>4. UNION {Range(qs[i]) : i \in 1..n} = declared
    BY <1>1, <1>2
  <1>5. \A y \in declared : y.id[1] \in Int
    BY <1>1, <1>3, <1>4
  <1>6. tag \in [declared -> Int] /\ \A y \in declared : tag[y] = y.id[1]
    BY <1>5
  <1> HIDE DEF declared
  <1>7. IsList(FlattenSeq(qs)) /\ Range(FlattenSeq(qs)) = declared
    <2>1. DOMAIN qs = 1..n /\ qs = [i \in 1..n |-> qs[i]] /\ \A i \in 1..n : IsList(qs[i])
      BY <1>2
    <2>2. IsList(FlattenSeq(qs)) /\ Range(FlattenSeq(qs)) = UNION {Range(qs[i]) : i \in 1..n}
      BY ONLY <1>1, <2>1, ListsFlatten
    <2> QED
      BY <1>4, <2>2
  <1>8. qs \in Seq(Seq(declared)) /\ Len(qs) = n /\ \A i \in 1..n : Elems(qs[i]) = Range(qs[i])
    <2>1. \A i \in 1..n : qs[i] \in Seq(declared) /\ Elems(qs[i]) = Range(qs[i])
      <3> TAKE i \in 1..n
      <3> PICK q : q = qs[i]
        OBVIOUS
      <3>1. IsList(q) /\ Range(q) \subseteq declared
        BY <1>2, <1>3
      <3>2. q \in Seq(Range(q)) /\ Range(q) = Elems(q)
        BY <3>1, ListFacts DEF IsList
      <3>3. q \in Seq(declared)
        BY <3>1, <3>2
      <3> QED
        BY <3>2, <3>3
    <2>2. qs \in [1..n -> Seq(declared)]
      BY <1>2, <2>1
    <2> QED
      BY <1>1, <2>1, <2>2, IsASeq, LenProperties
  <1>9. \A i \in 1..Len(qs) : \A y \in Elems(qs[i]) : tag[y] = i
    <2>1. \A i \in 1..n : \A y \in Range(qs[i]) : y \in declared /\ y.id[1] = i
      BY <1>3
    <2>2. \A i \in 1..n : \A y \in Range(qs[i]) : tag[y] = i
      BY <1>6, <2>1
    <2>3. Len(qs) = n /\ \A i \in 1..n : Elems(qs[i]) = Range(qs[i])
      BY <1>8
    <2> QED
      BY ONLY <2>2, <2>3
  <1> HIDE DEF tag
  <1> PICK all : all = FlattenSeq(qs)
    OBVIOUS
  <1>10. Ordered(all, tag)
    BY <1>6, <1>8, <1>9, FlattenOrdered
  <1>11. all \in Seq(declared) /\ IsList(all) /\ Range(all) = declared
    BY <1>7 DEF IsList
  <1>12. Index(type) = Accepted(all, type)
    BY DEF Index
  <1> PICK x : x = Index(type)
    OBVIOUS
  <1>13. IsList(x) /\ Range(x) = {y \in declared : y.kind \in Accepts[type]} /\ None \notin Range(x)
    BY <1>11, <1>12, AcceptedSymbols
  <1>14. Ordered(x, tag)
    <2>1. PICK S : S = {y \in Range(all) : y.kind \in Accepts[type]}
      OBVIOUS
    <2>2. x = Filtered(all, S)
      BY <1>12, <2>1 DEF Accepted
    <2> QED
      BY <1>6, <1>10, <1>11, <2>2, FilteredOrdered
  <1>15. \A i \in 1..Len(x) : tag[x[i]] = x[i].id[1]
    <2>1. \A i \in 1..Len(x) : x[i] \in declared
      BY <1>13, ListFacts
    <2> QED
      BY <1>6, <2>1
  <1>16. \A i, j \in 1..Len(x) : i < j => x[i].id[1] <= x[j].id[1]
    BY <1>14, <1>15 DEF Ordered
  <1> QED
    BY <1>13, <1>16 DEF declared

----------------------------------------------------------------------------
(* Plain references *)

\* Cached or not, the scopes of a schema and of the index are what is made now.
LEMMA ScopesAreCurrent ==
    ASSUME CachesInv, NEW s, NEW type \in ReferenceTypes, NEW longForm \in BOOLEAN
    PROVE  /\ InterfaceScope(s) = VisibleDeclarations(s)
           /\ GlobalScope(type, longForm) = [list |-> Index(type), longForm |-> longForm]
  <1>1. InterfaceScope(s) = VisibleDeclarations(s)
    <2>1. CASE s \in DOMAIN interfaces
      <3>1. Memoized(s) /\ interfaces[s] = Symbols(ByKind(memo.resources[s]))
        BY <2>1 DEF CachesInv
      <3> QED
        BY <2>1, <3>1 DEF InterfaceScope, VisibleDeclarations, Resources
    <2>2. CASE s \notin DOMAIN interfaces
      BY <2>2 DEF InterfaceScope
    <2> QED
      BY <2>1, <2>2
  <1>2. GlobalScope(type, longForm) = [list |-> Index(type), longForm |-> longForm]
    BY DEF GlobalScope, CachesInv
  <1> QED
    BY <1>1, <1>2

\* What a schema sees: symbols of what clause 11 makes visible, of every kind and
\* name among them.
LEMMA VisibleIsBest ==
    ASSUME ObjectsInv, InterfaceInv, ResourcesInv, stage = "built", NEW s \in Loaded,
           NEW type \in ReferenceTypes, NEW name, NEW longForm, NEW V, V = {DeclSymbol(n) : n \in SeenByClause11(s)},
           NEW R, R = Range(VisibleDeclarations(s))
    PROVE  /\ IsList(VisibleDeclarations(s))
           /\ BestOf(R, type, name, longForm) \subseteq BestOf(V, type, name, longForm)
           /\ BestOf(R, type, name, longForm) = {} <=> BestOf(V, type, name, longForm) = {}
  <1> PICK l : l = Resources(s)
    OBVIOUS
  <1>1. RightResources(s, l)
    BY ListRight
  <1>2. l \in Seq(Nodes) /\ Range(l) \subseteq SeenByClause11(s) /\ KeysOf(Range(l)) = KeysOf(SeenByClause11(s))
    BY <1>1 DEF RightResources
  <1>3. (\E M : ByKind(l) \in Seq(M)) /\ Range(ByKind(l)) = Range(l)
    BY <1>2, ByKindKeeps
  <1>4. IsList(Symbols(ByKind(l))) /\ Range(Symbols(ByKind(l))) = {DeclSymbol(n) : n \in Range(l)}
    BY <1>3, SymbolsListed
  <1>5. VisibleDeclarations(s) = Symbols(ByKind(l))
    BY DEF VisibleDeclarations
  <1>6. R = {DeclSymbol(n) : n \in Range(l)}
    BY <1>4, <1>5
  <1> DEFINE S == {y \in R : y.kind \in Accepts[type]}
             T == {y \in V : y.kind \in Accepts[type]}
  <1>7. S \subseteq T
    BY <1>2, <1>6
  <1>8. ASSUME NEW y \in T PROVE \E z \in S : z.kind = y.kind /\ z.name = y.name
    <2> PICK m \in SeenByClause11(s) : y = DeclSymbol(m)
      OBVIOUS
    <2>1. KeyOf(m) \in KeysOf(Range(l))
      BY <1>2 DEF KeysOf
    <2> PICK n \in Range(l) : KeyOf(n) = KeyOf(m)
      BY <2>1 DEF KeysOf
    <2>2. Decl(n).kind = Decl(m).kind /\ Decl(n).name = Decl(m).name
      BY DEF KeyOf
    <2>3. DeclSymbol(n) \in R /\ DeclSymbol(n).kind = y.kind /\ DeclSymbol(n).name = y.name
      BY <1>6, <2>2 DEF DeclSymbol
    <2>4. DeclSymbol(n) \in S
      BY <2>3
    <2> QED
      BY <2>3, <2>4
  <1> HIDE DEF S, T
  <1>9. /\ Best(S, name, longForm) \subseteq Best(T, name, longForm)
        /\ Best(S, name, longForm) = {} <=> Best(T, name, longForm) = {}
    BY <1>7, <1>8, BestAlike
  <1>10. BestOf(R, type, name, longForm) = Best(S, name, longForm) /\ BestOf(V, type, name, longForm) = Best(T, name, longForm)
    BY DEF BestOf, S, T
  <1> QED
    BY <1>4, <1>5, <1>9, <1>10

\* The index gives one of the best of the first document that has one.
LEMMA IndexIsBest ==
    ASSUME ws \in Workspaces, NEW type \in ReferenceTypes, NEW name, NEW longForm,
           NEW all, all = UNION {Range(Exports(c)) : c \in Positions},
           NEW y, y = Lookup(Index(type), name, longForm)
    PROVE  /\ y = None <=> BestOf(all, type, name, longForm) = {}
           /\ y # None => /\ y \in BestOf(all, type, name, longForm)
                          /\ \A z \in BestOf(all, type, name, longForm) : y.id[1] <= z.id[1]
  <1> PICK x : x = Index(type)
    OBVIOUS
  <1> PICK B : B = BestOf(all, type, name, longForm)
    OBVIOUS
  <1>1. /\ IsList(x) /\ None \notin Range(x) /\ Range(x) = {z \in all : z.kind \in Accepts[type]}
        /\ \A i, j \in 1..Len(x) : i < j => x[i].id[1] <= x[j].id[1]
    BY IndexListed
  <1>2. B = Best(Range(x), name, longForm)
    BY <1>1 DEF BestOf
  <1>3. /\ y = None <=> B = {}
        /\ y # None => /\ y \in B
                       /\ \E i \in 1..Len(x) : y = x[i] /\ \A j \in 1..Len(x) : x[j] \in B => i <= j
    <2>1. IsList(x) /\ None \notin Range(x) /\ y = Lookup(x, name, longForm)
      BY <1>1
    <2>2. /\ y = None <=> Best(Range(x), name, longForm) = {}
          /\ y # None => /\ y \in Best(Range(x), name, longForm)
                         /\ \E i \in 1..Len(x) :
                              /\ y = x[i]
                              /\ \A j \in 1..Len(x) : x[j] \in Best(Range(x), name, longForm) => i <= j
      BY ONLY <2>1, LookupIsBest
    <2> QED
      BY <1>2, <2>2
  <1>4. ASSUME y # None, NEW z \in B PROVE y.id[1] <= z.id[1]
    <2>1. PICK i \in 1..Len(x) : y = x[i] /\ \A j \in 1..Len(x) : x[j] \in B => i <= j
      BY <1>3, <1>4
    <2>2. B \subseteq Range(x)
      BY <1>2 DEF Best, InExact, InAnyCase
    <2>3. Len(x) \in Nat /\ Range(x) = {x[j] : j \in 1..Len(x)}
      BY <1>1, ListFacts DEF Elems
    <2>4. PICK j \in 1..Len(x) : z = x[j]
      BY <2>2, <2>3
    <2>5. i <= j
      BY <2>1, <2>4
    <2>6. CASE i < j
      BY <1>1, <2>1, <2>4, <2>6
    <2>7. CASE i = j
      <3>1. y.id[1] = z.id[1]
        BY <2>1, <2>4, <2>7
      <3>2. y.id[1] \in Int
        <4>1. y \in all
          BY <1>1, <2>1, ListFacts
        <4>2. PICK c \in Positions : y \in Range(Exports(c))
          BY <4>1
        <4>3. y.id[1] = c /\ c \in Int
          BY <4>2, ExportsListed, TextsTyped
        <4> QED
          BY <4>3
      <3> QED
        BY <3>1, <3>2
    <2> QED
      BY <2>3, <2>5, <2>6, <2>7
  <1> QED
    BY <1>3, <1>4

\* The layers of a plain reference one after the other.
LEMMA TargetIsScoped ==
    ASSUME ObjectsInv, InterfaceInv, ResourcesInv, CachesInv, stage = "built",
           NEW p \in Places, NEW type \in ReferenceTypes, NEW name,
           NEW target, target = PlainTarget(p, type, name),
           NEW locals, locals = [i \in DOMAIN LocalLayers(p) |-> BestOf(Range(LocalLayers(p)[i]), type, name, FormAt(p))],
           NEW inner, inner = {i \in DOMAIN locals : locals[i] # {}},
           NEW seen, seen = BestOf({DeclSymbol(n) : n \in SeenByClause11(SchemaAt(p))}, type, name, FormAt(p)),
           NEW foreign, foreign = BestOf(UNION {Range(Exports(c)) : c \in Positions}, type, name, FormAt(p))
    PROVE  /\ inner # {} => \E i \in inner : target \in locals[i] /\ \A j \in inner : i <= j
           /\ inner = {} /\ seen # {} => target \in seen
           /\ inner = {} /\ seen = {} /\ foreign # {} => target \in foreign /\ \A y \in foreign : target.id[1] <= y.id[1]
           /\ inner = {} /\ seen = {} /\ foreign = {} => target = None
  <1> PICK s, form : s = SchemaAt(p) /\ form = FormAt(p)
    <2>1. \E s, form : s = SchemaAt(p) /\ form = FormAt(p)
      OBVIOUS
    <2> QED
      BY <2>1
  <1>1. s \in Loaded /\ form \in BOOLEAN /\ ws \in Workspaces
    <2>1. ws \in Workspaces /\ p.text \in Positions
      BY PlacesTyped DEF ObjectsInv
    <2>2. ws[p.text].name \in SchemaNames /\ schemas[ws[p.text].name] # 0
      BY <2>1, TextsTyped DEF ObjectsInv
    <2> QED
      BY <2>1, <2>2 DEF Loaded, SchemaAt, FormAt, LongForm
  <1> PICK layers : layers = LocalLayers(p)
    OBVIOUS
  <1>2. PICK n \in Nat : DOMAIN layers = 1..n /\ \A i \in 1..n : IsList(layers[i])
    BY <1>1, LayersListed
  <1> PICK x : x = FirstFound(HitsIn(layers, type, name, form))
    OBVIOUS
  <1> PICK v, g : v = VisibleDeclarations(s) /\ g = Lookup(Index(type), name, form)
    <2>1. \E v, g : v = VisibleDeclarations(s) /\ g = Lookup(Index(type), name, form)
      OBVIOUS
    <2> QED
      BY <2>1
  <1> PICK y : y = Lookup(Accepted(v, type), name, form)
    OBVIOUS
  <1>3. target = Otherwise(x, Otherwise(y, g))
    <2>1. /\ InterfaceScope(s) = v
          /\ GlobalScope(type, form) = [list |-> Index(type), longForm |-> form]
      BY <1>1, ScopesAreCurrent
    <2> PICK scope : scope = GlobalScope(type, form)
      OBVIOUS
    <2>2. scope.list = Index(type) /\ scope.longForm = form
      BY <2>1
    <2>3. target = Otherwise(x, Otherwise(Lookup(Accepted(InterfaceScope(s), type), name, form),
                                          Lookup(scope.list, name, scope.longForm)))
      BY DEF PlainTarget, FirstFound, HitsIn
    <2> QED
      BY <2>1, <2>2, <2>3
  <1>4. /\ x = None <=> \A i \in 1..n : BestOf(Range(layers[i]), type, name, form) = {}
        /\ x # None => \E i \in 1..n : /\ x \in BestOf(Range(layers[i]), type, name, form)
                                       /\ \A j \in 1..n : BestOf(Range(layers[j]), type, name, form) # {} => i <= j
    <2>1. Layered(layers, n)
      BY <1>2 DEF Layered
    <2>2. FromInnermost(layers, n, type, name, form, x)
      BY <2>1, InnermostIsBest
    <2> QED
      BY <2>2 DEF FromInnermost
  <1>5. /\ inner = {} <=> x = None
        /\ x # None => \E i \in inner : x \in locals[i] /\ \A j \in inner : i <= j
    <2>1. /\ DOMAIN locals = 1..n
          /\ \A i \in 1..n : locals[i] = BestOf(Range(layers[i]), type, name, form)
      BY <1>2
    <2>2. \A i : i \in inner <=> i \in 1..n /\ locals[i] # {}
      BY <2>1
    <2>3. inner = {} <=> \A i \in 1..n : locals[i] = {}
      BY <2>2
    <2>4. ASSUME x # None PROVE \E i \in inner : x \in locals[i] /\ \A j \in inner : i <= j
      <3>1. PICK i \in 1..n : /\ x \in BestOf(Range(layers[i]), type, name, form)
                              /\ \A j \in 1..n : BestOf(Range(layers[j]), type, name, form) # {} => i <= j
        BY <1>4, <2>4
      <3>2. x \in locals[i] /\ i \in inner
        BY <2>1, <2>2, <3>1
      <3>3. \A j \in inner : i <= j
        BY <2>1, <2>2, <3>1
      <3> QED
        BY <3>2, <3>3
    <2> QED
      BY <1>4, <2>1, <2>3, <2>4
  <1>6. (y = None <=> seen = {}) /\ (y # None => y \in seen)
    <2> PICK R, V : R = Range(v) /\ V = {DeclSymbol(m) : m \in SeenByClause11(s)}
      <3>1. \E R, V : R = Range(v) /\ V = {DeclSymbol(m) : m \in SeenByClause11(s)}
        OBVIOUS
      <3> QED
        BY <3>1
    <2>1. /\ IsList(v)
          /\ BestOf(R, type, name, form) \subseteq BestOf(V, type, name, form)
          /\ BestOf(R, type, name, form) = {} <=> BestOf(V, type, name, form) = {}
      <3>1. R = Range(VisibleDeclarations(s))
        OBVIOUS
      <3> QED
        BY <1>1, <3>1, VisibleIsBest
    <2>2. /\ y = None <=> BestOf(R, type, name, form) = {}
          /\ y # None => y \in BestOf(R, type, name, form)
      BY <2>1, LayerIsBest
    <2>3. seen = BestOf(V, type, name, form)
      OBVIOUS
    <2> QED
      BY <2>1, <2>2, <2>3
  <1>7. /\ g = None <=> foreign = {}
        /\ g # None => g \in foreign /\ \A z \in foreign : g.id[1] <= z.id[1]
    <2> PICK all : all = UNION {Range(Exports(c)) : c \in Positions}
      OBVIOUS
    <2>1. foreign = BestOf(all, type, name, form)
      OBVIOUS
    <2> QED
      BY <1>1, <2>1, IndexIsBest
  <1> QED
    BY ONLY <1>3, <1>5, <1>6, <1>7 DEF Otherwise

LEMMA PlainReferencesFound ==
    ObjectsInv /\ InterfaceInv /\ ResourcesInv /\ CachesInv => PlainReferencesAreScoped
  <1> SUFFICES ASSUME ObjectsInv, InterfaceInv, ResourcesInv, CachesInv, stage = "built",
                      NEW p \in Places, NEW type \in ReferenceTypes,
                      NEW name \in IF type = "Schema" THEN SchemaNames ELSE Names
               PROVE  LET declared == UNION {Range(Exports(c)) : c \in Positions}
                          visible == [s \in {ws[c].name : c \in Positions} |->
                                         {DeclSymbol(n) : n \in SeenByClause11(s)}]
                          target == PlainTarget(p, type, name)
                          exact(S) == {y \in S : y.kind \in Accepts[type] /\ y.name = name}
                          folded(S) == {y \in S : /\ y.kind \in Accepts[type] /\ SameIgnoringCase(y.name, name)
                                                  /\ FormAt(p) \/ y.kind \notin {"Entity", "Schema"}}
                          best(S) == IF exact(S) # {} THEN exact(S) ELSE folded(S)
                          locals == [i \in DOMAIN LocalLayers(p) |-> best(Range(LocalLayers(p)[i]))]
                          inner == {i \in DOMAIN locals : locals[i] # {}}
                          seen == best(visible[SchemaAt(p)])
                          foreign == best(declared)
                      IN  CASE inner # {} ->
                                 \E i \in inner : target \in locals[i] /\ \A j \in inner : i <= j
                            [] inner = {} /\ seen # {} -> target \in seen
                            [] inner = {} /\ seen = {} /\ foreign # {} ->
                                 target \in foreign /\ \A y \in foreign : target.id[1] <= y.id[1]
                            [] OTHER -> target = None
    BY DEF PlainReferencesAreScoped
  <1> DEFINE declared == UNION {Range(Exports(c)) : c \in Positions}
             visible == [s \in {ws[c].name : c \in Positions} |->
                            {DeclSymbol(n) : n \in SeenByClause11(s)}]
             exact(S) == {y \in S : y.kind \in Accepts[type] /\ y.name = name}
             folded(S) == {y \in S : /\ y.kind \in Accepts[type] /\ SameIgnoringCase(y.name, name)
                                     /\ FormAt(p) \/ y.kind \notin {"Entity", "Schema"}}
             best(S) == IF exact(S) # {} THEN exact(S) ELSE folded(S)
             target == PlainTarget(p, type, name)
             locals == [i \in DOMAIN LocalLayers(p) |-> best(Range(LocalLayers(p)[i]))]
             inner == {i \in DOMAIN locals : locals[i] # {}}
             seen == best(visible[SchemaAt(p)])
             foreign == best(declared)
  <1>1. ASSUME NEW S PROVE best(S) = BestOf(S, type, name, FormAt(p))
    <2> PICK T : T = {y \in S : y.kind \in Accepts[type]}
      OBVIOUS
    <2>1. exact(S) = InExact(T, name)
      BY DEF InExact
    <2>2. folded(S) = InAnyCase(T, name, FormAt(p))
      BY DEF InAnyCase, FoldsCase
    <2>3. best(S) = Best(T, name, FormAt(p))
      BY <2>1, <2>2 DEF Best
    <2> QED
      BY <2>3 DEF BestOf
  <1> HIDE DEF best
  <1>2. SchemaAt(p) \in {ws[c].name : c \in Positions}
    BY PlacesTyped DEF SchemaAt, ObjectsInv
  <1>3. seen = BestOf({DeclSymbol(n) : n \in SeenByClause11(SchemaAt(p))}, type, name, FormAt(p))
    <2>1. visible[SchemaAt(p)] = {DeclSymbol(n) : n \in SeenByClause11(SchemaAt(p))}
      BY <1>2
    <2> QED
      BY <1>1, <2>1
  <1>4. foreign = BestOf(UNION {Range(Exports(c)) : c \in Positions}, type, name, FormAt(p))
    BY <1>1
  <1>5. locals = [i \in DOMAIN LocalLayers(p) |-> BestOf(Range(LocalLayers(p)[i]), type, name, FormAt(p))]
    BY <1>1
  <1> PICK t, l, s, f : t = target /\ l = locals /\ s = seen /\ f = foreign
    <2>1. \E t, l, s, f : t = target /\ l = locals /\ s = seen /\ f = foreign
      OBVIOUS
    <2> QED
      BY <2>1
  <1> PICK k : k = {i \in DOMAIN l : l[i] # {}}
    OBVIOUS
  <1>0. /\ t = PlainTarget(p, type, name)
        /\ l = [i \in DOMAIN LocalLayers(p) |-> BestOf(Range(LocalLayers(p)[i]), type, name, FormAt(p))]
        /\ s = BestOf({DeclSymbol(n) : n \in SeenByClause11(SchemaAt(p))}, type, name, FormAt(p))
        /\ f = BestOf(UNION {Range(Exports(c)) : c \in Positions}, type, name, FormAt(p))
        /\ ObjectsInv /\ InterfaceInv /\ ResourcesInv /\ CachesInv /\ stage = "built"
        /\ p \in Places /\ type \in ReferenceTypes /\ k = {i \in DOMAIN l : l[i] # {}}
    BY <1>3, <1>4, <1>5
  <1>6. /\ k # {} => \E i \in k : t \in l[i] /\ \A j \in k : i <= j
        /\ k = {} /\ s # {} => t \in s
        /\ k = {} /\ s = {} /\ f # {} => t \in f /\ \A y \in f : t.id[1] <= y.id[1]
        /\ k = {} /\ s = {} /\ f = {} => t = None
    BY ONLY <1>0, TargetIsScoped
  <1>7. inner = k
    OBVIOUS
  <1>8. (CASE inner # {} -> \E i \in inner : target \in locals[i] /\ \A j \in inner : i <= j
           [] inner = {} /\ seen # {} -> target \in seen
           [] inner = {} /\ seen = {} /\ foreign # {} ->
                target \in foreign /\ \A y \in foreign : target.id[1] <= y.id[1]
           [] OTHER -> target = None)
    <2> HIDE DEF inner, seen, foreign, target, locals
    <2> QED
      BY <1>6, <1>7
  <1> QED
    BY <1>8 DEF best

LEMMA ResourcesInvariance == ASSUME Serial PROVE Spec => [](ObjectsInv /\ InterfaceInv /\ ResourcesInv)
  <1>1. ObjectsInv /\ InterfaceInv /\ [Next]_vars => InterfaceInv'
    BY NextInterface
  <1>2. ObjectsInv /\ InterfaceInv /\ ResourcesInv /\ [Next]_vars => ResourcesInv'
    BY NextResources
  <1> QED
    BY <1>1, <1>2, InitInterface, InitResources, ObjectsInvariance, PTL DEF Spec

\* Whatever was linked before and however the file system listed the documents: a
\* plain reference is linked to a symbol of the innermost place that has one for it,
\* otherwise to one that clause 11 makes visible, and to another schema's only when
\* there is neither, then of the first document by URI; an exact spelling in the
\* chosen layer wins.  The cached scopes of the scope provider are never stale.
THEOREM PlainReferencesScoped ==
    ASSUME Serial
    PROVE  LinkSpec => []PlainReferencesAreScoped
  BY LinkingUsesContainer, CachesInvariance, ResourcesInvariance, PlainReferencesFound, PTL

----------------------------------------------------------------------------
(* Inverse attributes *)

\* Some of what the tiers have, if they have any.
LEMMA NearestIsSome ==
    ASSUME NEW n \in Nat, NEW tiers, DOMAIN tiers = 1..n, NEW name
    PROVE  /\ Nearest(tiers, name) \subseteq UNION Range(tiers)
           /\ Nearest(tiers, name) = {} <=> UNION Range(tiers) = {}
  <1> DEFINE exact == {i \in DOMAIN tiers : \E a \in tiers[i] : AttributeName(a) = name}
             any == {i \in DOMAIN tiers : tiers[i] # {}}
             first(S) == CHOOSE i \in S : \A j \in S : i <= j
  <1>1. ASSUME NEW S \in SUBSET (1..n), S # {} PROVE first(S) \in S
    <2>1. S \in SUBSET Nat
      OBVIOUS
    <2>2. \E i \in S : \A j \in S : i <= j
      BY <1>1, <2>1, LeastNatural
    <2> QED
      BY <2>2
  <1>2. Nearest(tiers, name) = IF exact # {} THEN {a \in tiers[first(exact)] : AttributeName(a) = name}
                               ELSE IF any # {} THEN tiers[first(any)] ELSE {}
    BY DEF Nearest
  <1>3. exact \in SUBSET (1..n) /\ any \in SUBSET (1..n) /\ exact \subseteq any
    OBVIOUS
  <1>4. UNION Range(tiers) = UNION {tiers[i] : i \in 1..n}
    BY DEF Range
  <1>5. any = {} <=> UNION Range(tiers) = {}
    BY <1>4
  <1> HIDE DEF first
  <1>6. CASE exact # {}
    <2>1. first(exact) \in exact
      BY <1>1, <1>3, <1>6
    <2>2. PICK a \in tiers[first(exact)] : AttributeName(a) = name
      BY <2>1
    <2> QED
      BY <1>2, <1>3, <1>4, <1>6, <2>1, <2>2, ZenonT(40)
  <1>7. CASE exact = {} /\ any # {}
    <2>1. first(any) \in any
      BY <1>1, <1>3, <1>7
    <2> QED
      BY <1>2, <1>3, <1>4, <1>7, <2>1, ZenonT(40)
  <1>8. CASE exact = {} /\ any = {}
    BY <1>2, <1>5, <1>8
  <1> QED
    BY <1>6, <1>7, <1>8

\* The candidates of an entity: levels, and what they come to.
LEMMA CandidatesReach ==
    ASSUME ObjectsInv, InterfaceInv, ItemsInv, ResourcesInv, WireInv, LevelsInv, stage = "built",
           NEW n \in Nodes, NEW name
    PROVE  /\ \E k \in Nat : DOMAIN AttributeCandidates(n, name, FALSE) = 1..k
           /\ UNION Range(AttributeCandidates(n, name, FALSE))
                = UNION {AttributesOf(m, name) : m \in {n} \cup Reached(AstUp, n)}
  <1>0. ws \in Workspaces
    BY DEF ObjectsInv
  <1>1. AstUp \in [Nodes -> SUBSET Nodes]
    BY AstTyped
  <1> PICK all : all = {n} \cup Reached(AstUp, n)
    OBVIOUS
  <1>2. all = Closure(AstUp, {n})
    BY <1>0, <1>1, AllAbove
  <1> PICK E : E = IF Object(n) = n THEN NodesIn(n, LevelsOf(n), FALSE) ELSE AstLevels(n)
    OBVIOUS
  <1>3. UNION Range(E) = all /\ \E k \in Nat : DOMAIN E = 1..k
    <2>1. CASE Object(n) = n
      <3>1. n \in ObjectsOf
        BY <2>1, OwnObject
      <3>2. UNION Range(E) = all
        BY <1>2, <2>1, <3>1, LevelsReach
      <3>3. KeptNearestFirst(n, LevelsOf(n))
        <4>1. Typed
          BY DEF Typed, ObjectsInv
        <4> QED
          BY <4>1, VisibleIsNearestFirst DEF LevelsOf, LevelsInv
      <3>4. \E k \in Nat : DOMAIN E = 1..k
        <4> PICK M : M = SUBSET Nodes
          OBVIOUS
        <4> PICK up \in Seq(M) : up = LevelsOf(n).up
          BY <3>3 DEF KeptNearestFirst
        <4>1. E = <<{n}>> \o up /\ {n} \in M
          BY <2>1 DEF NodesIn
        <4>2. E \in Seq(M)
          <5> PICK m \in M : m = {n}
            BY <4>1
          <5>1. <<m>> \o up \in Seq(M)
            OBVIOUS
          <5> QED
            BY <4>1, <5>1
        <4> QED
          BY <4>2, ElemsTyped
      <3> QED
        BY <3>2, <3>4
    <2>2. CASE Object(n) # n
      <3>1. E \in Seq(SUBSET Nodes) /\ UNION Range(E) = all
        BY <1>0, <1>1, <1>2, <2>2, AstLevelsReach
      <3>2. Len(E) \in Nat /\ DOMAIN E = 1..Len(E)
        BY <3>1, ElemsTyped
      <3> QED
        BY <3>1, <3>2
    <2> QED
      BY <2>1, <2>2
  <1>4. AttributeCandidates(n, name, FALSE) = AttributesIn(E, name)
    BY DEF AttributeCandidates
  <1>5. UNION Range(AttributesIn(E, name)) = UNION {AttributesOf(m, name) : m \in all}
    BY <1>3, AttributesGathered
  <1>6. DOMAIN AttributesIn(E, name) = DOMAIN E
    BY DEF AttributesIn
  <1> QED
    BY <1>3, <1>4, <1>5, <1>6

LEMMA InverseTargetsFound ==
    ObjectsInv /\ InterfaceInv /\ ItemsInv /\ ResourcesInv /\ WireInv /\ LevelsInv => InverseAttributesAreExplicit
  <1> SUFFICES ASSUME ObjectsInv, InterfaceInv, ItemsInv, ResourcesInv, WireInv, LevelsInv, stage = "built",
                      NEW n \in Nodes, NEW prefixed \in BOOLEAN, NEW name
               PROVE  LET above == {n} \cup IF prefixed THEN {} ELSE Reached([m \in Nodes |-> AstSupers(m)], n)
                          all == {a \in UNION {AttributesOf(m, name) : m \in above} : Explicit(a)}
                          found == InverseTargets(n, prefixed, name)
                      IN  found \subseteq all /\ (found = {} <=> all = {})
    BY DEF InverseAttributesAreExplicit
  <1> PICK above : above = {n} \cup IF prefixed THEN {} ELSE Reached(AstUp, n)
    OBVIOUS
  <1> PICK all : all = {a \in UNION {AttributesOf(m, name) : m \in above} : Explicit(a)}
    OBVIOUS
  <1> PICK found : found = InverseTargets(n, prefixed, name)
    OBVIOUS
  <1> SUFFICES found \subseteq all /\ (found = {} <=> all = {})
    BY DEF AstUp
  <1> PICK candidates : candidates = IF prefixed THEN <<AttributesOf(n, name)>> ELSE AttributeCandidates(n, name, FALSE)
    OBVIOUS
  <1>1. /\ \E k \in Nat : DOMAIN candidates = 1..k
        /\ UNION Range(candidates) = UNION {AttributesOf(m, name) : m \in above}
    <2>1. CASE prefixed
      <3> PICK A : A = AttributesOf(n, name)
        OBVIOUS
      <3>1. candidates = <<A>> /\ above = {n}
        BY <2>1
      <3>2. Range(<<A>>) = {A} /\ DOMAIN <<A>> = 1..1
        BY OneListed
      <3>3. Range(candidates) = {A} /\ DOMAIN candidates = 1..1
        BY ONLY <3>1, <3>2
      <3>4. UNION {AttributesOf(m, name) : m \in above} = A
        BY <3>1
      <3> QED
        BY <3>3, <3>4
    <2>2. CASE ~prefixed
      BY <2>2, CandidatesReach
    <2> QED
      BY <2>1, <2>2
  <1> PICK k \in Nat : DOMAIN candidates = 1..k
    BY <1>1
  <1> PICK tiers : tiers = [i \in DOMAIN candidates |-> {a \in candidates[i] : Explicit(a)}]
    OBVIOUS
  <1>2. found = Nearest(tiers, name)
    BY DEF InverseTargets
  <1>3. DOMAIN tiers = 1..k
    OBVIOUS
  <1>4. UNION Range(tiers) = all
    <2>1. UNION Range(tiers) = {a \in UNION Range(candidates) : Explicit(a)}
      <3>1. \A a : a \in UNION Range(candidates) <=> \E i \in 1..k : a \in candidates[i]
        BY DEF Range
      <3>2. \A i \in 1..k : tiers[i] = {a \in candidates[i] : Explicit(a)}
        OBVIOUS
      <3>3. \A a : a \in UNION Range(tiers) <=> \E i \in 1..k : a \in tiers[i]
        BY <1>3 DEF Range
      <3>4. \A a : a \in UNION Range(tiers) <=> \E i \in 1..k : a \in candidates[i] /\ Explicit(a)
        BY <3>2, <3>3
      <3> QED
        BY <3>1, <3>4
    <2> QED
      BY <1>1, <2>1
  <1>5. /\ Nearest(tiers, name) \subseteq UNION Range(tiers)
        /\ Nearest(tiers, name) = {} <=> UNION Range(tiers) = {}
    BY <1>3, NearestIsSome
  <1> QED
    BY <1>2, <1>4, <1>5

\* All that the look-ups of the container's answers rest on.
LEMMA ContainerInvariance ==
    ASSUME Serial
    PROVE  Spec => [](ObjectsInv /\ InterfaceInv /\ ItemsInv /\ ResourcesInv /\ WireInv /\ LevelsInv /\ GraphsInv)
  <1>1. ObjectsInv /\ InterfaceInv /\ [Next]_vars => InterfaceInv'
    BY NextInterface
  <1>2. ObjectsInv /\ InterfaceInv /\ ItemsInv /\ [Next]_vars => ItemsInv'
    BY NextItems
  <1>3. ObjectsInv /\ InterfaceInv /\ ResourcesInv /\ [Next]_vars => ResourcesInv'
    BY NextResources
  <1>4. ObjectsInv /\ InterfaceInv /\ ItemsInv /\ ResourcesInv /\ WireInv /\ [Next]_vars => WireInv'
    BY NextWired
  <1>5. ObjectsInv /\ LevelsInv /\ [Next]_vars => LevelsInv'
    BY NextLevels
  <1>6. ObjectsInv /\ GraphsInv /\ [Next]_vars => GraphsInv'
    BY NextGraphs
  <1> QED
    BY <1>1, <1>2, <1>3, <1>4, <1>5, <1>6, InitInterface, InitItems, InitResources, InitWired, InitLevels, InitGraphs,
       ObjectsInvariance, PTL DEF Spec

\* 9.2.1.3, whatever was linked or asked before: the attribute that an inverse
\* attribute names is an explicit one which the entity has or, without a prefix,
\* inherits, and it is found whenever there is one, even when a nearer entity has
\* only an inverse attribute of the name.
THEOREM InverseAttributesExplicit ==
    ASSUME Serial
    PROVE  LinkSpec => []InverseAttributesAreExplicit
  BY LinkingUsesContainer, ContainerInvariance, InverseTargetsFound, PTL

----------------------------------------------------------------------------
(* What a type reaches: the recursions over bases, lists and listed selects *)

\* What such a recursion returns for n below the types in S: nothing if it does not end.
Total(deep, own, n, S) ==
    IF Circular(deep, n, S) THEN Overflow ELSE UNION {own[k] : k \in Within(deep, n)}

\* One call of it, f being the recursion.
Totalled(f, deep, own, n, S) ==
    LET deeper == {f[<<m, S \cup {n}>>] : m \in deep[n]}
    IN  IF n \in S \/ Overflow \in deeper THEN Overflow ELSE own[n] \cup UNION deeper

Makes(D, f, deep, own) == \A n \in D : \A S \in SUBSET D : f[<<n, S>>] = Totalled(f, deep, own, n, S)
Comes(D, f, deep, own) == \A n \in D : \A S \in SUBSET D : f[<<n, S>>] = Total(deep, own, n, S)

LEMMA TotalIsTotalled ==
    ASSUME NEW D, NEW deep \in [D -> SUBSET D], NEW own, \A k \in D : NoNode \notin own[k],
           NEW f, \A m \in D : \A S \in SUBSET D : f[<<m, S>>] = Total(deep, own, m, S),
           NEW n \in D, NEW S \in SUBSET D
    PROVE  f[<<n, S>>] = Totalled(f, deep, own, n, S)
  <1> DEFINE deeper == {f[<<m, S \cup {n}>>] : m \in deep[n]}
  <1>1. f[<<n, S>>] = Total(deep, own, n, S)
    OBVIOUS
  <1>2. \A m \in deep[n] : m \in D /\ f[<<m, S \cup {n}>>] = Total(deep, own, m, S \cup {n})
    OBVIOUS
  <1>3. Circular(deep, n, S) <=> n \in S \/ \E m \in deep[n] : Circular(deep, m, S \cup {n})
    BY CircularSteps
  <1>4. ASSUME NEW m \in deep[n], ~Circular(deep, m, S \cup {n})
        PROVE  /\ f[<<m, S \cup {n}>>] = UNION {own[k] : k \in Within(deep, m)}
               /\ f[<<m, S \cup {n}>>] # Overflow
    <2>1. f[<<m, S \cup {n}>>] = UNION {own[k] : k \in Within(deep, m)}
      BY <1>2, <1>4 DEF Total
    <2>2. Within(deep, m) \subseteq D
      BY WithinSteps DEF Within
    <2>3. NoNode \notin f[<<m, S \cup {n}>>]
      BY <2>1, <2>2
    <2> QED
      BY <2>1, <2>3 DEF Overflow
  <1>5. CASE Circular(deep, n, S)
    <2>1. n \in S \/ Overflow \in deeper
      BY <1>2, <1>3, <1>5 DEF Total
    <2> QED
      BY <1>1, <1>5, <2>1 DEF Total, Totalled
  <1>6. CASE ~Circular(deep, n, S)
    <2>1. n \notin S /\ \A m \in deep[n] : ~Circular(deep, m, S \cup {n})
      BY <1>3, <1>6
    <2>2. Overflow \notin deeper
      BY <1>4, <2>1
    <2>3. Totalled(f, deep, own, n, S) = own[n] \cup UNION deeper
      BY <2>1, <2>2 DEF Totalled
    <2>4. Within(deep, n) = {n} \cup UNION {Within(deep, m) : m \in deep[n]}
      BY WithinSteps DEF Within
    <2>5. f[<<n, S>>] = UNION {own[k] : k \in Within(deep, n)}
      BY <1>1, <1>6 DEF Total
    <2>6. UNION deeper = UNION {UNION {own[k] : k \in Within(deep, m)} : m \in deep[n]}
      BY <1>4, <2>1, ZenonT(40)
    <2>7. UNION {own[k] : k \in Within(deep, n)} = own[n] \cup UNION {UNION {own[k] : k \in Within(deep, m)} : m \in deep[n]}
      BY <2>4
    <2> QED
      BY <2>3, <2>5, <2>6, <2>7
  <1> QED
    BY <1>5, <1>6

\* There is one such recursion.
LEMMA TotalledIsTotal ==
    ASSUME NEW D, IsFiniteSet(D), NEW deep \in [D -> SUBSET D], NEW own, \A k \in D : NoNode \notin own[k],
           NEW f, Makes(D, f, deep, own)
    PROVE  Comes(D, f, deep, own)
  <1> DEFINE A == D \X (SUBSET D)
             g == [w \in A |-> Total(deep, own, w[1], w[2])]
             rank == [w \in A |-> IF w[1] \in w[2] THEN 0 ELSE Cardinality(D \ w[2])]
             P == {w \in A : f[w] = g[w]}
  <1>1. \A n \in D : \A S \in SUBSET D : <<n, S>> \in A /\ g[<<n, S>>] = Total(deep, own, n, S)
    OBVIOUS
  <1>2. \A n \in D : \A S \in SUBSET D : rank[<<n, S>>] = IF n \in S THEN 0 ELSE Cardinality(D \ S)
    OBVIOUS
  <1>3. \A S \in SUBSET D : Cardinality(D \ S) \in Nat
    BY FS_Difference, FS_CardinalityType
  <1>4. rank \in [A -> Nat]
    BY <1>3
  <1> HIDE DEF g, rank
  <1>5. \A n \in D : \A S \in SUBSET D : g[<<n, S>>] = Totalled(g, deep, own, n, S)
    <2> SUFFICES ASSUME NEW n \in D, NEW S \in SUBSET D PROVE g[<<n, S>>] = Totalled(g, deep, own, n, S)
      OBVIOUS
    <2> HIDE DEF A
    <2>1. deep \in [D -> SUBSET D] /\ \A k \in D : NoNode \notin own[k]
      OBVIOUS
    <2>2. \A m \in D : \A T \in SUBSET D : g[<<m, T>>] = Total(deep, own, m, T)
      BY <1>1
    <2> QED
      BY ONLY <2>1, <2>2, n \in D, S \in SUBSET D, TotalIsTotalled
  <1>6. ASSUME NEW n \in D, NEW S \in SUBSET D, \A b \in A : rank[b] < rank[<<n, S>>] => b \in P
        PROVE  <<n, S>> \in P
    <2>1. CASE n \in S
      BY <1>1, <1>5, <2>1 DEF Totalled, Makes
    <2>2. CASE n \notin S
      <3>1. ASSUME NEW m \in deep[n] PROVE f[<<m, S \cup {n}>>] = g[<<m, S \cup {n}>>]
        <4>1. m \in D /\ S \cup {n} \in SUBSET D /\ <<m, S \cup {n}>> \in A
          OBVIOUS
        <4>2. PICK d \in Nat, e \in Nat : d = Cardinality(D \ S) /\ e = Cardinality(D \ (S \cup {n})) /\ e < d
          BY <1>3, <2>2, LessIsLeft
        <4>3. rank[<<m, S \cup {n}>>] = IF m \in S \cup {n} THEN 0 ELSE e
          BY <1>2, <4>1, <4>2
        <4>4. rank[<<n, S>>] = d
          BY <1>2, <2>2, <4>2
        <4>5. rank[<<m, S \cup {n}>>] < rank[<<n, S>>]
          BY <4>2, <4>3, <4>4
        <4> QED
          BY <1>6, <4>1, <4>5
      <3>2. {f[<<m, S \cup {n}>>] : m \in deep[n]} = {g[<<m, S \cup {n}>>] : m \in deep[n]}
        BY <3>1
      <3>3. Totalled(f, deep, own, n, S) = Totalled(g, deep, own, n, S)
        BY <3>2 DEF Totalled
      <3> QED
        BY <1>1, <1>5, <3>3 DEF Makes
    <2> QED
      BY <2>1, <2>2
  <1>7. \A a \in A : (\A b \in A : rank[b] < rank[a] => b \in P) => a \in P
    <2> HIDE DEF P
    <2> QED
      BY <1>6
  <1>8. A \subseteq P
    <2> HIDE DEF A, P
    <2> QED
      BY <1>4, <1>7, RankInduction
  <1> QED
    BY <1>1, <1>8 DEF Comes

----------------------------------------------------------------------------
(* What a type names, and what its values are *)

\* What the types name is of the kinds that the container looks for.
Kinded(n, t) ==
    /\ t = [base |-> t.base, members |-> t.members]
    /\ t.base \in Nodes \cup {NoNode} /\ t.members \in Seq(Nodes)
    /\ t.base # NoNode => Decl(n).kind \in {"EnumType", "SelectType"} /\ Decl(t.base).kind = Decl(n).kind
    /\ Decl(n).kind # "SelectType" => t.members = <<>>
    /\ \A m \in Elems(t.members) : Decl(m).kind \in {"Entity", "SelectType"}
WellKinded(n) == Kinded(n, types[n])

NextTypes(n) == (Range(types[n].members) \cup {types[n].base}) \ {NoNode}
Selects == [n \in Nodes |-> {k \in NextTypes(n) : Decl(k).kind = "SelectType"}]
EntitiesIn == [n \in Nodes |-> {k \in NextTypes(n) : Decl(k).kind = "Entity"}]
Bases == [n \in Nodes |-> {types[n].base} \ {NoNode}]
Items == [n \in Nodes |-> {<<n[1], n[2], i>> : i \in DOMAIN Decl(n).members}]

\* The functions SelectValues and EnumValues.
Selecting(f, w) ==
    LET n == w[1]
        under == w[2]
        next == (Range(types[n].members) \cup {types[n].base}) \ {NoNode}
        deeper == {f[<<m, under \cup {n}>>] : m \in {k \in next : Decl(k).kind = "SelectType"}}
    IN  IF n \in under \/ Overflow \in deeper THEN Overflow
        ELSE {m \in next : Decl(m).kind = "Entity"} \cup UNION deeper
Enumerating(f, w) ==
    LET n == w[1]
        under == w[2]
        items == {<<n[1], n[2], i>> : i \in DOMAIN Decl(n).members}
    IN  IF n \in under THEN Overflow
        ELSE IF types[n].base = NoNode THEN items
        ELSE LET deeper == f[<<types[n].base, under \cup {n}>>]
             IN  IF deeper = Overflow THEN Overflow ELSE items \cup deeper
IsSelecting(f) == f = [w \in Nodes \X (SUBSET Nodes) |-> Selecting(f, w)]
IsEnumerating(f) == f = [w \in Nodes \X (SUBSET Nodes) |-> Enumerating(f, w)]

LEMMA NextTypesTyped ==
    ASSUME ws \in Workspaces, \A n \in Nodes : WellKinded(n)
    PROVE  /\ \A n \in Nodes : NextTypes(n) \in SUBSET Nodes
           /\ Selects \in [Nodes -> SUBSET Nodes] /\ Bases \in [Nodes -> SUBSET Nodes]
           /\ \A n \in Nodes : NoNode \notin EntitiesIn[n] /\ NoNode \notin Items[n]
  <1>1. ASSUME NEW n \in Nodes PROVE NextTypes(n) \in SUBSET Nodes /\ {types[n].base} \ {NoNode} \in SUBSET Nodes
    <2>1. types[n].base \in Nodes \cup {NoNode} /\ types[n].members \in Seq(Nodes)
      BY DEF WellKinded, Kinded
    <2>2. Range(types[n].members) \in SUBSET Nodes
      BY <2>1, RangeIsElems
    <2> QED
      BY <2>1, <2>2 DEF NextTypes
  <1>2. NoNode \notin Nodes
    BY NoNodeIsNone
  <1>3. \A n \in Nodes : NoNode \notin EntitiesIn[n]
    BY <1>1, <1>2 DEF EntitiesIn
  <1>4. \A n \in Nodes : NoNode \notin Items[n]
    BY DEF Items, NoNode
  <1> QED
    BY <1>1, <1>3, <1>4 DEF Selects, Bases

LEMMA SelectTotalled ==
    ASSUME NEW f, NEW n \in Nodes, NEW S \in SUBSET Nodes
    PROVE  Selecting(f, <<n, S>>) = Totalled(f, Selects, EntitiesIn, n, S)
  BY DEF Selecting, Totalled, Selects, EntitiesIn, NextTypes

LEMMA EnumTotalled ==
    ASSUME NEW f, NEW n \in Nodes, NEW S \in SUBSET Nodes
    PROVE  Enumerating(f, <<n, S>>) = Totalled(f, Bases, Items, n, S)
  <1> DEFINE items == {<<n[1], n[2], i>> : i \in DOMAIN Decl(n).members}
             b == types[n].base
             x == f[<<b, S \cup {n}>>]
             deeper == {f[<<m, S \cup {n}>>] : m \in Bases[n]}
  <1>1. Items[n] = items /\ Bases[n] = {b} \ {NoNode}
    BY DEF Items, Bases
  <1>2. Totalled(f, Bases, Items, n, S) = IF n \in S \/ Overflow \in deeper THEN Overflow ELSE items \cup UNION deeper
    BY <1>1 DEF Totalled
  <1>3. Enumerating(f, <<n, S>>) = IF n \in S THEN Overflow ELSE IF b = NoNode THEN items
                                   ELSE IF x = Overflow THEN Overflow ELSE items \cup x
    BY DEF Enumerating
  <1>4. CASE b = NoNode
    <2>1. deeper = {}
      BY <1>1, <1>4
    <2> HIDE DEF deeper, items, x
    <2> QED
      BY <1>2, <1>3, <1>4, <2>1
  <1>5. CASE b # NoNode
    <2>1. deeper = {x}
      BY <1>1, <1>5
    <2> HIDE DEF deeper, items, x
    <2> QED
      BY <1>2, <1>3, <1>5, <2>1
  <1> QED
    BY <1>4, <1>5

LEMMA SelectValuesTotal ==
    ASSUME ws \in Workspaces, \A n \in Nodes : WellKinded(n)
    PROVE  \A n \in Nodes : SelectValues[<<n, {}>>] = Total(Selects, EntitiesIn, n, {})
  <1> DEFINE F == CHOOSE f : IsSelecting(f)
             g == [w \in Nodes \X (SUBSET Nodes) |-> Total(Selects, EntitiesIn, w[1], w[2])]
  <1>1. /\ Selects \in [Nodes -> SUBSET Nodes] /\ \A n \in Nodes : NoNode \notin EntitiesIn[n]
        /\ IsFiniteSet(Nodes)
    BY NextTypesTyped, NodesFinite
  <1>2. \A n \in Nodes : \A S \in SUBSET Nodes : g[<<n, S>>] = Total(Selects, EntitiesIn, n, S)
    OBVIOUS
  <1> HIDE DEF g
  <1>3. ASSUME NEW n \in Nodes, NEW S \in SUBSET Nodes
        PROVE  g[<<n, S>>] = Totalled(g, Selects, EntitiesIn, n, S)
    BY ONLY <1>1, <1>2, n \in Nodes, S \in SUBSET Nodes, TotalIsTotalled
  <1>4. IsSelecting(g)
    <2>1. ASSUME NEW n \in Nodes, NEW S \in SUBSET Nodes PROVE g[<<n, S>>] = Selecting(g, <<n, S>>)
      BY <1>3, SelectTotalled
    <2>2. g = [w \in Nodes \X (SUBSET Nodes) |-> g[w]]
      BY DEF g
    <2>3. \A w \in Nodes \X (SUBSET Nodes) : g[w] = Selecting(g, w)
      BY <2>1
    <2> QED
      BY <2>2, <2>3 DEF IsSelecting
  <1>5. IsSelecting(F)
    BY <1>4
  <1>6. SelectValues = F
    BY DEF SelectValues, IsSelecting, Selecting
  <1> HIDE DEF F
  <1>7. \A n \in Nodes : \A S \in SUBSET Nodes : F[<<n, S>>] = Totalled(F, Selects, EntitiesIn, n, S)
    <2> SUFFICES ASSUME NEW n \in Nodes, NEW S \in SUBSET Nodes
                 PROVE  F[<<n, S>>] = Totalled(F, Selects, EntitiesIn, n, S)
      OBVIOUS
    <2>1. F[<<n, S>>] = Selecting(F, <<n, S>>)
      BY <1>5 DEF IsSelecting
    <2> QED
      BY <2>1, SelectTotalled
  <1>8. Makes(Nodes, F, Selects, EntitiesIn)
    BY <1>7 DEF Makes
  <1>9. Comes(Nodes, F, Selects, EntitiesIn)
    BY ONLY <1>1, <1>8, TotalledIsTotal
  <1> QED
    BY <1>6, <1>9 DEF Comes

LEMMA EnumValuesTotal ==
    ASSUME ws \in Workspaces, \A n \in Nodes : WellKinded(n)
    PROVE  \A n \in Nodes : EnumValues[<<n, {}>>] = Total(Bases, Items, n, {})
  <1> DEFINE F == CHOOSE f : IsEnumerating(f)
             g == [w \in Nodes \X (SUBSET Nodes) |-> Total(Bases, Items, w[1], w[2])]
  <1>1. /\ Bases \in [Nodes -> SUBSET Nodes] /\ \A n \in Nodes : NoNode \notin Items[n]
        /\ IsFiniteSet(Nodes)
    BY NextTypesTyped, NodesFinite
  <1>2. \A n \in Nodes : \A S \in SUBSET Nodes : g[<<n, S>>] = Total(Bases, Items, n, S)
    OBVIOUS
  <1> HIDE DEF g
  <1>3. ASSUME NEW n \in Nodes, NEW S \in SUBSET Nodes
        PROVE  g[<<n, S>>] = Totalled(g, Bases, Items, n, S)
    BY ONLY <1>1, <1>2, n \in Nodes, S \in SUBSET Nodes, TotalIsTotalled
  <1>4. IsEnumerating(g)
    <2>1. ASSUME NEW n \in Nodes, NEW S \in SUBSET Nodes PROVE g[<<n, S>>] = Enumerating(g, <<n, S>>)
      BY <1>3, EnumTotalled
    <2>2. g = [w \in Nodes \X (SUBSET Nodes) |-> g[w]]
      BY DEF g
    <2>3. \A w \in Nodes \X (SUBSET Nodes) : g[w] = Enumerating(g, w)
      BY <2>1
    <2> QED
      BY <2>2, <2>3 DEF IsEnumerating
  <1>5. IsEnumerating(F)
    BY <1>4
  <1>6. EnumValues = F
    BY DEF EnumValues, IsEnumerating, Enumerating
  <1> HIDE DEF F
  <1>7. \A n \in Nodes : \A S \in SUBSET Nodes : F[<<n, S>>] = Totalled(F, Bases, Items, n, S)
    <2> SUFFICES ASSUME NEW n \in Nodes, NEW S \in SUBSET Nodes
                 PROVE  F[<<n, S>>] = Totalled(F, Bases, Items, n, S)
      OBVIOUS
    <2>1. F[<<n, S>>] = Enumerating(F, <<n, S>>)
      BY <1>5 DEF IsEnumerating
    <2> QED
      BY <2>1, EnumTotalled
  <1>8. Makes(Nodes, F, Bases, Items)
    BY <1>7 DEF Makes
  <1>9. Comes(Nodes, F, Bases, Items)
    BY ONLY <1>1, <1>8, TotalledIsTotal
  <1> QED
    BY <1>6, <1>9 DEF Comes

----------------------------------------------------------------------------
(* The instances of a type *)

NextType == [n \in Nodes |-> NextTypes(n)]
FromType(m) == {m} \cup Reached(NextType, m)
\* What the property says an attribute of type m holds.
ValuesOf(m) ==
    IF \E k \in FromType(m) : k \in Reached(NextType, k) THEN Overflow
    ELSE {k \in FromType(m) : Decl(k).kind = "Entity"}
         \cup UNION {Items[k] : k \in {l \in FromType(m) : Decl(m).kind = "EnumType"}}

LEMMA KindTyped == ASSUME ws \in Workspaces, NEW n \in Nodes PROVE Decl(n) \in Declarations
  <1>0. PICK t \in Positions : \E d \in DOMAIN ws[t].decls : n = <<t, d>>
    BY TextsTyped
  <1>1. PICK d \in DOMAIN ws[t].decls : n = <<t, d>>
    BY <1>0
  <1>2. Decl(n) = ws[t].decls[d] /\ ws[t].decls \in Seq(Declarations)
    BY <1>1, TextsTyped DEF Decl
  <1> QED
    BY <1>1, <1>2, TextsTyped

LEMMA TypesReached ==
    ASSUME ws \in Workspaces, \A n \in Nodes : WellKinded(n)
    PROVE  /\ NextType \in [Nodes -> SUBSET Nodes]
           /\ \A m \in Nodes : /\ Reached(NextType, m) = Closure(NextType, NextType[m])
                               /\ Closure(NextType, NextType[m]) \in SUBSET Nodes
  <1>1. NextType \in [Nodes -> SUBSET Nodes] /\ IsFiniteSet(Nodes)
    BY NextTypesTyped, NodesFinite DEF NextType
  <1> QED
    BY <1>1, ReachedIsClosure, ClosureIsLeast

LEMMA TypesInward ==
    ASSUME ws \in Workspaces, \A n \in Nodes : WellKinded(n)
    PROVE  /\ Inward(Nodes, NextType, Selects, {n \in Nodes : Decl(n).kind = "SelectType"})
           /\ Inward(Nodes, NextType, Bases, {n \in Nodes : Decl(n).kind = "EnumType"})
  <1>1. /\ \A n \in Nodes : NextTypes(n) \in SUBSET Nodes
        /\ Selects \in [Nodes -> SUBSET Nodes] /\ Bases \in [Nodes -> SUBSET Nodes]
        /\ NextType \in [Nodes -> SUBSET Nodes]
    BY NextTypesTyped DEF NextType
  <1>2. \A n \in Nodes : Range(types[n].members) = Elems(types[n].members)
    <2> SUFFICES ASSUME NEW n \in Nodes PROVE Range(types[n].members) = Elems(types[n].members)
      OBVIOUS
    <2>1. types[n].members \in Seq(Nodes)
      BY DEF WellKinded, Kinded
    <2> QED
      BY <2>1, RangeIsElems
  <1>3. Elems(<<>>) = {}
    BY ElemsTyped
  <1>4. ASSUME NEW n \in Nodes, Decl(n).kind = "SelectType", NEW y \in NextTypes(n)
        PROVE  Decl(y).kind \in {"Entity", "SelectType"}
    BY <1>2, <1>4 DEF NextTypes, WellKinded, Kinded
  <1>5. ASSUME NEW n \in Nodes, Decl(n).kind = "Entity" PROVE NextTypes(n) = {}
    <2>1. types[n].members = <<>> /\ types[n].base = NoNode
      BY <1>5 DEF WellKinded, Kinded
    <2> QED
      BY <1>2, <1>3, <2>1 DEF NextTypes
  <1>6. ASSUME NEW n \in Nodes, Decl(n).kind = "EnumType"
        PROVE  NextTypes(n) = Bases[n] /\ \A y \in NextTypes(n) : Decl(y).kind = "EnumType"
    <2>1. types[n].members = <<>> /\ (types[n].base # NoNode => Decl(types[n].base).kind = "EnumType")
      BY <1>6 DEF WellKinded, Kinded
    <2> QED
      BY <1>2, <1>3, <2>1 DEF NextTypes, Bases
  <1>7. Inward(Nodes, NextType, Selects, {n \in Nodes : Decl(n).kind = "SelectType"})
    BY <1>1, <1>4, <1>5 DEF Inward, NextType, Selects
  <1>8. Inward(Nodes, NextType, Bases, {n \in Nodes : Decl(n).kind = "EnumType"})
    BY <1>1, <1>6 DEF Inward, NextType
  <1> QED
    BY <1>7, <1>8

LEMMA SelectInstances ==
    ASSUME ws \in Workspaces, \A n \in Nodes : WellKinded(n), NEW m \in Nodes, Decl(m).kind = "SelectType"
    PROVE  SelectValues[<<m, {}>>] = ValuesOf(m)
  <1> DEFINE inner == {n \in Nodes : Decl(n).kind = "SelectType"}
  <1>1. /\ Within(Selects, m) \subseteq inner
        /\ Closure(NextType, NextType[m]) = UNION {NextType[k] : k \in Within(Selects, m)}
        /\ (\E k \in {m} \cup Closure(NextType, NextType[m]) : k \in Closure(NextType, NextType[k]))
              <=> Circular(Selects, m, {})
    <2>1. Inward(Nodes, NextType, Selects, inner) /\ m \in inner
      BY TypesInward
    <2> QED
      BY ONLY <2>1, InwardReaches, InwardCircles
  <1>2. FromType(m) = {m} \cup Closure(NextType, NextType[m]) /\ FromType(m) \subseteq Nodes
    BY TypesReached DEF FromType
  <1>3. (\E k \in FromType(m) : k \in Reached(NextType, k)) <=> Circular(Selects, m, {})
    BY <1>1, <1>2, TypesReached
  <1>4. SelectValues[<<m, {}>>] = IF Circular(Selects, m, {}) THEN Overflow
                                  ELSE UNION {EntitiesIn[k] : k \in Within(Selects, m)}
    BY SelectValuesTotal DEF Total
  <1>5. {k \in FromType(m) : Decl(k).kind = "Entity"} = UNION {EntitiesIn[k] : k \in Within(Selects, m)}
    <2>1. \A k \in inner : EntitiesIn[k] = {e \in NextType[k] : Decl(e).kind = "Entity"}
      BY DEF EntitiesIn, NextType
    <2> QED
      BY <1>1, <1>2, <2>1
  <1>6. UNION {Items[k] : k \in {l \in FromType(m) : Decl(m).kind = "EnumType"}} = {}
    OBVIOUS
  <1>7. ValuesOf(m) = IF Circular(Selects, m, {}) THEN Overflow
                      ELSE {k \in FromType(m) : Decl(k).kind = "Entity"}
    BY <1>3, <1>6 DEF ValuesOf
  <1> QED
    BY <1>4, <1>5, <1>7

LEMMA EnumInstances ==
    ASSUME ws \in Workspaces, \A n \in Nodes : WellKinded(n), NEW m \in Nodes, Decl(m).kind = "EnumType"
    PROVE  EnumValues[<<m, {}>>] = ValuesOf(m)
  <1> DEFINE inner == {n \in Nodes : Decl(n).kind = "EnumType"}
  <1>0. Inward(Nodes, NextType, Bases, inner) /\ m \in inner
    BY TypesInward
  <1>1. /\ Within(Bases, m) \subseteq inner
        /\ Closure(NextType, NextType[m]) = UNION {NextType[k] : k \in Within(Bases, m)}
        /\ (\E k \in {m} \cup Closure(NextType, NextType[m]) : k \in Closure(NextType, NextType[k]))
              <=> Circular(Bases, m, {})
    BY ONLY <1>0, InwardReaches, InwardCircles
  <1>2. FromType(m) = {m} \cup Closure(NextType, NextType[m]) /\ FromType(m) \subseteq Nodes
    BY TypesReached DEF FromType
  <1>3. (\E k \in FromType(m) : k \in Reached(NextType, k)) <=> Circular(Bases, m, {})
    BY <1>1, <1>2, TypesReached
  <1>4. EnumValues[<<m, {}>>] = IF Circular(Bases, m, {}) THEN Overflow
                                ELSE UNION {Items[k] : k \in Within(Bases, m)}
    BY EnumValuesTotal DEF Total
  <1>5. FromType(m) = Within(Bases, m)
    <2>1. /\ \A k \in inner : NextType[k] = Bases[k]
          /\ Bases \in [Nodes -> SUBSET Nodes]
      <3>1. \A k \in inner : /\ Bases[k] = NextType[k] \cap inner
                             /\ NextType[k] \subseteq inner
        <4> SUFFICES ASSUME NEW k \in inner PROVE Bases[k] = NextType[k] \cap inner /\ NextType[k] \subseteq inner
          OBVIOUS
        <4>1. Bases[k] = NextType[k] \cap inner /\ NextType[k] \in SUBSET Nodes
          BY <1>0 DEF Inward
        <4>2. types[k].members = <<>> /\ (types[k].base # NoNode => Decl(types[k].base).kind = "EnumType")
          BY DEF WellKinded, Kinded
        <4>3. types[k].members \in Seq(Nodes) /\ Range(types[k].members) = {}
          <5>1. k \in Nodes
            OBVIOUS
          <5>2. Elems(<<>>) = {} /\ types[k].members \in Seq(Nodes)
            BY <5>1, ElemsTyped DEF WellKinded, Kinded
          <5>3. Range(types[k].members) = Elems(types[k].members)
            BY <5>2, RangeIsElems
          <5> QED
            BY <4>2, <5>2, <5>3
        <4>4. NextType[k] \subseteq {types[k].base} \ {NoNode}
          BY <4>3 DEF NextType, NextTypes
        <4> QED
          BY <4>1, <4>2, <4>4
      <3>2. Bases \in [Nodes -> SUBSET Nodes]
        BY <1>0 DEF Inward
      <3> HIDE DEF inner
      <3> QED
        BY <3>1, <3>2
    <2>2. Inward(Nodes, Bases, Bases, inner)
      <3>1. \A k \in inner : Bases[k] \subseteq inner
        BY <1>0 DEF Inward
      <3> QED
        BY <2>1, <3>1 DEF Inward
    <2>3. Closure(Bases, Bases[m]) = UNION {Bases[k] : k \in Within(Bases, m)}
      BY ONLY <1>0, <2>2, InwardReaches
    <2>4. \A k \in Within(Bases, m) : NextType[k] = Bases[k]
      BY <1>1, <2>1
    <2>5. Closure(NextType, NextType[m]) = Closure(Bases, Bases[m])
      BY <1>1, <2>3, <2>4
    <2> QED
      BY <1>2, <2>5 DEF Within
  <1>6. {k \in FromType(m) : Decl(k).kind = "Entity"} = {}
    BY <1>1, <1>5
  <1>7. UNION {Items[k] : k \in {l \in FromType(m) : Decl(m).kind = "EnumType"}} = UNION {Items[k] : k \in Within(Bases, m)}
    BY <1>5
  <1>8. ValuesOf(m) = IF Circular(Bases, m, {}) THEN Overflow ELSE UNION {Items[k] : k \in Within(Bases, m)}
    BY <1>3, <1>6, <1>7 DEF ValuesOf
  <1> QED
    BY <1>4, <1>8

LEMMA InstancesAreValues ==
    ASSUME ws \in Workspaces, \A n \in Nodes : WellKinded(n), NEW m \in Nodes
    PROVE  Instances(m) = ValuesOf(m)
  <1>1. m # NoNode /\ Decl(m).kind \in Kinds
    BY NoNodeIsNone, KindTyped DEF Declarations
  <1>2. CASE Decl(m).kind = "SelectType"
    <2>1. Instances(m) = SelectValues[<<m, {}>>]
      BY <1>1, <1>2 DEF Instances
    <2> QED
      BY <1>2, <2>1, SelectInstances
  <1>3. CASE Decl(m).kind = "EnumType"
    <2>1. Instances(m) = EnumValues[<<m, {}>>]
      BY <1>1, <1>3 DEF Instances
    <2> QED
      BY <1>3, <2>1, EnumInstances
  <1>4. CASE Decl(m).kind \in {"Entity", "Type"}
    <2>1. NextType[m] = {}
      <3>1. types[m].members = <<>> /\ types[m].base = NoNode /\ types[m].members \in Seq(Nodes)
        BY <1>4 DEF WellKinded, Kinded
      <3>2. Range(types[m].members) = {}
        BY <3>1, ElemsTyped, RangeIsElems
      <3> QED
        BY <3>1, <3>2 DEF NextType, NextTypes
    <2>2. Reached(NextType, m) = {}
      <3>1. NextType \in [Nodes -> SUBSET Nodes] /\ Reached(NextType, m) = Closure(NextType, {})
        BY <2>1, TypesReached
      <3>2. IsClosed(NextType, {}) /\ {} \in SUBSET Nodes
        BY DEF IsClosed
      <3>3. Closure(NextType, {}) \subseteq {}
        BY <3>1, <3>2, ClosureIsLeast
      <3> QED
        BY <3>1, <3>3
    <2>3. FromType(m) = {m}
      BY <2>2 DEF FromType
    <2>4. ValuesOf(m) = {k \in {m} : Decl(k).kind = "Entity"}
      BY <1>4, <2>2, <2>3 DEF ValuesOf
    <2>5. Instances(m) = IF Decl(m).kind = "Entity" THEN {m} ELSE {}
      BY <1>1, <1>4 DEF Instances
    <2> QED
      BY <2>4, <2>5
  <1> QED
    BY <1>1, <1>2, <1>3, <1>4 DEF Kinds

----------------------------------------------------------------------------
(* The types a build resolves *)

ByName(l, n) == Put(l, n, LAMBDA x, y : x.name = y.name)
\* The function in TypesOf.
IsTyping(iter, base, q) ==
    iter = [s \in SUBSET DOMAIN q |->
               IF s = {} THEN base
               ELSE LET x == Max(s) IN ByName(iter[s \ {x}], q[x])]

\* The types of a text are among its declarations, and no entities.
LEMMA TypesWithin ==
    ASSUME ws \in Workspaces, NEW c \in Positions
    PROVE  /\ Range(TypesOf(c)) = Elems(TypesOf(c))
           /\ \A n \in Elems(TypesOf(c)) : n \in Nodes /\ n[1] = c /\ Decl(n).kind # "Entity"
  <1> DEFINE S == {n \in Nodes : Decl(n).kind # "Entity"}
             T == {n \in S : n[1] = c}
             q == Filtered(TextNodes(c), S)
             F == CHOOSE iter : IsTyping(iter, <<>>, q)
  <1>1. TextNodes(c) \in Seq(Nodes) /\ \A i \in 1..Len(TextNodes(c)) : TextNodes(c)[i][1] = c
    <2>1. DOMAIN ws[c].decls = 1..Len(ws[c].decls) /\ Len(ws[c].decls) \in Nat
      BY TextsTyped
    <2>2. \A d \in DOMAIN ws[c].decls : <<c, d>> \in Nodes
      BY TextsTyped
    <2>3. TextNodes(c) \in [1..Len(ws[c].decls) -> Nodes]
      BY <2>1, <2>2 DEF TextNodes
    <2>4. TextNodes(c) \in Seq(Nodes) /\ Len(TextNodes(c)) = Len(ws[c].decls)
      BY <2>1, <2>3, IsASeq, LenProperties
    <2>5. \A i \in 1..Len(ws[c].decls) : TextNodes(c)[i] = <<c, i>>
      BY <2>1 DEF TextNodes
    <2> QED
      BY <2>4, <2>5
  <1>2. <<>> \in Seq(Nodes)
    BY EmptySeq
  <1>3. q \in Seq(Nodes) /\ Elems(q) \subseteq T
    <2>1. PICK list \in Seq(Nodes) : list = TextNodes(c)
      BY <1>1
    <2> HIDE DEF S
    <2>2. q \in Seq(Nodes) /\ Elems(q) = Elems(list) \cap S
      BY <2>1, FilteredTyped
    <2> USE DEF S
    <2>3. \A n \in Elems(list) : n[1] = c
      BY <1>1, <2>1 DEF Elems
    <2> QED
      BY <2>2, <2>3
  <1>4. TypesOf(c) = F[DOMAIN q]
    BY DEF TypesOf, FoldLeft, MapThenFoldSet, IsTyping, ByName
  <1> HIDE DEF q, F, S
  <1>5. \A i \in 1..Len(q) : q[i] \in Nodes /\ q[i] \in S /\ q[i][1] = c
    BY <1>3 DEF Elems
  <1>6. \A i \in 1..Len(q) : \A l : Entered(l, q[i]) = ByName(l, q[i])
    BY <1>5 DEF Entered, ByName, S
  <1>7. ASSUME NEW iter PROVE IsTyping(iter, <<>>, q) <=> IsEntering(iter, <<>>, q)
    <2>1. ASSUME NEW s \in SUBSET DOMAIN q, s # {}
          PROVE  ByName(iter[s \ {Max(s)}], q[Max(s)]) = Entered(iter[s \ {Max(s)}], q[Max(s)])
      <3>1. DOMAIN q = 1..Len(q) /\ Len(q) \in Nat
        BY <1>3
      <3>2. Max(s) \in 1..Len(q)
        BY <2>1, <3>1, LargestNumber
      <3> QED
        BY <1>6, <3>2
    <2>2. [s \in SUBSET DOMAIN q |-> IF s = {} THEN <<>> ELSE ByName(iter[s \ {Max(s)}], q[Max(s)])]
          = [s \in SUBSET DOMAIN q |-> IF s = {} THEN <<>> ELSE Entered(iter[s \ {Max(s)}], q[Max(s)])]
      BY <2>1
    <2> QED
      BY <2>2 DEF IsTyping, IsEntering
  <1>8. IsEntering(F, <<>>, q)
    <2>1. \E f : IsEntering(f, <<>>, q)
      BY <1>2, <1>3, EnteringExists
    <2>2. \E f : IsTyping(f, <<>>, q)
      BY <1>7, <2>1
    <2>3. IsTyping(F, <<>>, q)
      BY <2>2 DEF F
    <2> QED
      BY <1>7, <2>3
  <1>9. PICK acc \in [0..Len(q) -> Seq(Nodes)] :
            /\ acc[0] = <<>> /\ F[DOMAIN q] = acc[Len(q)]
            /\ \A i \in 1..Len(q) : acc[i] = Entered(acc[i - 1], q[i])
    <2>1. PICK base \in Seq(Nodes) : base = <<>>
      BY <1>2
    <2>2. q \in Seq(Nodes) /\ base \in Seq(Nodes) /\ IsEntering(F, base, q)
      BY <1>3, <1>8, <2>1
    <2>3. \E acc \in [0..Len(q) -> Seq(Nodes)] :
            /\ acc[0] = base /\ F[DOMAIN q] = acc[Len(q)]
            /\ \A i \in 1..Len(q) : acc[i] = Entered(acc[i - 1], q[i])
      BY ONLY <2>2, EnteringAlong
    <2> QED
      BY <2>1, <2>3
  <1> DEFINE P == {i \in 0..Len(q) : Elems(acc[i]) \subseteq T}
  <1>10. Len(q) \in Nat
    BY <1>3
  <1>11. 0 \in P
    BY <1>9, <1>10 DEF Elems
  <1>12. ASSUME NEW i \in 1..Len(q), i - 1 \in P PROVE i \in P
    <2>1. PICK l \in Seq(Nodes) : l = acc[i - 1]
      BY <1>9, <1>12
    <2>2. PICK n \in T : n = q[i]
      BY <1>5
    <2>3. acc[i] = Entered(l, n) /\ Elems(l) \subseteq T /\ n \in Nodes
      BY <1>9, <1>12, <2>1, <2>2 DEF S
    <2>4. Entered(l, n) = l \/ Elems(Entered(l, n)) \subseteq Elems(l) \cup {n}
      BY <2>3, EnteredWithin
    <2> QED
      BY <2>2, <2>3, <2>4
  <1>13. Len(q) \in P
    <2> HIDE DEF P
    <2>1. Len(q) \in 0..Len(q)
      BY <1>10
    <2> QED
      BY <1>10, <1>11, <1>12, <2>1, NumberByNumber
  <1>14. TypesOf(c) \in Seq(Nodes) /\ Elems(TypesOf(c)) \subseteq T
    BY <1>4, <1>9, <1>10, <1>13
  <1>15. Range(TypesOf(c)) = Elems(TypesOf(c))
    BY <1>14, RangeIsElems
  <1> QED
    BY <1>14, <1>15 DEF S

\* What the list of a schema shows under a name, of a kind that folds case.
TypeSeen(s, kind, w) == UnderCaseRule(Resources(s), kind, w, TRUE)
BaseSeen(s, n) == IF Decl(n).base = NoName THEN NoNode ELSE TypeSeen(s, Decl(n).kind, Decl(n).base)
MemberSeen(s, w) == IF SeesEntity(s, w) # NoNode THEN SeesEntity(s, w) ELSE TypeSeen(s, "SelectType", w)
MembersSeen(s, n) == Written(Decl(n).members, LAMBDA w : MemberSeen(s, w))

LEMMA ResolvedIsSeen ==
    ASSUME NEW s, NEW n
    PROVE  /\ Decl(n).kind = "Type" => ResolvedType(s, n) = types[n]
           /\ Decl(n).kind = "EnumType" => ResolvedType(s, n) = [types[n] EXCEPT !.base = BaseSeen(s, n)]
           /\ Decl(n).kind = "SelectType" =>
                 ResolvedType(s, n) = [base |-> BaseSeen(s, n), members |-> MembersSeen(s, n)]
  BY DEF ResolvedType, BaseSeen, TypeSeen, MembersSeen, MemberSeen

LEMMA ResolvedKinded ==
    ASSUME ObjectsInv, InterfaceInv, ResourcesInv, stage = "wire",
           NEW s \in Loaded, NEW n \in Nodes, Decl(n).kind # "Entity", WellKinded(n)
    PROVE  Kinded(n, ResolvedType(s, n))
  <1>0. ws \in Workspaces
    BY DEF ObjectsInv
  <1>1. PICK l \in Seq(Nodes) : l = Resources(s)
    BY ListRight DEF RightResources
  <1>2. ASSUME NEW kind, NEW w, TypeSeen(s, kind, w) # NoNode
        PROVE  TypeSeen(s, kind, w) \in Nodes /\ Decl(TypeSeen(s, kind, w)).kind = kind
    <2>1. PICK folds : folds = TRUE
      OBVIOUS
    <2>2. PICK m : m = UnderCaseRule(l, kind, w, folds)
      OBVIOUS
    <2>3. m = TypeSeen(s, kind, w)
      BY <1>1, <2>1, <2>2 DEF TypeSeen
    <2>4. m # NoNode
      BY <1>2, <2>3
    <2>5. m \in Nodes /\ Decl(m).kind = kind
      BY <2>2, <2>4, SeenUnderCaseRule
    <2> QED
      BY <2>3, <2>5
  <1>3. ASSUME NEW w, SeesEntity(s, w) # NoNode
        PROVE  SeesEntity(s, w) \in Nodes /\ Decl(SeesEntity(s, w)).kind = "Entity"
    <2>1. PICK m : m = UnderCaseRule(l, "Entity", w, LongForm(s))
      OBVIOUS
    <2>2. m = SeesEntity(s, w)
      BY <1>1, <2>1 DEF SeesEntity
    <2> QED
      BY <1>3, <2>1, <2>2, SeenUnderCaseRule
  <1>4. ASSUME NEW w, MemberSeen(s, w) # NoNode
        PROVE  MemberSeen(s, w) \in Nodes /\ Decl(MemberSeen(s, w)).kind \in {"Entity", "SelectType"}
    BY <1>2, <1>3, <1>4 DEF MemberSeen
  <1>5. BaseSeen(s, n) # NoNode => BaseSeen(s, n) \in Nodes /\ Decl(BaseSeen(s, n)).kind = Decl(n).kind
    BY <1>2 DEF BaseSeen
  <1>6. Decl(n).kind \in Kinds /\ Decl(n).members \in Seq(Names)
    BY <1>0, KindTyped DEF Declarations
  <1>7. CASE Decl(n).kind = "Type"
    BY <1>7, ResolvedIsSeen DEF WellKinded
  <1>8. CASE Decl(n).kind = "EnumType"
    <2>1. PICK b : b = BaseSeen(s, n)
      OBVIOUS
    <2>2. ResolvedType(s, n) = [base |-> b, members |-> types[n].members]
      BY <1>8, <2>1, ResolvedIsSeen DEF WellKinded, Kinded
    <2> QED
      BY <1>5, <1>8, <2>1, <2>2 DEF WellKinded, Kinded
  <1>9. CASE Decl(n).kind = "SelectType"
    <2> DEFINE q == Decl(n).members
               list == [i \in DOMAIN q |-> MemberSeen(s, q[i])]
               All == {MemberSeen(s, q[i]) : i \in DOMAIN q}
    <2>1. DOMAIN q = 1..Len(q) /\ Len(q) \in Nat
      BY <1>6
    <2>2. MembersSeen(s, n) = Filtered(list, Nodes)
      BY DEF MembersSeen, Written
    <2>3. list \in [1..Len(q) -> All]
      <3> HIDE DEF q
      <3> QED
        BY <2>1
    <2>4. \A m \in All \cap Nodes : Decl(m).kind \in {"Entity", "SelectType"}
      <3>1. NoNode \notin Nodes
        BY <1>0, NoNodeIsNone
      <3> QED
        BY <1>4, <3>1
    <2> HIDE DEF list, All, q
    <2>5. list \in Seq(All)
      BY <2>1, <2>3, IsASeq
    <2>6. PICK f : f = Filtered(list, Nodes)
      OBVIOUS
    <2>7. f \in Seq(All) /\ Elems(f) = Elems(list) \cap Nodes
      BY <2>5, <2>6, FilteredTyped
    <2>8. f \in Seq(Nodes) /\ Elems(f) \subseteq All
      BY <2>7 DEF Elems
    <2>9. \A m \in Elems(f) : Decl(m).kind \in {"Entity", "SelectType"}
      BY <2>4, <2>7, <2>8
    <2>10. PICK b : b = BaseSeen(s, n)
      OBVIOUS
    <2>11. ResolvedType(s, n) = [base |-> b, members |-> f]
      BY <1>9, <2>2, <2>6, <2>10, ResolvedIsSeen
    <2> QED
      BY <1>5, <1>9, <2>8, <2>9, <2>10, <2>11 DEF Kinded
  <1> QED
    BY <1>6, <1>7, <1>8, <1>9 DEF Kinds

TypesInv == \A n \in Nodes : WellKinded(n)

LEMMA SameKinded ==
    ASSUME ws' = ws, NEW CONSTANT n, NEW CONSTANT t, Kinded(n, t), types'[n] = t
    PROVE  WellKinded(n)'
  <1>1. Nodes' = Nodes /\ \A m : Decl(m)' = Decl(m)
    BY SameTexts
  <1> QED
    BY <1>1 DEF WellKinded, Kinded, NoNode

LEMMA InitTypes == Init => TypesInv
  <1> SUFFICES ASSUME Init, NEW n \in Nodes PROVE WellKinded(n)
    BY DEF TypesInv
  <1>1. types[n] = [base |-> NoNode, members |-> <<>>]
    BY DEF Init, NothingKept, Nodes, Positions
  <1>2. <<>> \in Seq(Nodes) /\ Elems(<<>>) = {}
    BY EmptySeq DEF Elems
  <1> QED
    BY <1>1, <1>2 DEF WellKinded, Kinded

LEMMA BuildTypes == ASSUME Build PROVE TypesInv'
  <1>1. PICK w \in Edited : ws' = w /\ ClearObjects(w)
    BY DEF Build
  <1>2. types' = [n \in Nodes' |-> [base |-> NoNode, members |-> <<>>]]
    BY <1>1 DEF ClearObjects, NothingKept, Nodes, Positions
  <1>3. ASSUME NEW CONSTANT n, n \in Nodes' PROVE WellKinded(n)'
    <2>1. types'[n] = [base |-> NoNode, members |-> <<>>]
      BY <1>2, <1>3
    <2>2. <<>> \in Seq(Nodes') /\ Elems(<<>>) = {}
      BY EmptySeq DEF Elems
    <2> QED
      BY <2>1, <2>2 DEF WellKinded, Kinded, NoNode, Elems
  <1> QED
    BY <1>3 DEF TypesInv

LEMMA WireTypes ==
    ASSUME ObjectsInv, InterfaceInv, ResourcesInv, TypesInv, WireSchema
    PROVE  TypesInv'
  <1> PICK s : s = Order[at]
    OBVIOUS
  <1> PICK c : c = schemas[s]
    OBVIOUS
  <1>1. /\ ws \in Workspaces /\ stage = "wire" /\ at \in DOMAIN Order /\ ws' = ws
        /\ types' = [n \in Nodes |-> IF n \in Range(TypesOf(c)) THEN ResolvedType(s, n) ELSE types[n]]
    BY DEF WireSchema, ObjectsInv, texts
  <1>2. s \in Loaded
    BY <1>1, OrderLoaded
  <1>3. c \in Positions
    BY <1>1, <1>2, ReadAll, LoadedFinite
  <1>4. Nodes' = Nodes
    BY <1>1, SameTexts
  <1>5. ASSUME NEW CONSTANT n, n \in Nodes PROVE WellKinded(n)'
    <2>1. WellKinded(n)
      BY <1>5 DEF TypesInv
    <2>2. CASE n \in Range(TypesOf(c))
      <3>1. Decl(n).kind # "Entity"
        BY <1>1, <1>3, <2>2, TypesWithin
      <3>2. PICK t : t = ResolvedType(s, n)
        OBVIOUS
      <3>3. Kinded(n, t)
        BY <1>1, <1>2, <1>5, <2>1, <3>1, <3>2, ResolvedKinded
      <3>4. types'[n] = t
        BY <1>1, <1>5, <2>2, <3>2
      <3> QED
        BY <1>1, <3>3, <3>4, SameKinded
    <2>3. CASE n \notin Range(TypesOf(c))
      <3>1. PICK t : t = types[n]
        OBVIOUS
      <3>2. Kinded(n, t)
        BY <2>1, <3>1 DEF WellKinded
      <3>3. types'[n] = t
        BY <1>1, <1>5, <2>3, <3>1
      <3> QED
        BY <1>1, <3>2, <3>3, SameKinded
    <2> QED
      BY <2>2, <2>3
  <1> QED
    BY <1>4, <1>5 DEF TypesInv

LEMMA OtherTypes == ASSUME TypesInv, UNCHANGED <<ws, types>> PROVE TypesInv'
  <1>1. Nodes' = Nodes
    BY SameTexts
  <1>2. ASSUME NEW CONSTANT n, n \in Nodes PROVE WellKinded(n)'
    <2>1. PICK t : t = types[n]
      OBVIOUS
    <2>2. Kinded(n, t) /\ types'[n] = t
      BY <1>2, <2>1 DEF TypesInv, WellKinded
    <2> QED
      BY <2>2, SameKinded
  <1> QED
    BY <1>1, <1>2 DEF TypesInv

LEMMA NextTypesKept ==
    ASSUME ObjectsInv, InterfaceInv, ResourcesInv, TypesInv, [Next]_vars
    PROVE  TypesInv'
  <1>1. CASE UNCHANGED <<ws, types>>
    BY <1>1, OtherTypes
  <1>2. CASE UNCHANGED vars
    BY <1>1, <1>2 DEF vars, texts, objects
  <1>3. CASE LoadSchema \/ InterfaceSchema \/ NameSupertypes \/ EnterSubtypes \/ Interrupt
    BY <1>1, <1>3 DEF LoadSchema, InterfaceSchema, NameSupertypes, EnterSubtypes, Interrupt, texts, objects
  <1>4. ASSUME NEW i, AskResources(i) PROVE UNCHANGED <<ws, types>>
    BY <1>4 DEF AskResources, Answers, texts, objects
  <1>5. ASSUME NEW n, AskGraph(n) \/ AskVisible(n) PROVE UNCHANGED <<ws, types>>
    BY <1>5 DEF AskGraph, AskVisible, Answers, texts, objects
  <1>6. ASSUME NEW n, NEW dir, AskRelatives(n, dir) PROVE UNCHANGED <<ws, types>>
    BY <1>6 DEF AskRelatives, Answers, texts, objects
  <1> QED
    BY <1>1, <1>2, <1>3, <1>4, <1>5, <1>6, BuildTypes, WireTypes DEF Next

----------------------------------------------------------------------------
(* The type an attribute names *)

\* One name under the case rule: in that spelling, unless nothing of the kind has it.
LEMMA SeenAsWritten ==
    ASSUME ws \in Workspaces, NEW l \in Seq(Nodes), NEW kind, NEW w, NEW folds,
           NEW m, m = UnderCaseRule(l, kind, w, folds), m # NoNode
    PROVE  /\ Folded[Decl(m).name] = Folded[w]
           /\ (\E k \in Elems(l) : Decl(k).kind = kind /\ Decl(k).name = w) => Decl(m).name = w
  <1> DEFINE I == {i \in 1..Len(l) : Decl(l[i]).kind = kind /\ Decl(l[i]).name = w}
             J == {i \in 1..Len(l) : Decl(l[i]).kind = kind /\ Folded[Decl(l[i]).name] = Folded[w]}
             x == ElementAt(l, IF I # {} THEN Min(I) ELSE 0)
             y == ElementAt(l, IF J # {} THEN Min(J) ELSE 0)
  <1>1. UnderCaseRule(l, kind, w, folds) = OrElse(x, IF folds THEN y ELSE NoNode)
    BY DEF UnderCaseRule, Find, SelectInSeq
  <1>2. m = x \/ (x = NoNode /\ m = y)
    <2> HIDE DEF x, y
    <2> QED
      BY <1>1 DEF OrElse
  <1>3. /\ I \in SUBSET (1..Len(l)) /\ \A i \in I : Decl(l[i]).name = w
        /\ J \in SUBSET (1..Len(l)) /\ \A i \in J : Folded[Decl(l[i]).name] = Folded[w]
        /\ (\E k \in Elems(l) : Decl(k).kind = kind /\ Decl(k).name = w) => I # {}
    BY DEF Elems
  <1> HIDE DEF I, J
  <1>4. I # {} => x \in Nodes
    <2> SUFFICES ASSUME I # {} PROVE x \in Nodes
      OBVIOUS
    <2>1. PICK i \in I : i = Min(I)
      BY <1>3, FirstThat
    <2>2. i \in 1..Len(l) /\ i # 0 /\ l[i] \in Nodes
      BY <1>3
    <2>3. x = l[i]
      BY <2>1, <2>2 DEF ElementAt
    <2> QED
      BY <2>2, <2>3
  <1>5. NoNode \notin Nodes
    BY NoNodeIsNone
  <1>6. CASE m = x
    <2>1. \E i \in I : m = l[i]
      BY <1>3, <1>6, FoundAmong
    <2> QED
      BY <1>3, <2>1
  <1>7. CASE x = NoNode /\ m = y
    <2>1. \E i \in J : m = l[i]
      BY <1>3, <1>7, FoundAmong
    <2>2. I = {}
      BY <1>4, <1>5, <1>7
    <2> QED
      BY <1>3, <2>1, <2>2
  <1> QED
    BY <1>2, <1>6, <1>7

\* The place of a kind in a list.
LEMMA RankTyped == ASSUME NEW l \in Seq(Nodes), NEW k PROVE KindRank(l, k) \in 0..Len(l)
  <1> DEFINE I == {i \in 1..Len(l) : Decl(l[i]).kind = k}
  <1>1. KindRank(l, k) = IF I # {} THEN Min(I) ELSE 0
    BY DEF KindRank, SelectInSeq
  <1>2. I \in SUBSET (1..Len(l)) /\ Len(l) \in Nat
    OBVIOUS
  <1> HIDE DEF I
  <1>3. (IF I # {} THEN Min(I) ELSE 0) \in 0..Len(l)
    <2>1. CASE I = {}
      BY <1>2, <2>1
    <2>2. CASE I # {}
      <3>1. Min(I) \in 1..Len(l)
        BY <1>2, <2>2, FirstThat
      <3> QED
        BY <1>2, <2>2, <3>1
    <2> QED
      BY <2>1, <2>2
  <1> QED
    BY <1>1, <1>3

LEMMA FoundByName ==
    ASSUME ws \in Workspaces, NEW l \in Seq(Nodes), NEW w
    PROVE  LET exact == {n \in Range(l) : Decl(n).name = w}
           IN  IF exact = {} THEN FindByName(l, w) = NoNode ELSE FindByName(l, w) \in exact
  <1> DEFINE exact == {n \in Range(l) : Decl(n).name = w}
             rank == [n \in exact |-> KindRank(l, Decl(n).kind)]
             Ranks == {rank[n] : n \in exact}
  <1>1. CASE exact = {}
    BY <1>1 DEF FindByName
  <1>2. CASE exact # {}
    <2>1. \A n \in exact : rank[n] \in 0..Len(l)
      BY RankTyped
    <2> SUFFICES \E n \in exact : \A m \in exact : KindRank(l, Decl(m).kind) <= KindRank(l, Decl(n).kind)
      BY <1>2 DEF FindByName
    <2> DEFINE U == {k \in Nat : \A n \in exact : rank[n] <= k}
    <2>2. Len(l) \in Nat
      OBVIOUS
    <2> HIDE DEF rank, exact
    <2>3. Len(l) \in U
      BY <2>1, <2>2
    <2>4. PICK k \in U : \A j \in U : k <= j
      BY <2>3, LeastNatural
    <2>5. PICK n \in exact : rank[n] = k
      <3> SUFFICES ASSUME \A n \in exact : rank[n] # k PROVE FALSE
        OBVIOUS
      <3>1. \A n \in exact : rank[n] \in Int /\ 0 <= rank[n] /\ rank[n] <= k
        BY <2>1, <2>2
      <3>2. \A n \in exact : rank[n] <= k - 1
        BY <3>1
      <3>3. k # 0
        BY <1>2, <3>1
      <3>4. k - 1 \in U
        BY <3>2, <3>3
      <3> QED
        BY <2>4, <3>4
    <2>6. \A m \in exact : rank[m] <= rank[n]
      BY <2>5
    <2> QED
      BY <2>6 DEF rank
  <1> QED
    BY <1>1, <1>2

\* A name the resolver looks up: what has its spelling comes first.
LEMMA ResourceFound ==
    ASSUME ws \in Workspaces, NEW l \in Seq(Nodes), NEW w, NEW long,
           NEW m, m = FindResource(l, w, long), m # NoNode
    PROVE  /\ m \in Nodes /\ m \in Elems(l) /\ Folded[Decl(m).name] = Folded[w]
           /\ (\E k \in Elems(l) : Decl(k).name = w) => Decl(m).name = w
  <1> DEFINE exact == {n \in Range(l) : Decl(n).name = w}
             folded == {k \in Kinds : (k # "Entity" \/ long) /\ \E n \in Range(l) :
                                          Decl(n).kind = k /\ Folded[Decl(n).name] = Folded[w]}
             first == CHOOSE k \in folded : \A j \in folded : KindRank(l, k) <= KindRank(l, j)
             x == FindByName(l, w)
             y == Find(OfKind(l, first), LAMBDA n : Folded[Decl(n).name] = Folded[w])
  <1>1. m = OrElse(x, IF folded = {} THEN NoNode ELSE y)
    BY DEF FindResource
  <1>2. Range(l) = Elems(l) /\ Elems(l) \subseteq Nodes
    BY RangeIsElems, ElemsTyped
  <1>3. IF exact = {} THEN x = NoNode ELSE x \in exact
    BY FoundByName
  <1>4. NoNode \notin Nodes
    BY NoNodeIsNone
  <1> HIDE DEF x, folded
  <1>5. CASE exact # {}
    <2>1. x \in exact /\ x # NoNode
      BY <1>2, <1>3, <1>4, <1>5
    <2>2. m = x
      BY <1>1, <2>1 DEF OrElse
    <2> QED
      BY <1>2, <2>1, <2>2
  <1>6. CASE exact = {}
    <2>1. m = y
      BY <1>1, <1>3, <1>6 DEF OrElse
    <2>2. PICK S : S = {n \in Range(l) : Decl(n).kind = first}
      OBVIOUS
    <2>3. PICK f : f = OfKind(l, first)
      OBVIOUS
    <2>4. f = Filtered(l, S)
      BY <2>2, <2>3 DEF OfKind
    <2>5. f \in Seq(Nodes) /\ Elems(f) = Elems(l) \cap S
      BY <2>4, FilteredTyped
    <2> DEFINE J == {i \in 1..Len(f) : Folded[Decl(f[i]).name] = Folded[w]}
    <2>6. y = ElementAt(f, IF J # {} THEN Min(J) ELSE 0)
      BY <2>3 DEF Find, SelectInSeq
    <2>7. J \in SUBSET (1..Len(f)) /\ \A i \in J : Folded[Decl(f[i]).name] = Folded[w]
      OBVIOUS
    <2> HIDE DEF J, y, first
    <2>8. m \in Nodes /\ m \in Elems(f) /\ \E i \in J : m = f[i]
      BY <2>1, <2>5, <2>6, <2>7, FoundAmong
    <2>9. ~ \E k \in Elems(l) : Decl(k).name = w
      BY <1>2, <1>6
    <2> QED
      BY <2>5, <2>7, <2>8, <2>9
  <1> QED
    BY <1>5, <1>6

LEMMA TypesResolved ==
    ASSUME ObjectsInv, InterfaceInv, ResourcesInv, TypesInv
    PROVE  AttributeTypesAreInstances
  <1> SUFFICES ASSUME stage = "built", NEW n \in Nodes, NEW i \in DOMAIN Decl(n).attrs
               PROVE  LET within == [k \in Nodes |-> (Range(types[k].members) \cup {types[k].base}) \ {NoNode}]
                          reached(m) == {m} \cup Reached(within, m)
                          values(m) == IF \E k \in reached(m) : k \in Reached(within, k) THEN Overflow
                                       ELSE {k \in reached(m) : Decl(k).kind = "Entity"}
                                            \cup UNION {{<<k[1], k[2], j>> : j \in DOMAIN Decl(k).members} :
                                                           k \in {l \in reached(m) : Decl(m).kind = "EnumType"}}
                          written == Decl(n).attrs[i].type
                          seen == {m \in Range(Resources(SchemaOf(n))) :
                                      /\ written # NoName /\ Folded[Decl(m).name] = Folded[written]
                                      /\ Decl(n).attrs[i].inverse => Decl(m).kind = "Entity"}
                          exact == {m \in seen : Decl(m).name = written}
                      IN  ResolveAttribute(n, i) # {} =>
                            \E m \in IF exact = {} THEN seen ELSE exact : ResolveAttribute(n, i) = values(m)
    BY DEF AttributeTypesAreInstances
  <1> DEFINE within == [k \in Nodes |-> (Range(types[k].members) \cup {types[k].base}) \ {NoNode}]
             reached(m) == {m} \cup Reached(within, m)
             values(m) == IF \E k \in reached(m) : k \in Reached(within, k) THEN Overflow
                          ELSE {k \in reached(m) : Decl(k).kind = "Entity"}
                               \cup UNION {{<<k[1], k[2], j>> : j \in DOMAIN Decl(k).members} :
                                              k \in {l \in reached(m) : Decl(m).kind = "EnumType"}}
  <1> DEFINE a == Decl(n).attrs[i]
             w == a.type
             s == SchemaOf(n)
             l == Resources(s)
             seen == {m \in Range(l) : /\ w # NoName /\ Folded[Decl(m).name] = Folded[w]
                                       /\ a.inverse => Decl(m).kind = "Entity"}
             exact == {m \in seen : Decl(m).name = w}
             held == ResolveAttribute(n, i)
             good == IF exact = {} THEN seen ELSE exact
  <1> SUFFICES ASSUME held # {} PROVE \E m \in good : held = values(m)
    OBVIOUS
  <1> HIDE DEF values
  <1> PICK x : x = (CASE w = NoName -> NoNode
                      [] w # NoName /\ a.inverse -> SeesEntity(s, w)
                      [] OTHER -> FindResource(l, w, LongForm(s)))
    OBVIOUS
  <1>1. ws \in Workspaces /\ s \in Loaded
    <2>1. PICK t \in Positions : \E d \in DOMAIN ws[t].decls : n = <<t, d>>
      BY TextsTyped DEF ObjectsInv
    <2>2. s = ws[t].name
      BY <2>1 DEF SchemaOf
    <2> QED
      BY <2>1, <2>2, TextsTyped DEF ObjectsInv, Loaded
  <1>2. l \in Seq(Nodes)
    BY <1>1, ListRight DEF RightResources
  <1>3. held = Instances(x)
    BY DEF ResolveAttribute, ResolveWritten
  <1> HIDE DEF a, w, s, held
  <1>4. x # NoNode
    BY <1>3 DEF Instances
  <1>5. Range(l) = Elems(l)
    BY <1>2, RangeIsElems
  <1>6. x \in Nodes /\ x \in seen /\ (exact # {} => Decl(x).name = w)
    <2>1. w # NoName
      BY <1>4
    <2>2. CASE a.inverse
      <3>1. x = SeesEntity(s, w)
        BY <2>1, <2>2
      <3>2. x = UnderCaseRule(l, "Entity", w, LongForm(s))
        BY <3>1 DEF SeesEntity
      <3>3. PICK long : long = LongForm(s)
        OBVIOUS
      <3>4. x = UnderCaseRule(l, "Entity", w, long)
        BY <3>2, <3>3
      <3>5. x \in Nodes /\ x \in Elems(l) /\ Decl(x).kind = "Entity"
        BY <1>2, <1>4, <3>4, SeenUnderCaseRule
      <3>6. /\ Folded[Decl(x).name] = Folded[w]
            /\ (\E k \in Elems(l) : Decl(k).kind = "Entity" /\ Decl(k).name = w) => Decl(x).name = w
        BY <1>1, <1>2, <1>4, <3>4, SeenAsWritten
      <3> QED
        BY <1>5, <2>1, <2>2, <3>5, <3>6
    <2>3. CASE ~a.inverse
      <3>1. x = FindResource(l, w, LongForm(s))
        BY <2>1, <2>3
      <3>2. PICK long : long = LongForm(s)
        OBVIOUS
      <3>3. x = FindResource(l, w, long)
        BY <3>1, <3>2
      <3>4. /\ x \in Nodes /\ x \in Elems(l) /\ Folded[Decl(x).name] = Folded[w]
            /\ (\E k \in Elems(l) : Decl(k).name = w) => Decl(x).name = w
        BY <1>1, <1>2, <1>4, <3>3, ResourceFound
      <3> QED
        BY <1>5, <2>1, <2>3, <3>4
    <2> QED
      BY <2>2, <2>3
  <1>7. Instances(x) = ValuesOf(x)
    BY <1>1, <1>6, InstancesAreValues DEF TypesInv
  <1>8. values(x) = ValuesOf(x)
    <2>1. within = NextType
      BY DEF NextType, NextTypes
    <2> HIDE DEF within
    <2>2. \A m : reached(m) = FromType(m)
      BY <2>1 DEF FromType
    <2>3. FromType(x) \subseteq Nodes
      BY <1>1, <1>6, TypesReached DEF FromType, TypesInv
    <2> DEFINE T(k) == {<<k[1], k[2], j>> : j \in DOMAIN Decl(k).members}
               E == {k \in FromType(x) : Decl(x).kind = "EnumType"}
    <2>4. \A k \in FromType(x) : Items[k] = T(k)
      BY <2>3 DEF Items
    <2> HIDE DEF reached
    <2>5. values(x) = IF \E k \in FromType(x) : k \in Reached(NextType, k) THEN Overflow
                      ELSE {k \in FromType(x) : Decl(k).kind = "Entity"} \cup UNION {T(k) : k \in E}
      BY <2>1, <2>2 DEF values
    <2>6. UNION {T(k) : k \in E} = UNION {Items[k] : k \in E}
      <3> HIDE DEF T
      <3> QED
        BY <2>4
    <2> HIDE DEF T
    <2> QED
      BY <2>5, <2>6 DEF ValuesOf
  <1> QED
    BY <1>3, <1>6, <1>7, <1>8

\* Whatever was asked before the build ended and however types and lists contain
\* one another: an attribute holds what the type it writes reaches, in that
\* spelling or, when nothing visible has it, in another case; getValues of a type
\* in a circle ends in an exception and nothing else does.
THEOREM AttributeTypesResolved ==
    ASSUME Serial
    PROVE  Spec => []AttributeTypesAreInstances
  <1>1. ObjectsInv /\ InterfaceInv /\ [Next]_vars => InterfaceInv'
    BY NextInterface
  <1>2. ObjectsInv /\ InterfaceInv /\ ResourcesInv /\ [Next]_vars => ResourcesInv'
    BY NextResources
  <1>3. ObjectsInv /\ InterfaceInv /\ ResourcesInv /\ TypesInv /\ [Next]_vars => TypesInv'
    BY NextTypesKept
  <1>4. ObjectsInv /\ InterfaceInv /\ ResourcesInv /\ TypesInv => AttributeTypesAreInstances
    BY TypesResolved
  <1> QED
    BY <1>1, <1>2, <1>3, <1>4, InitInterface, InitResources, InitTypes, ObjectsInvariance, PTL DEF Spec

=============================================================================

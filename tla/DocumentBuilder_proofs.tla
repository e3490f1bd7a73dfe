----------------------- MODULE DocumentBuilder_proofs -----------------------
(***************************************************************************)
(* What the document builder guarantees for any set of documents and any   *)
(* number of edits, saves and deletions, as long as everything that builds *)
(* or resolves references does so on the workspace lock.                   *)
(***************************************************************************)
EXTENDS DocumentBuilder, SequenceTheorems, TLAPS

\* No Build command and no reference resolved outside of a build.
OnTheLock == MaxCommands = 0 /\ MaxHovers = 0

\* The state of the write that runs.
Step == step["lock"]
Todo == todo["lock"]
Phase == phase["lock"]
Left == left["lock"]
Current == current["lock"]

CommandIdle == step["command"] = "idle"

\* The running write is the head of the queue, and no exception has ended it.
WriteRuns == Step # "idle" => queue # <<>> /\ ~failed

\* A build works on documents that are not excluded and have a buildState, and
\* its documents have gone through the phases before the current one.
PhaseInv ==
    /\ Todo \subseteq Buildable
    /\ Todo \subseteq buildState
    /\ Left \subseteq Todo
    /\ Step \in {"idle", "updated"} => Todo = {} /\ Phase = Parsed /\ Current = NoDoc
    /\ Step = "container" => /\ Phase = ComputedScopes
                             /\ Current = NoDoc
                             /\ \A d \in Todo : state[d] >= Phase
    /\ Current # NoDoc => Current \in Todo /\ state[Current] < Phase /\ Phase <= Validated
    /\ \A d \in Todo : state[d] >= Phase - 1
    /\ \A d \in Todo \ Left : d # Current => state[d] >= Phase

\* The caches are empty until a build links, and then show current trees only.
CacheInv ==
    /\ Step # "idle" /\ Phase < Linked => \A d \in Docs : cache[d] = Unfilled
    /\ Step = "building" /\ Phase = Linked =>
          \A d, e \in Docs : cache[d][e] > 0 => cache[d][e] = parsed[e]

\* A build that still has a document to link has filled the container itself.
ContainerInv ==
    Step = "building" /\ Phase = Linked /\ (\E d \in Todo : state[d] < Linked) =>
        \A e \in Docs : types[e] # 0 => types[e] = parsed[e]

\* A write that will have d parsed again is still to be run.
Awaited(d) ==
    \E i \in 1..Len(queue) : /\ queue[i].doc = d
                             /\ queue[i].kind # "delete"
                             /\ i > 1 \/ Step = "idle"

\* A tree is of the current text or d is awaited, diagnostics are of the tree,
\* and what a build leaves alone is built.
TextInv == \A d \in Buildable : state[d] >= Parsed => parsed[d] = text[d] \/ Awaited(d)
PublishedInv == \A d \in Buildable : state[d] = Validated => published[d].text = parsed[d]
OthersBuilt == Step \in {"building", "container"} => \A d \in Buildable \ Todo : Built(d)

IInv ==
    /\ TypeOK
    /\ CommandIdle
    /\ WriteRuns
    /\ PhaseInv
    /\ CacheInv
    /\ ContainerInv
    /\ TextInv
    /\ PublishedInv
    /\ OthersBuilt
    /\ QuiescentBuilt

USE DEF Changed, Parsed, IndexedContent, ComputedScopes, Linked, IndexedReferences, Validated,
        Broken, Unlinked

-----------------------------------------------------------------------------
(* Steps that only put a write on the queue.                               *)

\* The write joins the end of the queue, behind the one that runs.
LEMMA WriteQueues ==
    ASSUME TypeOK, WriteRuns, NEW kind \in {"change", "save", "delete"}, NEW d \in Docs,
           Write(kind, d), step' = step
    PROVE  /\ queue' \in Seq(Operations)
           /\ queue' # <<>>
           /\ \A e \in Docs : Awaited(e) => Awaited(e)'
           /\ kind # "delete" => Awaited(d)'
  <1> DEFINE op == [kind |-> kind, doc |-> d]
  <1>1. op \in Operations /\ queue \in Seq(Operations) /\ queue' = Append(queue, op)
    BY DEF Operations, TypeOK, Write
  <1>2. /\ queue' \in Seq(Operations)
        /\ Len(queue') = Len(queue) + 1
        /\ Len(queue) \in Nat
        /\ \A i \in 1..Len(queue) : queue'[i] = queue[i]
        /\ queue'[Len(queue) + 1] = op
    BY <1>1
  <1>3. queue' # <<>>
    BY <1>2
  <1>4. ASSUME NEW e \in Docs, Awaited(e) PROVE Awaited(e)'
    BY <1>2, <1>4 DEF Awaited, Step
  <1>5. ASSUME kind # "delete" PROVE Awaited(d)'
    <2>1. Len(queue) + 1 \in 1..Len(queue')
      BY <1>2
    <2>2. Len(queue) + 1 > 1 \/ step["lock"]' = "idle"
      <3>1. queue # <<>> => Len(queue) > 0
        BY <1>1, <1>2
      <3> QED
        BY <1>2, <3>1 DEF WriteRuns, Step
    <2> QED
      BY <1>2, <1>5, <2>1, <2>2 DEF Awaited, Step
  <1> QED
    BY <1>2, <1>3, <1>4, <1>5

\* What the invariant needs of a step that leaves documents and builds alone.
LEMMA QueueOnly ==
    ASSUME IInv, TypeOK', queue' # <<>>,
           \A e \in Docs : Awaited(e) => Awaited(e)',
           \A e \in Docs : text'[e] = text[e] \/ Awaited(e)',
           UNCHANGED <<docs, parsed, state, link, refIndex, buildState, completed, published,
                       sharedVars, threadVars, failed>>
    PROVE  IInv'
  <1> USE DEF IInv, sharedVars, threadVars
  <1>1. CommandIdle' /\ WriteRuns'
    BY DEF CommandIdle, WriteRuns, Step
  <1>2. PhaseInv' /\ CacheInv' /\ ContainerInv' /\ PublishedInv' /\ OthersBuilt'
    BY DEF PhaseInv, CacheInv, ContainerInv, PublishedInv, OthersBuilt, Built, Buildable,
           Step, Todo, Phase, Left, Current
  <1>3. TextInv'
    BY DEF TextInv, Buildable, TypeOK
  <1>4. QuiescentBuilt'
    BY DEF QuiescentBuilt, Quiet
  <1> QED
    BY <1>1, <1>2, <1>3, <1>4

\* The bounds stay counters.
LEMMA UseTypes ==
    ASSUME TypeOK, NEW k \in Counted, NEW max,
           Use(k, max)
    PROVE  used' \in [Counted -> Nat]
  <1> DEFINE K == Counted
  <1>1. k \in K /\ used \in [K -> Nat] /\ used' = [used EXCEPT ![k] = @ + 1]
    BY DEF TypeOK, Use
  <1> HIDE DEF K
  <1>2. used' \in [K -> Nat]
    BY <1>1
  <1> QED
    BY <1>2 DEF K

\* The types after a step that leaves documents and builds alone.
LEMMA QueueTypes ==
    ASSUME TypeOK, queue' \in Seq(Operations), text' \in [Docs -> Nat],
           echo' \in SUBSET Docs, dirty' \in SUBSET Docs, missed' = missed, failed' = failed,
           used' \in [Counted -> Nat],
           UNCHANGED <<docs, parsed, state, link, refIndex, buildState, completed, published,
                       sharedVars, threadVars>>
    PROVE  TypeOK'
  BY DEF TypeOK, sharedVars, threadVars

LEMMA EditInv == ASSUME IInv, NEW d \in Docs, Edit(d) PROVE IInv'
  <1> USE DEF IInv, Edit
  <1>1. /\ queue' \in Seq(Operations) /\ queue' # <<>>
        /\ \A e \in Docs : Awaited(e) => Awaited(e)'
        /\ Awaited(d)'
    BY WriteQueues DEF threadVars
  <1>2. TypeOK'
    <2>1. text' \in [Docs -> Nat] /\ dirty' \in SUBSET Docs /\ echo' \in SUBSET Docs
      BY DEF TypeOK
    <2> QED
      BY <1>1, <2>1, UseTypes, QueueTypes DEF Counted
  <1>3. \A e \in Docs : text'[e] = text[e] \/ Awaited(e)'
    BY <1>1 DEF TypeOK
  <1> QED
    BY <1>1, <1>2, <1>3, QueueOnly

LEMMA SaveInv == ASSUME IInv, NEW d \in Docs, Save(d) PROVE IInv'
  <1> USE DEF IInv, Save, docVars, historyVars
  <1>1. /\ queue' \in Seq(Operations) /\ queue' # <<>>
        /\ \A e \in Docs : Awaited(e) => Awaited(e)'
    BY WriteQueues DEF threadVars
  <1>2. TypeOK'
    <2>1. text' \in [Docs -> Nat] /\ dirty' \in SUBSET Docs /\ echo' \in SUBSET Docs
      BY DEF TypeOK
    <2> QED
      BY <1>1, <2>1, UseTypes, QueueTypes DEF Counted
  <1> QED
    BY <1>1, <1>2, QueueOnly

LEMMA FileEventInv == ASSUME IInv, NEW d \in Docs, FileEvent(d) PROVE IInv'
  <1> USE DEF IInv, FileEvent, docVars, historyVars
  <1>1. /\ queue' \in Seq(Operations) /\ queue' # <<>>
        /\ \A e \in Docs : Awaited(e) => Awaited(e)'
    BY WriteQueues DEF threadVars
  <1>2. TypeOK'
    <2>1. text' \in [Docs -> Nat] /\ dirty' \in SUBSET Docs /\ echo' \in SUBSET Docs
      BY DEF TypeOK
    <2>2. used' \in [Counted -> Nat]
      BY DEF TypeOK
    <2> QED
      BY <1>1, <2>1, <2>2, QueueTypes
  <1> QED
    BY <1>1, <1>2, QueueOnly

LEMMA DeleteInv == ASSUME IInv, NEW d \in Docs, Delete(d) PROVE IInv'
  <1> USE DEF IInv, Delete, docVars
  <1>1. /\ queue' \in Seq(Operations) /\ queue' # <<>>
        /\ \A e \in Docs : Awaited(e) => Awaited(e)'
    BY WriteQueues DEF threadVars
  <1>2. TypeOK'
    <2>1. text' \in [Docs -> Nat] /\ dirty' \in SUBSET Docs /\ echo' \in SUBSET Docs
      BY DEF TypeOK
    <2> QED
      BY <1>1, <2>1, UseTypes, QueueTypes DEF Counted
  <1> QED
    BY <1>1, <1>2, QueueOnly

LEMMA InitInv == Init => IInv
  <1> SUFFICES ASSUME Init PROVE IInv
    OBVIOUS
  <1> USE DEF Init
  <1>1. TypeOK
    <2>1. /\ text \in [Docs -> Nat] /\ docs \in SUBSET Docs /\ parsed \in [Docs -> Nat]
          /\ published \in [Docs -> [text : Nat, link : [Docs -> Nat \cup {Unlinked}]]]
          /\ cache \in [Docs -> [Docs -> Nat \cup {Unlinked}]]
      BY DEF Loaded, NoLinks, Unfilled
    <2>2. /\ firstLoad \in BOOLEAN /\ completed \in SUBSET Docs /\ types \in [Docs -> Nat]
          /\ state \in [Docs -> States] /\ link \in [Docs -> [Docs -> Nat \cup {Unlinked}]]
          /\ refIndex \in [Docs -> SUBSET Docs]
      <3>1. CASE firstLoad = FALSE
        <4>1. /\ types = parsed /\ completed = Loaded
              /\ state = [d \in Docs |-> IF d \in Loaded THEN IndexedReferences ELSE Changed]
              /\ refIndex = [d \in Docs |-> IF d \in Loaded THEN Refs[d] \cap Loaded ELSE {}]
          BY <3>1
        <4>2. link = [d \in Docs |-> [e \in Docs |->
                         IF d \in Loaded /\ e \in Refs[d] THEN parsed[e] ELSE Unlinked]]
          BY <3>1
        <4>3. \A d, e \in Docs : (IF d \in Loaded /\ e \in Refs[d] THEN parsed[e] ELSE Unlinked)
                                 \in Nat \cup {Unlinked}
          BY <2>1
        <4>4. link \in [Docs -> [Docs -> Nat \cup {Unlinked}]]
          BY <4>2, <4>3
        <4>5. state \in [Docs -> States]
          BY <4>1 DEF States
        <4>6. refIndex \in [Docs -> SUBSET Docs]
          BY <4>1 DEF Loaded
        <4> QED
          BY <2>1, <3>1, <4>1, <4>4, <4>5, <4>6 DEF Loaded
      <3>2. CASE firstLoad = TRUE
        <4>1. /\ types = [d \in Docs |-> 0] /\ completed = {}
              /\ state = [d \in Docs |-> IF d \in Loaded THEN Parsed ELSE Changed]
              /\ refIndex = [d \in Docs |-> {}] /\ link = [d \in Docs |-> NoLinks]
          BY <3>2
        <4>2. NoLinks \in [Docs -> Nat \cup {Unlinked}]
          BY DEF NoLinks
        <4>3. state \in [Docs -> States]
          BY <4>1 DEF States
        <4> QED
          BY <3>2, <4>1, <4>2, <4>3
      <3> QED
        BY <3>1, <3>2
    <2>4. queue \in Seq(Operations)
      BY DEF Operations
    <2>5. buildState \in SUBSET Docs /\ used \in [Counted -> Nat]
      BY <2>2
    <2>6. /\ strategy \in [Threads -> Strategies] /\ phase \in [Threads -> Parsed..(Validated + 1)]
          /\ step \in [Threads -> {"idle", "updated", "building", "container"}]
          /\ todo \in [Threads -> SUBSET Docs] /\ left \in [Threads -> SUBSET Docs]
          /\ current \in [Threads -> Docs \cup {NoDoc}] /\ passed \in [Threads -> SUBSET Docs]
      BY DEF Strategies
    <2>7. /\ progress \in {"off", "spinning", "ready"} /\ echo \in SUBSET Docs
          /\ dirty \in SUBSET Docs /\ missed \in SUBSET (Docs \X Docs) /\ failed \in BOOLEAN
      OBVIOUS
    <2> HIDE DEF Init
    <2> QED
      BY <2>1, <2>2, <2>4, <2>5, <2>6, <2>7 DEF TypeOK
  <1>2. CommandIdle /\ WriteRuns /\ OthersBuilt
    BY DEF CommandIdle, WriteRuns, OthersBuilt, Threads, Step
  <1>3. PhaseInv /\ CacheInv /\ ContainerInv
    BY DEF PhaseInv, CacheInv, ContainerInv, Threads, Step, Todo, Phase, Left, Current
  <1>4. TextInv /\ PublishedInv
    BY DEF TextInv, PublishedInv, Buildable, Loaded
  <1>5. QuiescentBuilt
    BY DEF QuiescentBuilt, Quiet
  <1> QED
    BY <1>1, <1>2, <1>3, <1>4, <1>5 DEF IInv

-----------------------------------------------------------------------------
(* Update.                                                                 *)

\* The relinked documents are other documents of the workspace.
LEMMA RelinkOthers ==
    ASSUME NEW C, NEW D, NEW s
    PROVE  RelinkSet(C, D, s) \subseteq docs \ (C \cup D)
  BY DEF RelinkSet

\* An update keeps the types.
LEMMA UpdateTypes ==
    ASSUME TypeOK, NEW C \in SUBSET Docs, NEW D \in SUBSET docs, NEW s \in Strategies,
           Update("lock", C, D, s), UNCHANGED <<queue, used>>
    PROVE  TypeOK'
  <1> DEFINE R == RelinkSet(C, D, s)
  <1>1. R \subseteq docs \ (C \cup D)
    BY RelinkOthers
  <1>2. /\ state' \in [Docs -> States]
        /\ link' \in [Docs -> [Docs -> Nat \cup {Unlinked}]]
        /\ refIndex' \in [Docs -> SUBSET Docs]
        /\ completed' \in SUBSET Docs /\ buildState' \in SUBSET Docs
    <2>1. Reset(C, D, R)
      BY DEF Update
    <2>2. state' \in [Docs -> States]
      BY <2>1 DEF Reset, TypeOK, States
    <2>3. NoLinks \in [Docs -> Nat \cup {Unlinked}]
      BY DEF NoLinks
    <2>4. link' \in [Docs -> [Docs -> Nat \cup {Unlinked}]]
      BY <2>1, <2>3 DEF Reset, TypeOK
    <2> QED
      BY <2>1, <2>2, <2>4 DEF Reset, TypeOK
  <1>3. /\ docs' \in SUBSET Docs /\ parsed' \in [Docs -> Nat]
        /\ cache' \in [Docs -> [Docs -> Nat \cup {Unlinked}]]
        /\ dirty' \in SUBSET Docs
    BY DEF Update, TypeOK, Unfilled
  <1>4. missed' \in SUBSET (Docs \X Docs)
    BY DEF Update, TypeOK
  <1>5. /\ step' \in [Threads -> {"idle", "updated", "building", "container"}]
        /\ strategy' \in [Threads -> Strategies]
    BY DEF Update, TypeOK
  <1>6. UNCHANGED <<text, types, published, firstLoad, progress, todo, phase, left,
                    current, passed, echo, queue, used>>
    BY DEF Update
  <1>7. failed' \in BOOLEAN
    BY DEF Update
  <1> QED
    BY <1>2, <1>3, <1>4, <1>5, <1>6, <1>7 DEF TypeOK

\* An update on an idle lock keeps the invariant, if the write is at the head
\* of the queue and only a deletion leaves a document without a reset.
LEMMA UpdateInv ==
    ASSUME IInv, NEW C \in SUBSET Docs, NEW D \in SUBSET docs, NEW s \in Strategies,
           Step = "idle", queue # <<>>, Update("lock", C, D, s), UNCHANGED <<queue, used>>,
           Head(queue).kind # "delete" => Head(queue).doc \in C
    PROVE  IInv'
  <1> USE DEF IInv
  <1> DEFINE R == RelinkSet(C, D, s)
  <1>1. TypeOK'
    BY UpdateTypes
  <1>2. /\ step'["lock"] = "updated" /\ step'["command"] = step["command"]
        /\ UNCHANGED <<text, published, types, todo, phase, left, current>>
        /\ docs' = (docs \ D) \cup C
        /\ cache' = [d \in Docs |-> Unfilled]
        /\ failed' = FALSE
    BY DEF Update, TypeOK, Threads
  <1>3. /\ \A d \in docs \ (C \cup D \cup R) : state'[d] = state[d] /\ parsed'[d] = parsed[d]
        /\ \A d \in R : /\ state'[d] <= ComputedScopes /\ state'[d] <= state[d]
                        /\ parsed'[d] = parsed[d]
        /\ \A d \in C : state'[d] = Changed
    <2>1. R \subseteq docs \ (C \cup D)
      BY RelinkOthers
    <2>2. state' = [d \in Docs |-> IF d \in C \cup D THEN Changed
                                   ELSE IF d \in R /\ state[d] > ComputedScopes
                                        THEN ComputedScopes ELSE state[d]]
      BY DEF Update, Reset
    <2>3. parsed' = [d \in Docs |-> IF d \in D THEN 0 ELSE parsed[d]]
      BY DEF Update
    <2>4. ASSUME NEW d \in docs, d \notin D
          PROVE  /\ d \notin C \cup R => state'[d] = state[d] /\ parsed'[d] = parsed[d]
                 /\ d \in R => /\ state'[d] <= ComputedScopes /\ state'[d] <= state[d]
                               /\ parsed'[d] = parsed[d]
      <3>1. d \in Docs /\ state[d] \in 0..6
        BY DEF TypeOK, States
      <3>2. state'[d] = IF d \in C \cup D THEN Changed
                        ELSE IF d \in R /\ state[d] > ComputedScopes
                             THEN ComputedScopes ELSE state[d]
        BY <2>2, <3>1
      <3> QED
        BY <2>1, <2>3, <2>4, <3>1, <3>2
    <2>5. \A d \in C : state'[d] = Changed
      BY <2>2
    <2> QED
      BY <2>1, <2>4, <2>5
  <1>4. CommandIdle' /\ WriteRuns'
    BY <1>2 DEF CommandIdle, WriteRuns
  <1>5. PhaseInv'
    BY <1>2 DEF PhaseInv, Step, Todo, Phase, Left, Current
  <1>6. CacheInv' /\ ContainerInv' /\ OthersBuilt' /\ QuiescentBuilt'
    BY <1>2 DEF CacheInv, ContainerInv, OthersBuilt, QuiescentBuilt, Quiet, Step, Threads
  <1>7. \A d \in Docs \ C : Awaited(d) => Awaited(d)'
    <2> SUFFICES ASSUME NEW d \in Docs \ C, Awaited(d) PROVE Awaited(d)'
      OBVIOUS
    <2>1. PICK i \in 1..Len(queue) : queue[i].doc = d /\ queue[i].kind # "delete"
      BY DEF Awaited
    <2>2. queue[1] = Head(queue)
      BY DEF TypeOK
    <2>3. i > 1
      BY <2>1, <2>2 DEF TypeOK
    <2> QED
      BY <2>1, <2>3 DEF Awaited
  <1>8. TextInv' /\ PublishedInv'
    <2> SUFFICES ASSUME NEW d \in Buildable'
                 PROVE  /\ state'[d] >= Parsed => parsed'[d] = text'[d] \/ Awaited(d)'
                        /\ state'[d] = Validated => published'[d].text = parsed'[d]
      BY DEF TextInv, PublishedInv
    <2>1. CASE d \in C
      BY <1>3, <2>1
    <2>2. CASE d \notin C
      <3>1. d \in Buildable /\ d \in docs \ (C \cup D) /\ d \in Docs \ C
        BY <1>2, <2>2 DEF Buildable, TypeOK
      <3>2. /\ parsed'[d] = parsed[d] /\ state[d] \in 0..6 /\ state'[d] \in 0..6
            /\ state'[d] <= state[d]
        <4>1. d \in Docs /\ state[d] \in 0..6 /\ state'[d] \in 0..6
          BY <1>1, <3>1 DEF TypeOK, States
        <4> QED
          BY <1>3, <3>1, <4>1
      <3>3. state'[d] = Validated => state[d] = Validated
        BY <3>2
      <3>4. state'[d] >= Parsed => state[d] >= Parsed
        BY <3>2
      <3> QED
        BY <1>2, <1>7, <3>1, <3>2, <3>3, <3>4 DEF TextInv, PublishedInv
    <2> QED
      BY <2>1, <2>2
  <1> QED
    BY <1>1, <1>4, <1>5, <1>6, <1>8

LEMMA RunWriteInv == ASSUME IInv, RunWrite PROVE IInv'
  <1> DEFINE op == Head(queue)
  <1>1. op \in Operations /\ queue # <<>> /\ Step = "idle" /\ UNCHANGED <<queue, used>>
    BY DEF RunWrite, IInv, TypeOK, Step
  <1>2. op.doc \in Docs
    BY <1>1 DEF Operations
  <1>3. CASE op.kind = "change"
    <2>1. Update("lock", {op.doc}, {}, "PartialBuildDuringEdition")
      BY <1>3 DEF RunWrite
    <2> QED
      BY <1>1, <1>2, <2>1, UpdateInv DEF Strategies
  <1>4. CASE op.kind = "save"
    <2>1. Update("lock", {op.doc}, {}, "PartialBuildAfterSave")
      BY <1>4 DEF RunWrite
    <2> QED
      BY <1>1, <1>2, <2>1, UpdateInv DEF Strategies
  <1>5. CASE op.kind = "delete"
    <2>1. Update("lock", {}, {op.doc} \cap docs, "PartialBuildDuringEdition")
      BY <1>5 DEF RunWrite
    <2> QED
      BY <1>1, <1>5, <2>1, UpdateInv DEF Strategies
  <1> QED
    BY <1>1, <1>3, <1>4, <1>5 DEF Operations

-----------------------------------------------------------------------------
(* The end of a write.                                                     *)

\* What dropping the head of the queue leaves.
LEMMA TailOfQueue ==
    ASSUME NEW q \in Seq(Operations), q # <<>>
    PROVE  /\ Tail(q) \in Seq(Operations)
           /\ Len(q) \in Nat /\ Len(q) >= 1
           /\ Len(Tail(q)) = Len(q) - 1
           /\ \A i \in 1..(Len(q) - 1) : Tail(q)[i] = q[i + 1]
           /\ Len(q) > 1 => Tail(q) # <<>>
           /\ ~(Len(q) > 1) => Len(q) = 1
  <1>1. /\ Tail(q) \in Seq(Operations)
        /\ Len(q) \in Nat
        /\ Len(Tail(q)) = Len(q) - 1
        /\ \A i \in 1..(Len(q) - 1) : Tail(q)[i] = q[i + 1]
    OBVIOUS
  <1>2. Len(q) >= 1
    BY EmptySeq
  <1>3. ASSUME Len(q) > 1, Tail(q) = <<>> PROVE FALSE
    <2>1. PICK n, k : n = Len(Tail(q)) /\ k = Len(q)
      OBVIOUS
    <2>2. n = 0
      BY <1>3, <2>1, EmptySeq, Zenon
    <2>3. k \in Nat /\ n = k - 1 /\ k > 1
      BY <1>1, <1>3, <2>1
    <2> QED
      BY ONLY <2>2, <2>3
  <1> QED
    BY <1>1, <1>2, <1>3

\* When the lock finishes a write nothing awaited is lost.
LEMMA FinishWrite ==
    ASSUME IInv, Step # "idle", Finish("lock")
    PROVE  /\ queue' = Tail(queue) /\ queue' \in Seq(Operations)
           /\ Len(queue) > 1 => queue' # <<>>
           /\ Step' = "idle" /\ Todo' = {} /\ Phase' = Parsed /\ Left' = {}
           /\ Current' = NoDoc /\ CommandIdle'
           /\ \A d \in Docs : Awaited(d) => Awaited(d)'
           /\ Len(queue) = 1 => \A d \in Docs : ~Awaited(d)
  <1> USE DEF IInv, Finish
  <1>1. queue \in Seq(Operations) /\ queue # <<>> /\ queue' = Tail(queue)
    BY DEF TypeOK, WriteRuns
  <1>2. /\ queue' \in Seq(Operations)
        /\ Len(queue) \in Nat
        /\ Len(queue') = Len(queue) - 1
        /\ \A i \in 1..(Len(queue) - 1) : queue'[i] = queue[i + 1]
        /\ Len(queue) > 1 => queue' # <<>>
    BY <1>1, TailOfQueue
  <1>3. /\ Step' = "idle" /\ Todo' = {} /\ Phase' = Parsed /\ Left' = {}
        /\ Current' = NoDoc /\ CommandIdle'
    BY DEF TypeOK, Threads, Step, Todo, Phase, Left, Current, CommandIdle
  <1>4. ASSUME NEW d \in Docs, Awaited(d) PROVE Awaited(d)'
    <2>1. PICK i \in 1..Len(queue) : /\ queue[i].doc = d /\ queue[i].kind # "delete"
                                     /\ i > 1
      BY <1>4 DEF Awaited
    <2>2. i - 1 \in 1..Len(queue') /\ queue'[i - 1] = queue[i]
      BY <1>2, <2>1
    <2> QED
      BY <1>3, <2>1, <2>2 DEF Awaited
  <1>5. Len(queue) = 1 => \A d \in Docs : ~Awaited(d)
    BY DEF Awaited
  <1> QED
    BY <1>1, <1>2, <1>3, <1>4, <1>5

\* The invariant after a write that leaves the documents as they are.
LEMMA FinishInv ==
    ASSUME IInv, Step # "idle", Finish("lock"), TypeOK', QuiescentBuilt',
           UNCHANGED <<text, docs, parsed, state, published>>
    PROVE  IInv'
  <1> USE DEF IInv
  <1>1. /\ Step' = "idle" /\ Todo' = {} /\ Phase' = Parsed /\ Left' = {}
        /\ Current' = NoDoc /\ CommandIdle'
        /\ \A d \in Docs : Awaited(d) => Awaited(d)'
    BY FinishWrite
  <1>2. WriteRuns' /\ PhaseInv' /\ CacheInv' /\ ContainerInv' /\ OthersBuilt'
    BY <1>1 DEF WriteRuns, PhaseInv, CacheInv, ContainerInv, OthersBuilt
  <1>3. TextInv' /\ PublishedInv'
    BY <1>1 DEF TextInv, PublishedInv, Buildable, TypeOK
  <1> QED
    BY <1>1, <1>2, <1>3

\* Finish keeps the types of what it changes.
LEMMA FinishTypes ==
    ASSUME IInv, Step # "idle", Finish("lock")
    PROVE  /\ step' \in [Threads -> {"idle", "updated", "building", "container"}]
           /\ todo' \in [Threads -> SUBSET Docs]
           /\ phase' \in [Threads -> Parsed..(Validated + 1)]
           /\ left' \in [Threads -> SUBSET Docs]
           /\ current' \in [Threads -> Docs \cup {NoDoc}]
           /\ passed' \in [Threads -> SUBSET Docs]
           /\ queue' \in Seq(Operations)
  <1>1. queue' \in Seq(Operations)
    BY FinishWrite
  <1>2. /\ step' \in [Threads -> {"idle", "updated", "building", "container"}]
        /\ todo' \in [Threads -> SUBSET Docs] /\ left' \in [Threads -> SUBSET Docs]
        /\ passed' \in [Threads -> SUBSET Docs]
    BY DEF IInv, TypeOK, Finish
  <1>3. current' \in [Threads -> Docs \cup {NoDoc}]
    BY DEF IInv, TypeOK, Finish
  <1>4. phase' \in [Threads -> Parsed..(Validated + 1)]
    <2>1. Parsed \in Parsed..(Validated + 1)
      OBVIOUS
    <2>2. phase \in [Threads -> Parsed..(Validated + 1)]
      BY DEF IInv, TypeOK
    <2>3. phase' = [phase EXCEPT !["lock"] = Parsed]
      BY DEF Finish
    <2> HIDE DEF Parsed, Validated
    <2> QED
      BY <2>1, <2>2, <2>3
  <1> QED
    BY <1>1, <1>2, <1>3, <1>4

LEMMA UpdateInterruptedInv == ASSUME IInv, UpdateInterrupted("lock") PROVE IInv'
  <1> USE DEF UpdateInterrupted
  <1>1. Step # "idle" /\ Len(queue) > 1
    BY DEF Step, Cancelled
  <1>2. TypeOK'
    BY <1>1, FinishTypes DEF IInv, TypeOK, docVars, sharedVars, historyVars
  <1>3. QuiescentBuilt'
    BY <1>1, FinishWrite DEF QuiescentBuilt, Quiet
  <1> QED
    BY <1>1, <1>2, <1>3, FinishInv DEF docVars

\* A build that fails leaves no more behind than one that is cancelled.
LEMMA BuildFailsInv == ASSUME IInv, BuildFails("lock") PROVE IInv'
  <1> USE DEF BuildFails
  <1>1. Step # "idle" /\ failed'
    BY DEF Step
  <1>2. TypeOK'
    BY <1>1, FinishTypes, UseTypes DEF IInv, TypeOK, docVars, sharedVars, Counted
  <1>3. QuiescentBuilt'
    BY <1>1 DEF QuiescentBuilt
  <1> QED
    BY <1>1, <1>2, <1>3, FinishInv DEF docVars

LEMMA BuildInterruptedInv == ASSUME IInv, BuildInterrupted("lock") PROVE IInv'
  <1> USE DEF BuildInterrupted, CompletedBy
  <1>1. Step # "idle" /\ Len(queue) > 1
    BY DEF Step, Cancelled
  <1>2. completed' \in SUBSET Docs
    BY DEF IInv, TypeOK, Threads
  <1>3. TypeOK'
    BY <1>1, <1>2, FinishTypes DEF IInv, TypeOK, sharedVars, historyVars
  <1>4. QuiescentBuilt'
    BY <1>1, FinishWrite DEF QuiescentBuilt, Quiet
  <1> QED
    BY <1>1, <1>3, <1>4, FinishInv

\* A build that ends leaves every document built with its current text.
LEMMA EndBuildInv == ASSUME IInv, EndBuild("lock") PROVE IInv'
  <1>1. Step = "building" /\ Phase > Validated /\ Len(queue) = 1
    <2>1. Step = "building" /\ Phase > Validated /\ ~(Len(queue) > 1)
      BY DEF EndBuild, Step, Phase, Cancelled
    <2>2. queue \in Seq(Operations) /\ queue # <<>>
      BY <2>1 DEF IInv, TypeOK, WriteRuns
    <2>3. ~(Len(queue) > 1) => Len(queue) = 1
      BY <2>2, TailOfQueue
    <2> QED
      BY <2>1, <2>3, Zenon
  <1>2. completed' = completed \cup Todo /\ Todo \subseteq Buildable
    BY DEF EndBuild, CompletedBy, Todo, IInv, PhaseInv
  <1>3. TypeOK'
    <2>1. /\ Finish("lock") /\ Step # "idle"
          /\ UNCHANGED <<text, docs, parsed, state, link, refIndex, buildState, published, types,
                         cache, strategy, historyVars, echo, used>>
          /\ progress' \in {progress, "ready"} /\ firstLoad' = FALSE
      BY <1>1 DEF EndBuild
    <2>2. completed' \in SUBSET Docs
      BY <1>2 DEF IInv, TypeOK, Buildable
    <2>3. progress' \in {"off", "spinning", "ready"}
      BY <2>1 DEF IInv, TypeOK
    <2>4. /\ text' = text /\ docs' = docs /\ parsed' = parsed /\ state' = state /\ link' = link
          /\ refIndex' = refIndex /\ published' = published /\ types' = types /\ cache' = cache
          /\ strategy' = strategy /\ dirty' = dirty /\ missed' = missed /\ echo' = echo
          /\ used' = used /\ firstLoad' \in BOOLEAN /\ buildState' = buildState
          /\ failed' = failed
      BY <2>1 DEF historyVars
    <2>5. /\ step' \in [Threads -> {"idle", "updated", "building", "container"}]
          /\ todo' \in [Threads -> SUBSET Docs] /\ left' \in [Threads -> SUBSET Docs]
          /\ phase' \in [Threads -> Parsed..(Validated + 1)]
          /\ current' \in [Threads -> Docs \cup {NoDoc}]
          /\ passed' \in [Threads -> SUBSET Docs] /\ queue' \in Seq(Operations)
      BY <2>1, FinishTypes
    <2>6. /\ text' \in [Docs -> Nat] /\ docs' \in SUBSET Docs /\ parsed' \in [Docs -> Nat]
          /\ state' \in [Docs -> States] /\ link' \in [Docs -> [Docs -> Nat \cup {Unlinked}]]
          /\ refIndex' \in [Docs -> SUBSET Docs] /\ types' \in [Docs -> Nat]
      BY <2>4 DEF IInv, TypeOK
    <2>7. /\ cache' \in [Docs -> [Docs -> Nat \cup {Unlinked}]]
          /\ published' \in [Docs -> [text : Nat, link : [Docs -> Nat \cup {Unlinked}]]]
          /\ echo' \in SUBSET Docs /\ strategy' \in [Threads -> Strategies]
      BY <2>4 DEF IInv, TypeOK
    <2>8. /\ dirty' \in SUBSET Docs /\ missed' \in SUBSET (Docs \X Docs)
          /\ failed' \in BOOLEAN /\ buildState' \in SUBSET Docs
          /\ used' \in [Counted -> Nat]
      BY <2>4 DEF IInv, TypeOK
    <2> QED
      BY <2>2, <2>3, <2>4, <2>5, <2>6, <2>7, <2>8 DEF TypeOK
  <1>4. \A d \in Buildable : Built(d)' /\ published'[d].text = text'[d]
    <2> SUFFICES ASSUME NEW d \in Buildable PROVE Built(d)' /\ published'[d].text = text'[d]
      OBVIOUS
    <2>1. Phase = Validated + 1
      <3>1. Phase \in Parsed..(Validated + 1)
        BY DEF IInv, TypeOK, Phase, Threads
      <3> QED
        BY ONLY <1>1, <3>1 DEF Parsed, Validated
    <2>2. state[d] = Validated /\ d \in completed'
      <3>1. CASE d \in Todo
        <4>1. state[d] >= Validated
          BY <2>1, <3>1 DEF IInv, PhaseInv
        <4>2. state[d] \in States
          BY DEF IInv, TypeOK, Buildable
        <4> QED
          BY <1>2, <3>1, <4>1, <4>2 DEF States
      <3>2. CASE d \notin Todo
        BY <1>1, <1>2, <3>2 DEF IInv, OthersBuilt, Built
      <3> QED
        BY <3>1, <3>2
    <2>3. ~Awaited(d)
      BY <1>1, FinishWrite DEF EndBuild, Buildable, IInv, TypeOK
    <2>4. published[d].text = text[d]
      BY <2>2, <2>3 DEF IInv, TextInv, PublishedInv
    <2> QED
      BY <2>2, <2>4 DEF EndBuild, Built
  <1>5. QuiescentBuilt'
    BY <1>4 DEF EndBuild, QuiescentBuilt, Buildable
  <1> QED
    BY <1>1, <1>3, <1>5, FinishInv DEF EndBuild

-----------------------------------------------------------------------------
(* The steps of a build.                                                   *)

\* What any step of a running write keeps, if it is not the last one.
LEMMA RunningStep ==
    ASSUME IInv, Step # "idle", Step' # "idle", step'["command"] = step["command"],
           UNCHANGED <<docs, queue, failed>>
    PROVE  /\ CommandIdle' /\ WriteRuns' /\ QuiescentBuilt' /\ Buildable' = Buildable
           /\ \A d \in Docs : Awaited(d) => Awaited(d)'
  <1>1. CommandIdle' /\ WriteRuns' /\ Buildable' = Buildable
    BY DEF IInv, CommandIdle, WriteRuns, Buildable
  <1>2. QuiescentBuilt'
    BY DEF QuiescentBuilt, Quiet, Step, Threads
  <1>3. ASSUME NEW d \in Docs, Awaited(d) PROVE Awaited(d)'
    BY <1>3 DEF Awaited
  <1> QED
    BY <1>1, <1>2, <1>3

\* ... and what it keeps if it leaves texts, trees and diagnostics alone.
LEMMA RunningDocs ==
    ASSUME IInv, Step # "idle", Step' # "idle", step'["command"] = step["command"],
           UNCHANGED <<text, docs, parsed, state, published, queue, failed>>
    PROVE  TextInv' /\ PublishedInv'
  BY RunningStep DEF IInv, TextInv, PublishedInv, Buildable, TypeOK

LEMMA StartBuildInv == ASSUME IInv, StartBuild("lock") PROVE IInv'
  <1> DEFINE rebuild == {d \in docs \ Excluded : NeedsBuild(d)}
  <1>1. /\ Step = "updated" /\ Step' = "building" /\ step'["command"] = step["command"]
        /\ Todo' = rebuild /\ Left' = rebuild /\ Phase' = Parsed /\ Current' = Current
        /\ completed' = completed \ rebuild /\ buildState' = buildState \cup rebuild
        /\ UNCHANGED <<text, docs, parsed, state, published, cache, queue, failed>>
    BY DEF StartBuild, historyVars, IInv, TypeOK, Threads, Step, Todo, Left, Phase, Current
  <1>2. TypeOK'
    <2>1. rebuild \in SUBSET Docs /\ Parsed \in Parsed..(Validated + 1)
      BY DEF IInv, TypeOK
    <2>2. /\ step' \in [Threads -> {"idle", "updated", "building", "container"}]
          /\ todo' \in [Threads -> SUBSET Docs] /\ left' \in [Threads -> SUBSET Docs]
          /\ completed' \in SUBSET Docs /\ buildState' \in SUBSET Docs
          /\ progress' \in {"off", "spinning", "ready"}
      BY <2>1 DEF StartBuild, IInv, TypeOK
    <2>3. phase' \in [Threads -> Parsed..(Validated + 1)]
      <3>1. /\ phase \in [Threads -> Parsed..(Validated + 1)]
            /\ phase' = [phase EXCEPT !["lock"] = Parsed]
        BY DEF StartBuild, IInv, TypeOK
      <3> HIDE DEF Parsed, Validated
      <3> QED
        BY <2>1, <3>1
    <2> QED
      BY <2>2, <2>3 DEF StartBuild, IInv, TypeOK, historyVars
  <1>3. \A d \in docs : state[d] \in 0..6
    BY DEF IInv, TypeOK, States
  <1>4. PhaseInv'
    BY <1>1, <1>3 DEF IInv, PhaseInv, Buildable
  <1>5. CacheInv' /\ ContainerInv'
    BY <1>1 DEF IInv, PhaseInv, CacheInv, ContainerInv
  <1>6. OthersBuilt'
    BY <1>1, <1>3 DEF OthersBuilt, Built, Buildable, NeedsBuild
  <1> QED
    BY <1>1, <1>2, <1>4, <1>5, <1>6, RunningStep, RunningDocs DEF IInv

LEMMA BeginDocumentInv == ASSUME IInv, NEW d \in Docs, BeginDocument("lock", d) PROVE IInv'
  <1>1. PICK skipped \in SUBSET {e \in Left : state[e] >= Phase} :
           left' = [left EXCEPT !["lock"] = @ \ (skipped \cup {d})]
    BY DEF BeginDocument, Left, Phase
  <1>2. /\ Step = "building" /\ Current = NoDoc /\ d \in Left /\ state[d] < Phase
        /\ Phase <= Validated
        /\ step' = step /\ Todo' = Todo /\ Phase' = Phase /\ Current' = d
        /\ Left' = Left \ (skipped \cup {d})
        /\ UNCHANGED <<docVars, types, cache, queue, todo, phase, failed>>
    BY <1>1 DEF BeginDocument, historyVars, IInv, TypeOK, Threads, Step, Todo, Left, Phase, Current
  <1>3. TypeOK'
    <2>1. /\ left' \in [Threads -> SUBSET Docs]
          /\ current' \in [Threads -> Docs \cup {NoDoc}]
          /\ progress' \in {"off", "spinning", "ready"}
      BY <1>1 DEF BeginDocument, IInv, TypeOK
    <2> QED
      BY <2>1 DEF BeginDocument, IInv, TypeOK, docVars, historyVars
  <1>4. PhaseInv'
    <2>1. d # NoDoc /\ NoDoc \notin Docs
      BY BuilderAssumption
    <2>2. /\ Todo \subseteq Buildable /\ Todo \subseteq buildState /\ Left \subseteq Todo
          /\ \A e \in Todo : state[e] >= Phase - 1
          /\ \A e \in Todo \ Left : e # NoDoc => state[e] >= Phase
      BY <1>2 DEF IInv, PhaseInv
    <2>3. Todo \subseteq Docs
      BY <2>2 DEF Buildable, IInv, TypeOK
    <2>4. \A e \in Todo \ Left' : e # Current' => state[e] >= Phase
      BY <1>1, <1>2, <2>1, <2>2, <2>3
    <2> QED
      BY <1>2, <2>1, <2>2, <2>4 DEF PhaseInv, Buildable, Step, docVars
  <1>5. CacheInv' /\ ContainerInv' /\ OthersBuilt'
    BY <1>2 DEF IInv, CacheInv, ContainerInv, OthersBuilt, Built, Buildable, Step, docVars
  <1> QED
    BY <1>2, <1>3, <1>4, <1>5, RunningStep, RunningDocs DEF IInv, Step, docVars

\* While a document is being linked, what it sees are current trees.
LEMMA SeenIsCurrent ==
    ASSUME IInv, Step = "building", Phase = Linked, Current # NoDoc,
           NEW d \in Docs
    PROVE  /\ Seen(d) \in [Docs -> Nat \cup {Unlinked}]
           /\ \A e \in Docs : Seen(d)[e] > 0 => Seen(d)[e] = parsed[e]
  <1>1. \A e \in Docs : types[e] # 0 => types[e] = parsed[e]
    BY DEF IInv, PhaseInv, ContainerInv
  <1>2. CASE cache[d] # Unfilled
    BY <1>2 DEF Seen, IInv, TypeOK, CacheInv
  <1>3. CASE cache[d] = Unfilled
    <2>1. Seen(d) = [e \in Docs |-> IF types[e] # 0 THEN types[e]
                                    ELSE IF state[e] >= IndexedContent THEN parsed[e] ELSE 0]
      BY <1>3 DEF Seen, Indexed
    <2>2. types \in [Docs -> Nat] /\ parsed \in [Docs -> Nat]
      BY DEF IInv, TypeOK
    <2> QED
      BY <1>1, <2>1, <2>2
  <1> QED
    BY <1>2, <1>3

\* Resolving a reference then binds it to a current tree.
LEMMA ResolveIsCurrent ==
    ASSUME IInv, Step = "building", Phase = Linked, Current # NoDoc,
           NEW d \in Docs, NEW e \in Docs, ResolveReference(d, e)
    PROVE  /\ link' \in [Docs -> [Docs -> Nat \cup {Unlinked}]]
           /\ cache' \in [Docs -> [Docs -> Nat \cup {Unlinked}]]
           /\ \A f, g \in Docs : link'[f][g] # link[f][g] /\ link'[f][g] > 0 =>
                                 link'[f][g] = parsed[g]
           /\ \A f, g \in Docs : cache'[f][g] > 0 => cache'[f][g] = parsed[g]
  <1> DEFINE target == IF types[d] = 0 THEN Broken ELSE Seen(d)[e]
             keep == target # Broken \/ state[d] >= ComputedScopes
  <1>1. /\ link' = [link EXCEPT ![d][e] = IF keep THEN target ELSE @]
        /\ cache' = [cache EXCEPT ![d] = IF types[d] = 0 THEN @ ELSE Seen(d)]
    BY DEF ResolveReference
  <1>2. /\ link \in [Docs -> [Docs -> Nat \cup {Unlinked}]]
        /\ cache \in [Docs -> [Docs -> Nat \cup {Unlinked}]]
        /\ \A f, g \in Docs : cache[f][g] > 0 => cache[f][g] = parsed[g]
    BY DEF IInv, TypeOK, CacheInv
  <1>3. target \in Nat \cup {Unlinked} /\ (target > 0 => target = parsed[e])
    BY SeenIsCurrent
  <1>4. cache' \in [Docs -> [Docs -> Nat \cup {Unlinked}]]
    BY <1>1, <1>2, SeenIsCurrent
  <1>5. \A f, g \in Docs : cache'[f][g] > 0 => cache'[f][g] = parsed[g]
    BY <1>1, <1>2, SeenIsCurrent
  <1> HIDE DEF target, keep
  <1>6. link' \in [Docs -> [Docs -> Nat \cup {Unlinked}]]
    BY <1>1, <1>2, <1>3
  <1>7. ASSUME NEW f \in Docs, NEW g \in Docs, link'[f][g] # link[f][g], link'[f][g] > 0
        PROVE  link'[f][g] = parsed[g]
    <2>1. f = d /\ g = e /\ link'[f][g] = target
      BY <1>1, <1>2, <1>7
    <2> QED
      BY <1>3, <1>7, <2>1
  <1> QED
    BY <1>4, <1>5, <1>6, <1>7

LEMMA LinkReferenceInv == ASSUME IInv, NEW e \in Docs, LinkReference("lock", e) PROVE IInv'
  <1> DEFINE d == Current
  <1>1. /\ Step = "building" /\ Phase = Linked /\ d # NoDoc /\ d \in Docs
        /\ UNCHANGED <<text, docs, parsed, state, buildState, completed, published, types, queue,
                       step, todo, phase, left, current, failed>>
        /\ \/ ResolveReference(d, e)
           \/ UNCHANGED <<link, cache>>
    BY DEF LinkReference, historyVars, IInv, TypeOK, Threads, Step, Phase, Current
  <1>2. /\ link' \in [Docs -> [Docs -> Nat \cup {Unlinked}]]
        /\ cache' \in [Docs -> [Docs -> Nat \cup {Unlinked}]]
        /\ \A f, g \in Docs : cache'[f][g] > 0 => cache'[f][g] = parsed[g]
    <2>1. CASE ResolveReference(d, e)
      BY <1>1, <2>1, ResolveIsCurrent
    <2>2. CASE UNCHANGED <<link, cache>>
      BY <1>1, <2>2 DEF IInv, TypeOK, CacheInv
    <2> QED
      BY <1>1, <2>1, <2>2
  <1>3. TypeOK'
    <2>1. passed' \in [Threads -> SUBSET Docs]
      <3>1. passed' = [passed EXCEPT !["lock"] = @ \cup {e}]
        BY DEF LinkReference
      <3>2. passed \in [Threads -> SUBSET Docs]
        BY DEF IInv, TypeOK
      <3> QED
        BY ONLY <3>1, <3>2, e \in Docs
    <2>2. UNCHANGED <<refIndex, firstLoad, progress, echo, strategy, dirty, missed, failed, used>>
      BY DEF LinkReference, sharedVars, historyVars
    <2> QED
      BY <1>1, <1>2, <2>1, <2>2 DEF IInv, TypeOK
  <1>4. PhaseInv' /\ ContainerInv' /\ OthersBuilt'
    BY <1>1 DEF IInv, PhaseInv, ContainerInv, OthersBuilt, Built, Buildable, Step, Todo,
                Phase, Left, Current
  <1>5. CacheInv'
    BY <1>1, <1>2 DEF CacheInv, Step, Phase
  <1> QED
    BY <1>1, <1>3, <1>4, <1>5, RunningStep, RunningDocs DEF IInv, Step

LEMMA EndDocumentInv == ASSUME IInv, EndDocument("lock") PROVE IInv'
  <1> DEFINE d == Current
  <1>1. /\ Step = "building" /\ d # NoDoc /\ d \in Docs
        /\ state' = [state EXCEPT ![d] = Phase]
        /\ parsed' = [parsed EXCEPT ![d] = IF Phase = Parsed THEN text[d] ELSE @]
        /\ published' = [published EXCEPT ![d] =
                            IF Phase = Validated
                            THEN [text |-> parsed[d], link |-> link[d]] ELSE @]
        /\ Step' = Step /\ Todo' = Todo /\ Phase' = Phase /\ Left' = Left /\ Current' = NoDoc
        /\ UNCHANGED <<text, docs, buildState, completed, types, cache, queue, step, failed>>
    BY DEF EndDocument, sharedVars, historyVars, IInv, TypeOK, Threads, Step, Phase, Todo, Left, Current
  <1>2. /\ d \in Todo /\ state[d] < Phase /\ Phase \in 1..6 /\ state[d] >= Phase - 1
        /\ Todo \subseteq Docs /\ Buildable \subseteq Docs
    <2>1. /\ d \in Todo /\ state[d] < Phase /\ Phase <= Validated /\ state[d] >= Phase - 1
          /\ Todo \subseteq Buildable
      BY <1>1 DEF IInv, PhaseInv
    <2>2. Phase \in 1..7 /\ Buildable \subseteq Docs
      BY DEF IInv, TypeOK, Phase, Threads, Buildable
    <2>3. Phase \in 1..6
      BY <2>1, <2>2
    <2> QED
      BY <2>1, <2>2, <2>3
  <1>3. /\ state \in [Docs -> 0..6] /\ parsed \in [Docs -> Nat] /\ text \in [Docs -> Nat]
        /\ published \in [Docs -> [text : Nat, link : [Docs -> Nat \cup {Unlinked}]]]
        /\ link[d] \in [Docs -> Nat \cup {Unlinked}]
    BY <1>1 DEF IInv, TypeOK, States
  <1>4. /\ state'[d] = Phase
        /\ \A e \in Docs \ {d} : /\ state'[e] = state[e] /\ parsed'[e] = parsed[e]
                                 /\ published'[e] = published[e]
        /\ Phase = Parsed => parsed'[d] = text[d]
        /\ Phase # Parsed => parsed' = parsed
        /\ Phase = Validated => published'[d].text = parsed[d]
    BY <1>1, <1>3
  <1>5. TypeOK'
    <2>1. state' \in [Docs -> States] /\ parsed' \in [Docs -> Nat]
      BY <1>1, <1>2, <1>3 DEF States
    <2>2. published' \in [Docs -> [text : Nat, link : [Docs -> Nat \cup {Unlinked}]]]
      BY <1>1, <1>3
    <2>3. link' \in [Docs -> [Docs -> Nat \cup {Unlinked}]]
      <3>1. NoLinks \in [Docs -> Nat \cup {Unlinked}]
        BY DEF NoLinks
      <3> QED
        BY <3>1 DEF EndDocument, IInv, TypeOK
    <2>4. refIndex' \in [Docs -> SUBSET Docs]
      <3>1. {e \in Refs[d] : link[d][e] \notin {Broken, Unlinked}} \in SUBSET Docs
        BY <1>1, BuilderAssumption
      <3> QED
        BY <3>1 DEF EndDocument, IInv, TypeOK, Phase, Current
    <2>5. current' \in [Threads -> Docs \cup {NoDoc}] /\ passed' \in [Threads -> SUBSET Docs]
      BY DEF EndDocument, IInv, TypeOK
    <2> QED
      BY <2>1, <2>2, <2>3, <2>4, <2>5 DEF EndDocument, IInv, TypeOK, sharedVars, historyVars
  <1>6. PhaseInv'
    <2>3. /\ \A e \in Todo : state[e] >= Phase - 1
          /\ \A e \in Todo \ Left : e # d => state[e] >= Phase
      BY <1>1 DEF IInv, PhaseInv
    <2>1. \A e \in Todo : state'[e] >= Phase - 1
      BY <1>2, <1>4, <2>3
    <2>2. \A e \in Todo \ Left : state'[e] >= Phase
      <3> SUFFICES ASSUME NEW e \in Todo \ Left PROVE state'[e] >= Phase
        OBVIOUS
      <3>1. CASE e = d
        BY ONLY <1>2, <1>4, <3>1
      <3>2. CASE e # d
        BY <1>2, <1>4, <2>3, <3>2
      <3> QED
        BY <3>1, <3>2
    <2> QED
      BY <1>1, <2>1, <2>2 DEF IInv, PhaseInv, Buildable
  <1>7. CacheInv'
    BY <1>1, <1>4 DEF IInv, CacheInv
  <1>8. ContainerInv'
    BY <1>1, <1>2, <1>4 DEF IInv, ContainerInv
  <1>9. TextInv' /\ PublishedInv'
    <2>1. Buildable' = Buildable /\ \A e \in Docs : Awaited(e) => Awaited(e)'
      BY <1>1, RunningStep
    <2>2. TextInv'
      <3> SUFFICES ASSUME NEW e \in Buildable, state'[e] >= Parsed
                   PROVE  parsed'[e] = text[e] \/ Awaited(e)'
        BY <1>1, <2>1 DEF TextInv
      <3>1. e \in Docs /\ (state[e] >= Parsed => parsed[e] = text[e] \/ Awaited(e))
        BY <1>2 DEF IInv, TextInv
      <3>2. CASE e # d
        BY <1>4, <2>1, <3>1, <3>2
      <3>3. CASE e = d /\ Phase = Parsed
        BY <1>4, <3>3
      <3>4. CASE e = d /\ Phase # Parsed
        <4>1. state[d] \in 0..6 /\ Phase \in 1..6 /\ state[d] >= Phase - 1 /\ Phase # Parsed
          BY <1>2, <1>3, <3>4
        <4>2. state[d] >= Parsed
          BY ONLY <4>1 DEF Parsed
        <4> QED
          BY <1>4, <2>1, <3>1, <3>4, <4>2
      <3> QED
        BY <3>2, <3>3, <3>4
    <2>3. PublishedInv'
      BY <1>2, <1>3, <1>4, <2>1 DEF IInv, PublishedInv
    <2> QED
      BY <2>2, <2>3
  <1>10. OthersBuilt'
    BY <1>1, <1>2, <1>4 DEF IInv, OthersBuilt, Built, Buildable
  <1> QED
    BY <1>1, <1>5, <1>6, <1>7, <1>8, <1>9, <1>10, RunningStep DEF IInv

\* When a phase is over, all documents of the build have gone through it.
LEMMA PhaseOverMeans ==
    ASSUME IInv, PhaseOver("lock")
    PROVE  /\ Step = "building" /\ Phase \in 1..6 /\ Current = NoDoc
           /\ \A d \in Todo : state[d] \in 0..6 /\ state[d] >= Phase
  <1>1. /\ Step = "building" /\ Phase <= Validated /\ Current = NoDoc
        /\ \A d \in Left : state[d] >= Phase
    BY DEF PhaseOver, Step, Phase, Current, Left
  <1>2. Phase \in 1..6
    BY <1>1 DEF IInv, TypeOK, Phase, Threads
  <1>3. Todo \subseteq Docs /\ NoDoc \notin Todo
    BY BuilderAssumption DEF IInv, TypeOK, PhaseInv, Buildable
  <1>4. \A d \in Todo : state[d] \in 0..6
    BY <1>3 DEF IInv, TypeOK, States
  <1>5. \A d \in Todo \ Left : state[d] >= Phase
    BY <1>1, <1>3 DEF IInv, PhaseInv
  <1> QED
    BY <1>1, <1>2, <1>4, <1>5

\* The phase counter stays in its range when a phase ends.
LEMMA NextPhaseTypes ==
    ASSUME IInv, Phase \in 1..6, phase' = [phase EXCEPT !["lock"] = @ + 1],
           left' = [left EXCEPT !["lock"] = todo["lock"]]
    PROVE  /\ phase' \in [Threads -> Parsed..(Validated + 1)]
           /\ left' \in [Threads -> SUBSET Docs]
           /\ Phase' = Phase + 1 /\ Left' = Todo
  <1>1. /\ phase \in [Threads -> Parsed..(Validated + 1)] /\ left \in [Threads -> SUBSET Docs]
        /\ todo["lock"] \in SUBSET Docs
    BY DEF IInv, TypeOK, Threads
  <1>2. phase["lock"] + 1 \in Parsed..(Validated + 1)
    BY DEF Phase
  <1>3. /\ phase' \in [Threads -> Parsed..(Validated + 1)]
        /\ phase'["lock"] = phase["lock"] + 1
    <2> DEFINE p == phase["lock"] + 1
    <2>1. p \in Parsed..(Validated + 1) /\ phase' = [phase EXCEPT !["lock"] = p]
      BY <1>2
    <2> HIDE DEF p, Parsed, Validated
    <2>2. phase' \in [Threads -> Parsed..(Validated + 1)] /\ phase'["lock"] = p
      BY <1>1, <2>1 DEF Threads
    <2> QED
      BY <2>2 DEF p
  <1> QED
    BY <1>1, <1>3 DEF Phase, Left, Todo, Threads

LEMMA EndPhaseInv == ASSUME IInv, EndPhase("lock") PROVE IInv'
  <1>1. /\ Step = "building" /\ Phase \in 1..6 /\ Current = NoDoc
        /\ \A d \in Todo : state[d] \in 0..6 /\ state[d] >= Phase
    BY PhaseOverMeans DEF EndPhase
  <1>2. /\ phase' \in [Threads -> Parsed..(Validated + 1)] /\ left' \in [Threads -> SUBSET Docs]
        /\ Phase' = Phase + 1 /\ Left' = Todo
    BY <1>1, NextPhaseTypes DEF EndPhase
  <1>3. /\ Phase = ComputedScopes => \A d \in Todo : state[d] # ComputedScopes
        /\ step' = step /\ Step' = Step /\ Todo' = Todo /\ Current' = Current
        /\ UNCHANGED <<docVars, sharedVars, queue, failed>>
    BY DEF EndPhase, historyVars, Notifies, Phase, Step, Todo, Current
  <1>4. TypeOK'
    BY <1>2 DEF EndPhase, IInv, TypeOK, docVars, sharedVars, historyVars
  <1>5. PhaseInv'
    BY <1>1, <1>2, <1>3 DEF IInv, PhaseInv, Buildable, docVars
  <1>6. CacheInv'
    <2>1. \A d, e \in Docs : Unfilled[e] = Unlinked
      BY DEF Unfilled
    <2>2. Phase' <= Linked => \A d \in Docs : cache[d] = Unfilled
      BY <1>1, <1>2 DEF IInv, CacheInv
    <2> QED
      BY <1>1, <1>2, <1>3, <2>1, <2>2 DEF CacheInv, sharedVars
  <1>7. ContainerInv'
    BY <1>1, <1>2, <1>3 DEF ContainerInv, docVars
  <1>8. OthersBuilt'
    BY <1>3 DEF IInv, OthersBuilt, Built, Buildable, docVars
  <1> QED
    BY <1>1, <1>3, <1>4, <1>5, <1>6, <1>7, <1>8, RunningStep, RunningDocs DEF IInv, docVars

LEMMA ResetContainerInv == ASSUME IInv, ResetContainer("lock") PROVE IInv'
  <1>1. /\ Step = "building" /\ Phase = ComputedScopes /\ Current = NoDoc
        /\ \A d \in Todo : state[d] >= Phase
    BY PhaseOverMeans DEF ResetContainer, Phase
  <1>2. /\ Step' = "container" /\ step'["command"] = step["command"]
        /\ Todo' = Todo /\ Phase' = Phase /\ Left' = Left /\ Current' = Current
        /\ UNCHANGED <<docVars, cache, queue, failed>>
    BY DEF ResetContainer, historyVars, IInv, TypeOK, Threads, Step, Todo, Phase, Left, Current
  <1>3. TypeOK'
    <2>1. types' \in [Docs -> Nat]
      BY DEF ResetContainer
    <2>2. step' \in [Threads -> {"idle", "updated", "building", "container"}]
      BY DEF ResetContainer, IInv, TypeOK
    <2> QED
      BY <2>1, <2>2 DEF ResetContainer, IInv, TypeOK, docVars, historyVars
  <1>4. PhaseInv'
    BY <1>1, <1>2 DEF IInv, PhaseInv, Buildable, docVars
  <1>5. CacheInv' /\ ContainerInv' /\ OthersBuilt'
    BY <1>1, <1>2 DEF IInv, CacheInv, ContainerInv, OthersBuilt, Built, Buildable, docVars
  <1> QED
    BY <1>1, <1>2, <1>3, <1>4, <1>5, RunningStep, RunningDocs DEF IInv, docVars

LEMMA FillContainerInv == ASSUME IInv, FillContainer("lock") PROVE IInv'
  <1>1. /\ Step = "container" /\ Phase = ComputedScopes /\ Current = NoDoc
        /\ \A d \in Todo : state[d] >= Phase
    BY DEF FillContainer, Step, IInv, PhaseInv
  <1>2. /\ phase' \in [Threads -> Parsed..(Validated + 1)] /\ left' \in [Threads -> SUBSET Docs]
        /\ Phase' = Phase + 1 /\ Left' = Todo
    BY <1>1, NextPhaseTypes DEF FillContainer
  <1>3. /\ Step' = "building" /\ step'["command"] = step["command"]
        /\ Todo' = Todo /\ Current' = Current
        /\ types' = [d \in Docs |-> IF d \in docs THEN parsed[d] ELSE 0]
        /\ UNCHANGED <<docVars, cache, queue, failed>>
    BY DEF FillContainer, historyVars, IInv, TypeOK, Threads, Step, Todo, Current
  <1>4. TypeOK'
    <2>1. types' \in [Docs -> Nat]
      BY <1>3 DEF IInv, TypeOK
    <2>2. step' \in [Threads -> {"idle", "updated", "building", "container"}]
      BY DEF FillContainer, IInv, TypeOK
    <2> QED
      BY <1>2, <2>1, <2>2 DEF FillContainer, IInv, TypeOK, docVars, historyVars
  <1>5. PhaseInv'
    BY <1>1, <1>2, <1>3 DEF IInv, PhaseInv, Buildable, docVars
  <1>6. CacheInv'
    <2>1. \A e \in Docs : Unfilled[e] = Unlinked
      BY DEF Unfilled
    <2>2. \A d \in Docs : cache[d] = Unfilled
      BY <1>1 DEF IInv, CacheInv
    <2> QED
      BY <1>1, <1>2, <1>3, <2>1, <2>2 DEF CacheInv
  <1>7. ContainerInv'
    BY <1>3 DEF ContainerInv, docVars
  <1>8. OthersBuilt'
    BY <1>1, <1>3 DEF IInv, OthersBuilt, Built, Buildable, docVars
  <1> QED
    BY <1>1, <1>3, <1>4, <1>5, <1>6, <1>7, <1>8, RunningStep, RunningDocs DEF IInv, docVars

-----------------------------------------------------------------------------
(* The theorems.                                                           *)

\* The Build command and the requests outside of a build do not happen.
LEMMA OnlyTheLock ==
    ASSUME OnTheLock, IInv
    PROVE  /\ ~RunFullBuild
           /\ \A d, e \in Docs : ~Hover(d, e)
           /\ ~Build("command")
           /\ ~BuildFails("command")
  <1>1. used["commands"] \in Nat /\ used["hovers"] \in Nat
    BY DEF IInv, TypeOK, Counted
  <1>2. ~RunFullBuild /\ \A d, e \in Docs : ~Hover(d, e)
    BY <1>1 DEF RunFullBuild, Hover, Use, OnTheLock
  <1>3. step["command"] = "idle"
    BY DEF IInv, CommandIdle
  <1>4. ~Build("command")
    BY <1>3 DEF Build, UpdateInterrupted, StartBuild, BeginDocument, LinkReference, EndDocument,
                EndPhase, PhaseOver, ResetContainer, FillContainer, BuildInterrupted, EndBuild
  <1>5. ~BuildFails("command")
    BY <1>3 DEF BuildFails
  <1> QED
    BY <1>2, <1>4, <1>5

LEMMA BuildInv == ASSUME IInv, Build("lock") PROVE IInv'
  BY UpdateInterruptedInv, StartBuildInv, BeginDocumentInv, LinkReferenceInv, EndDocumentInv,
     EndPhaseInv, ResetContainerInv, FillContainerInv, BuildInterruptedInv, EndBuildInv DEF Build

LEMMA NextInv == OnTheLock /\ IInv /\ [Next]_vars => IInv'
  <1> SUFFICES ASSUME OnTheLock, IInv, [Next]_vars PROVE IInv'
    OBVIOUS
  <1>1. CASE User
    BY <1>1, EditInv, SaveInv, DeleteInv, OnlyTheLock DEF User
  <1>2. ASSUME NEW d \in Docs, FileEvent(d) PROVE IInv'
    BY <1>2, FileEventInv
  <1>3. CASE RunWrite
    BY <1>3, RunWriteInv
  <1>4. CASE RunFullBuild
    BY <1>4, OnlyTheLock
  <1>5. ASSUME NEW t \in Threads, Build(t) PROVE IInv'
    BY <1>5, BuildInv, OnlyTheLock DEF Threads
  <1>7. ASSUME NEW t \in Threads, BuildFails(t) PROVE IInv'
    BY <1>7, BuildFailsInv, OnlyTheLock DEF Threads
  <1>6. CASE UNCHANGED vars
    <2> USE <1>6 DEF vars, docVars, sharedVars, threadVars, historyVars, IInv
    <2>1. TypeOK'
      BY DEF TypeOK
    <2>2. /\ Step' = Step /\ Todo' = Todo /\ Phase' = Phase /\ Left' = Left
          /\ Current' = Current /\ Buildable' = Buildable
          /\ \A d \in Docs : Awaited(d) => Awaited(d)'
      BY DEF Step, Todo, Phase, Left, Current, Buildable, Awaited
    <2>3. CommandIdle' /\ WriteRuns' /\ QuiescentBuilt'
      BY <2>2 DEF CommandIdle, WriteRuns, QuiescentBuilt, Quiet, Built
    <2>4. PhaseInv' /\ CacheInv' /\ ContainerInv' /\ OthersBuilt'
      BY <2>2 DEF PhaseInv, CacheInv, ContainerInv, OthersBuilt, Built
    <2>5. TextInv' /\ PublishedInv'
      BY <2>2 DEF TextInv, PublishedInv, Buildable, TypeOK
    <2> QED
      BY <2>1, <2>3, <2>4, <2>5
  <1> QED
    BY <1>1, <1>2, <1>3, <1>4, <1>5, <1>6, <1>7 DEF Next

LEMMA Invariance == OnTheLock /\ Spec => []IInv
  <1>1. OnTheLock /\ Init => IInv
    BY InitInv
  <1>2. OnTheLock => OnTheLock'
    BY DEF OnTheLock
  <1> QED
    BY <1>1, <1>2, NextInv, PTL DEF Spec

\* The state of the document builder has its types.
THEOREM Typing == OnTheLock /\ Spec => []TypeOK
  BY Invariance, PTL DEF IInv

\* However many documents, edits, saves, deletions, cancelled builds and builds
\* ended by an exception there are: when the lock has nothing left to do and the
\* last build was not one of the latter, every document that is not excluded is
\* built, and its diagnostics are those of its current text.
THEOREM QuietMeansBuilt == OnTheLock /\ Spec => []QuiescentBuilt
  BY Invariance, PTL DEF IInv

\* Only the linker binds references, and it binds them to current trees.
LEMMA CoherentStep ==
    OnTheLock /\ IInv /\ [Next]_vars =>
        \A d, e \in Docs :
            link'[d][e] # link[d][e] /\ link'[d][e] > 0 => link'[d][e] = parsed[e]
  <1> SUFFICES ASSUME OnTheLock, IInv, [Next]_vars, NEW d \in Docs, NEW e \in Docs,
                      link'[d][e] # link[d][e], link'[d][e] > 0
               PROVE  link'[d][e] = parsed[e]
    OBVIOUS
  <1>1. NoLinks[e] = Unlinked /\ link \in [Docs -> [Docs -> Nat \cup {Unlinked}]]
    BY DEF NoLinks, IInv, TypeOK
  <1>2. ASSUME NEW C, NEW D, NEW s, Update("lock", C, D, s) PROVE FALSE
    BY <1>1, <1>2 DEF Update, Reset
  <1>3. CASE RunWrite
    BY <1>2, <1>3 DEF RunWrite
  <1>4. CASE EndDocument("lock")
    BY <1>1, <1>4 DEF EndDocument
  <1>5. ASSUME NEW f \in Docs, LinkReference("lock", f) PROVE link'[d][e] = parsed[e]
    <2>1. /\ Step = "building" /\ Phase = Linked /\ Current # NoDoc /\ Current \in Docs
          /\ ResolveReference(Current, f) \/ UNCHANGED link
      BY <1>5 DEF LinkReference, Step, Phase, Current, IInv, TypeOK, Threads
    <2> QED
      BY <2>1, ResolveIsCurrent
  <1>6. CASE Build("lock")
    BY <1>4, <1>5, <1>6
       DEF Build, UpdateInterrupted, StartBuild, BeginDocument, EndPhase, ResetContainer,
           FillContainer, BuildInterrupted, EndBuild, docVars
  <1>7. CASE User
    BY <1>7, OnlyTheLock DEF User, Edit, Save, Delete, docVars
  <1>8. CASE \E f \in Docs : FileEvent(f)
    BY <1>8 DEF FileEvent, docVars
  <1>9. CASE UNCHANGED vars
    BY <1>9 DEF vars, docVars
  <1>10. CASE BuildFails("lock")
    BY <1>10 DEF BuildFails, docVars
  <1> QED
    BY <1>3, <1>6, <1>7, <1>8, <1>9, <1>10, OnlyTheLock DEF Next, Threads

\* A reference is never bound to a replaced tree, however the builds in which
\* container, caches and trees are renewed are cut short.
THEOREM LinksStayCoherent == OnTheLock /\ Spec => LinksAreCoherent
  <1>1. OnTheLock => OnTheLock'
    BY DEF OnTheLock
  <1> QED
    BY <1>1, Invariance, CoherentStep, PTL DEF Spec, LinksAreCoherent
-----------------------------------------------------------------------------
(* What the references are bound to.                                        *)

Passed == passed["lock"]

\* The writes that are still to be run.
Pending == IF Step = "idle" THEN queue ELSE Tail(queue)
Held(q, kind, d) == \E i \in 1..Len(q) : q[i].kind = kind /\ q[i].doc = d
IsPending(kind, d) == Held(Pending, kind, d)

\* A save comes after every deletion of the document.
SavedAgain(q, d) ==
    \A i \in 1..Len(q) : q[i].kind = "delete" /\ q[i].doc = d =>
        \E j \in (i + 1)..Len(q) : q[j].kind = "save" /\ q[j].doc = d

\* A document outside of the workspace has no tree and no bindings; a text and
\* the tree of a parsed document are a version.
TreeInv ==
    /\ \A d \in Docs \ docs : parsed[d] = 0 /\ link[d] = NoLinks
    /\ \A d \in Docs : text[d] > 0 /\ (state[d] >= Parsed => parsed[d] > 0)

\* A build that still has a document to link shows it the trees as they are.
ExactInv ==
    Step = "building" /\ Phase = Linked =>
        /\ \A d, e \in Docs : cache[d] # Unfilled => cache[d][e] = parsed[e]
        /\ (\E d \in Todo : state[d] < Linked) =>
               \A e \in Docs : types[e] = IF e \in docs THEN parsed[e] ELSE 0

\* The linker leaves no reference unbound that it passed.
PassedInv ==
    /\ Current = NoDoc => Passed = {}
    /\ Passed # {} => Phase = Linked /\ \A e \in Passed : link[Current][e] # Unlinked
    /\ \A d \in Docs : state[d] >= Linked => \A e \in Refs[d] : link[d][e] # Unlinked

\* The diagnostics of a validated document were made with its bindings.
ShownInv == \A d \in Buildable : state[d] = Validated => published[d].link = link[d]

\* The file event of a saved document finds it in the workspace.
EchoInv ==
    \A e \in echo :
        /\ e \in docs \/ IsPending("save", e)
        /\ SavedAgain(Pending, e)

\* What joined the queue since the build began.
JoinedInv ==
    Step \in {"building", "container"} =>
        /\ \A e \in Buildable : state[e] >= Parsed => parsed[e] = text[e] \/ e \in dirty
        /\ \A e \in Docs : IsPending("delete", e) => e \in dirty
        /\ \A e \in Docs \ (docs \cup Excluded) : IsPending("change", e) => e \in dirty \/ IsPending("save", e)

\* The tree of a document stays the one it has.
Steady(e) ==
    /\ ~IsPending("delete", e)
    /\ e \in Buildable => parsed[e] = text[e]
    /\ e \notin docs \cup Excluded => ~IsPending("change", e)

\* A reference is bound to the tree its target has and keeps, or it is known
\* that it may not be; a save that is still to be run will see to that.
BindInv ==
    \A d \in Docs : \A e \in Refs[d] :
        \/ link[d][e] = Unlinked
        \/ e \in dirty \/ <<d, e>> \in missed \/ IsPending("save", e)
        \/ link[d][e] = parsed[e] /\ Steady(e)

LinkInv ==
    /\ TreeInv
    /\ ExactInv
    /\ PassedInv
    /\ ShownInv
    /\ EchoInv
    /\ JoinedInv
    /\ BindInv

\* What a write at the end of the writes changes of what they hold.
LEMMA AppendHolds ==
    ASSUME NEW q \in Seq(Operations), NEW op \in Operations
    PROVE  /\ Append(q, op) \in Seq(Operations)
           /\ \A kind, d : Held(Append(q, op), kind, d) <=>
                           Held(q, kind, d) \/ (op.kind = kind /\ op.doc = d)
           /\ \A d : \/ SavedAgain(q, d) /\ ~(op.kind = "delete" /\ op.doc = d)
                     \/ op.kind = "save" /\ op.doc = d
                     => SavedAgain(Append(q, op), d)
  <1> DEFINE r == Append(q, op)
  <1>1. /\ r \in Seq(Operations)
        /\ Len(r) = Len(q) + 1 /\ Len(q) \in Nat
        /\ \A i \in 1..Len(q) : r[i] = q[i]
        /\ r[Len(q) + 1] = op
    OBVIOUS
  <1> HIDE DEF r
  <1>2. \A i \in 1..Len(r) : i \in 1..Len(q) \/ i = Len(q) + 1
    BY <1>1
  <1>3. \A i \in 1..Len(q) : i \in 1..Len(r) /\ Len(q) + 1 \in (i + 1)..Len(r)
    BY <1>1
  <1>4. Len(q) + 1 \in 1..Len(r)
    BY <1>1
  <1>5. \A kind, d : Held(r, kind, d) <=> Held(q, kind, d) \/ (op.kind = kind /\ op.doc = d)
    BY <1>1, <1>2, <1>3, <1>4 DEF Held
  <1>6. ASSUME NEW d, SavedAgain(q, d), ~(op.kind = "delete" /\ op.doc = d)
        PROVE  SavedAgain(r, d)
    <2> SUFFICES ASSUME NEW i \in 1..Len(r), r[i].kind = "delete", r[i].doc = d
                 PROVE  \E j \in (i + 1)..Len(r) : r[j].kind = "save" /\ r[j].doc = d
      BY DEF SavedAgain
    <2>1. i \in 1..Len(q) /\ r[i] = q[i]
      BY <1>1, <1>2, <1>6
    <2>2. PICK j \in (i + 1)..Len(q) : q[j].kind = "save" /\ q[j].doc = d
      BY <1>6, <2>1 DEF SavedAgain
    <2>3. j \in (i + 1)..Len(r) /\ r[j] = q[j]
      BY <1>1, <2>1
    <2> QED
      BY <2>2, <2>3
  <1>7. ASSUME NEW d, op.kind = "save", op.doc = d PROVE SavedAgain(r, d)
    <2> SUFFICES ASSUME NEW i \in 1..Len(r), r[i].kind = "delete", r[i].doc = d
                 PROVE  \E j \in (i + 1)..Len(r) : r[j].kind = "save" /\ r[j].doc = d
      BY DEF SavedAgain
    <2>1. i # Len(q) + 1
      BY <1>1, <1>7
    <2> QED
      BY <1>1, <1>2, <1>3, <1>7, <2>1
  <1> QED
    BY <1>1, <1>5, <1>6, <1>7 DEF r

\* What the first of the writes was.
LEMMA TailHolds ==
    ASSUME NEW q \in Seq(Operations), q # <<>>
    PROVE  /\ \A kind, d : Held(q, kind, d) <=>
                           Held(Tail(q), kind, d) \/ (Head(q).kind = kind /\ Head(q).doc = d)
           /\ \A d : SavedAgain(q, d) =>
                     /\ SavedAgain(Tail(q), d)
                     /\ Head(q).kind = "delete" /\ Head(q).doc = d => Held(Tail(q), "save", d)
  <1> DEFINE r == Tail(q)
  <1>1. /\ Head(q) = q[1] /\ Len(q) \in Nat /\ Len(q) >= 1
        /\ Len(r) = Len(q) - 1
        /\ \A i \in 1..Len(r) : r[i] = q[i + 1]
    BY TailOfQueue
  <1> HIDE DEF r
  <1>2. \A i \in 1..Len(r) : i + 1 \in 1..Len(q)
    BY <1>1
  <1>3. \A i \in 1..Len(q) : i = 1 \/ (i - 1 \in 1..Len(r) /\ (i - 1) + 1 = i)
    BY <1>1
  <1>4. ASSUME NEW i \in 1..Len(q), i # 1 PROVE i - 1 \in 1..Len(r) /\ r[i - 1] = q[i]
    BY <1>1, <1>3, <1>4
  <1>5. 1 \in 1..Len(q)
    BY <1>1
  <1>6. \A kind, d : Held(q, kind, d) <=> Held(r, kind, d) \/ (Head(q).kind = kind /\ Head(q).doc = d)
    BY <1>1, <1>2, <1>4, <1>5 DEF Held
  <1>7. ASSUME NEW d, SavedAgain(q, d) PROVE SavedAgain(r, d)
    <2> SUFFICES ASSUME NEW i \in 1..Len(r), r[i].kind = "delete", r[i].doc = d
                 PROVE  \E j \in (i + 1)..Len(r) : r[j].kind = "save" /\ r[j].doc = d
      BY DEF SavedAgain
    <2>1. i + 1 \in 1..Len(q) /\ r[i] = q[i + 1]
      BY <1>1, <1>2
    <2>2. PICK j \in ((i + 1) + 1)..Len(q) : q[j].kind = "save" /\ q[j].doc = d
      BY <1>7, <2>1 DEF SavedAgain
    <2>3. j \in 1..Len(q) /\ j # 1 /\ j - 1 \in (i + 1)..Len(r)
      BY <1>1, <2>1
    <2>4. r[j - 1] = q[j]
      BY <1>4, <2>3
    <2> QED
      BY <2>2, <2>3, <2>4
  <1>8. ASSUME NEW d, SavedAgain(q, d), Head(q).kind = "delete", Head(q).doc = d
        PROVE  Held(r, "save", d)
    <2>1. PICK j \in (1 + 1)..Len(q) : q[j].kind = "save" /\ q[j].doc = d
      BY <1>1, <1>5, <1>8 DEF SavedAgain
    <2>2. j \in 1..Len(q) /\ j # 1
      BY <1>1, <2>1
    <2>3. j - 1 \in 1..Len(r) /\ r[j - 1] = q[j]
      BY <1>4, <2>2
    <2> QED
      BY <2>1, <2>3 DEF Held
  <1> QED
    BY <1>6, <1>7, <1>8 DEF r

\* The write that runs is not among them.
LEMMA PendingTypes ==
    ASSUME TypeOK, WriteRuns
    PROVE  /\ Pending \in Seq(Operations)
           /\ Len(queue) = 1 /\ Step # "idle" => \A kind, d : ~IsPending(kind, d)
  <1>1. CASE Step = "idle"
    BY <1>1 DEF Pending, TypeOK
  <1>2. CASE Step # "idle"
    <2>1. queue \in Seq(Operations) /\ queue # <<>>
      BY <1>2 DEF TypeOK, WriteRuns
    <2>2. /\ Tail(queue) \in Seq(Operations) /\ Len(queue) \in Nat
          /\ Len(Tail(queue)) = Len(queue) - 1
      BY <2>1, TailOfQueue
    <2>3. PICK n : n = Len(Tail(queue))
      OBVIOUS
    <2>4. Len(queue) = 1 => n = 0
      BY <2>2, <2>3
    <2>5. n = 0 => \A kind, d : ~Held(Tail(queue), kind, d)
      <3>1. n = 0 => 1..n = {}
        OBVIOUS
      <3> QED
        BY <2>3, <3>1 DEF Held
    <2> QED
      BY <1>2, <2>2, <2>4, <2>5 DEF Pending, IsPending
  <1> QED
    BY <1>1, <1>2

LEMMA PendingWrite ==
    ASSUME TypeOK, WriteRuns, NEW kind \in {"change", "save", "delete"}, NEW d \in Docs,
           Write(kind, d), step' = step
    PROVE  Pending' = Append(Pending, [kind |-> kind, doc |-> d])
  <1> DEFINE op == [kind |-> kind, doc |-> d]
  <1>1. op \in Operations /\ queue \in Seq(Operations) /\ queue' = Append(queue, op)
    BY DEF Operations, TypeOK, Write
  <1>2. CASE Step = "idle"
    BY <1>1, <1>2 DEF Pending, Step
  <1>3. CASE Step # "idle"
    <2>1. queue # <<>>
      BY <1>3 DEF WriteRuns
    <2>2. \A q \in Seq(Operations) : \A o \in Operations :
              q # <<>> => Tail(Append(q, o)) = Append(Tail(q), o)
      OBVIOUS
    <2>3. Tail(Append(queue, op)) = Append(Tail(queue), op)
      BY ONLY <1>1, <2>1, <2>2
    <2> QED
      BY <1>1, <1>3, <2>3 DEF Pending, Step
  <1> QED
    BY <1>2, <1>3

\* Steps that only put a write on the queue.
LEMMA QueueLinks ==
    ASSUME IInv, LinkInv, NEW op \in Operations, Pending' = Append(Pending, op),
           dirty \subseteq dirty',
           \A e \in Docs : text'[e] > 0 /\ (text'[e] = text[e] \/ e \in dirty'),
           op.kind = "delete" => op.doc \in dirty' /\ op.doc \notin echo',
           op.kind = "change" => \/ op.doc \in dirty' \/ op.doc \in docs \cup Excluded
                                 \/ IsPending("save", op.doc),
           op.kind = "save" => op.doc \in docs,
           \A e \in echo' : e \in echo \/ (op.kind = "save" /\ op.doc = e),
           UNCHANGED <<docs, parsed, state, link, published, types, cache, threadVars, missed>>
    PROVE  LinkInv'
  <1> USE DEF LinkInv
  <1>1. Pending \in Seq(Operations)
    BY PendingTypes DEF IInv
  <1>2. /\ \A kind, d : IsPending(kind, d)' <=>
                        IsPending(kind, d) \/ (op.kind = kind /\ op.doc = d)
        /\ \A d : \/ SavedAgain(Pending, d) /\ ~(op.kind = "delete" /\ op.doc = d)
                  \/ op.kind = "save" /\ op.doc = d
                  => SavedAgain(Pending', d)
    BY <1>1, AppendHolds DEF IsPending
  <1>3. /\ Step' = Step /\ Todo' = Todo /\ Phase' = Phase /\ Current' = Current
        /\ Passed' = Passed /\ Buildable' = Buildable
    BY DEF threadVars, Step, Todo, Phase, Current, Passed, Buildable
  <1>4. TreeInv'
    BY DEF TreeInv
  <1>5. ExactInv' /\ PassedInv' /\ ShownInv'
    BY <1>3 DEF ExactInv, PassedInv, ShownInv
  <1>6. EchoInv'
    <2> SUFFICES ASSUME NEW e \in echo'
                 PROVE  (e \in docs' \/ IsPending("save", e)') /\ SavedAgain(Pending', e)
      BY DEF EchoInv
    <2>1. CASE e \in echo
      BY <1>2, <2>1 DEF EchoInv
    <2>2. CASE op.kind = "save" /\ op.doc = e
      BY <1>2, <2>2
    <2> QED
      BY <2>1, <2>2
  <1>7. \A e \in Docs : e \in Buildable => e \in Docs
    OBVIOUS
  <1>8. Buildable \subseteq Docs
    BY DEF IInv, TypeOK, Buildable
  <1>9. JoinedInv'
    <2> SUFFICES ASSUME Step \in {"building", "container"}
                 PROVE  /\ \A e \in Buildable : state[e] >= Parsed => parsed[e] = text'[e] \/ e \in dirty'
                        /\ \A e \in Docs : IsPending("delete", e)' => e \in dirty'
                        /\ \A e \in Docs \ (docs \cup Excluded) :
                              IsPending("change", e)' => e \in dirty' \/ IsPending("save", e)'
      BY <1>3 DEF JoinedInv
    <2>1. \A e \in Buildable : state[e] >= Parsed => parsed[e] = text'[e] \/ e \in dirty'
      BY <1>8 DEF JoinedInv
    <2>2. \A e \in Docs : IsPending("delete", e)' => e \in dirty'
      BY <1>2 DEF JoinedInv
    <2>3. ASSUME NEW e \in Docs \ (docs \cup Excluded), IsPending("change", e)'
          PROVE  e \in dirty' \/ IsPending("save", e)'
      BY <1>2, <2>3 DEF JoinedInv
    <2> QED
      BY <2>1, <2>2, <2>3
  <1>10. BindInv'
    <2> SUFFICES ASSUME NEW d \in Docs, NEW e \in Refs[d], link[d][e] # Unlinked,
                        e \notin dirty', <<d, e>> \notin missed, ~IsPending("save", e)'
                 PROVE  link[d][e] = parsed[e] /\ Steady(e)'
      BY DEF BindInv
    <2>1. e \in Docs /\ e \notin dirty /\ ~IsPending("save", e)
      BY <1>2, BuilderAssumption
    <2>2. link[d][e] = parsed[e] /\ Steady(e)
      BY <2>1 DEF BindInv
    <2>3. ~IsPending("delete", e)'
      BY <1>2, <2>2 DEF Steady
    <2>4. e \in Buildable => parsed[e] = text'[e]
      BY <2>1, <2>2 DEF Steady
    <2>5. e \notin docs \cup Excluded => ~IsPending("change", e)'
      BY <1>2, <2>1, <2>2 DEF Steady
    <2> QED
      BY <1>3, <2>2, <2>3, <2>4, <2>5 DEF Steady
  <1> QED
    BY <1>4, <1>5, <1>6, <1>9, <1>10

LEMMA EditLinks == ASSUME IInv, LinkInv, NEW d \in Docs, Edit(d) PROVE LinkInv'
  <1> DEFINE op == [kind |-> "change", doc |-> d]
  <1>1. Pending' = Append(Pending, op) /\ op \in Operations
    BY PendingWrite DEF Edit, threadVars, IInv, Operations
  <1>2. /\ \A e \in Docs : text'[e] > 0 /\ (text'[e] = text[e] \/ e \in dirty')
        /\ dirty' = dirty \cup {d}
    BY DEF Edit, IInv, TypeOK, LinkInv, TreeInv
  <1>3. UNCHANGED <<docs, parsed, state, link, published, types, cache, threadVars, missed, echo>>
    BY DEF Edit, sharedVars
  <1>4. op.kind = "change" /\ op.doc = d
    OBVIOUS
  <1> HIDE DEF op
  <1> QED
    BY <1>1, <1>2, <1>3, <1>4, QueueLinks

LEMMA SaveLinks == ASSUME IInv, LinkInv, NEW d \in Docs, Save(d) PROVE LinkInv'
  <1> DEFINE op == [kind |-> "save", doc |-> d]
  <1>1. Pending' = Append(Pending, op) /\ op \in Operations
    BY PendingWrite DEF Save, threadVars, IInv, Operations
  <1>2. \A e \in Docs : text[e] > 0
    BY DEF LinkInv, TreeInv
  <1>3. /\ UNCHANGED <<docs, parsed, state, link, published, types, cache, threadVars, missed>>
        /\ UNCHANGED <<text, dirty>>
        /\ echo' = echo \cup {d} /\ d \in docs
    BY DEF Save, docVars, sharedVars, historyVars
  <1>4. op.kind = "save" /\ op.doc = d
    OBVIOUS
  <1> HIDE DEF op
  <1> QED
    BY <1>1, <1>2, <1>3, <1>4, QueueLinks

LEMMA FileEventLinks == ASSUME IInv, LinkInv, NEW d \in Docs, FileEvent(d) PROVE LinkInv'
  <1> DEFINE op == [kind |-> "change", doc |-> d]
  <1>1. Pending' = Append(Pending, op) /\ op \in Operations
    BY PendingWrite DEF FileEvent, threadVars, IInv, Operations
  <1>2. \A e \in Docs : text[e] > 0
    BY DEF LinkInv, TreeInv
  <1>3. /\ UNCHANGED <<docs, parsed, state, link, published, types, cache, threadVars, missed>>
        /\ UNCHANGED <<text, dirty>>
        /\ echo' = echo \ {d} /\ d \in echo
    BY DEF FileEvent, docVars, sharedVars, historyVars
  <1>4. d \in docs \/ IsPending("save", d)
    BY <1>3 DEF LinkInv, EchoInv
  <1>5. op.kind = "change" /\ op.doc = d
    OBVIOUS
  <1> HIDE DEF op
  <1> QED
    BY <1>1, <1>2, <1>3, <1>4, <1>5, QueueLinks

LEMMA DeleteLinks == ASSUME IInv, LinkInv, NEW d \in Docs, Delete(d) PROVE LinkInv'
  <1> DEFINE op == [kind |-> "delete", doc |-> d]
  <1>1. Pending' = Append(Pending, op) /\ op \in Operations
    BY PendingWrite DEF Delete, threadVars, IInv, Operations
  <1>2. \A e \in Docs : text[e] > 0
    BY DEF LinkInv, TreeInv
  <1>3. /\ UNCHANGED <<docs, parsed, state, link, published, types, cache, threadVars, missed>>
        /\ UNCHANGED <<text, echo>>
        /\ dirty' = dirty \cup {d} /\ d \notin echo
    BY DEF Delete, docVars, sharedVars
  <1>4. op.kind = "delete" /\ op.doc = d
    OBVIOUS
  <1> HIDE DEF op
  <1> QED
    BY <1>1, <1>2, <1>3, <1>4, QueueLinks

\* What an update does to the documents it resets, relinks and leaves alone.
LEMMA UpdateLeaves ==
    ASSUME IInv, NEW C \in SUBSET Docs, NEW D \in SUBSET docs, NEW s \in Strategies,
           Update("lock", C, D, s)
    PROVE  /\ RelinkSet(C, D, s) \subseteq docs \ (C \cup D)
           /\ \A d \in C \cup D \cup RelinkSet(C, D, s) : link'[d] = NoLinks /\ ~(state'[d] >= Linked)
           /\ \A d \in Docs \ (C \cup D \cup RelinkSet(C, D, s)) :
                 link'[d] = link[d] /\ state'[d] = state[d]
           /\ \A d \in C \cup D : ~(state'[d] >= Parsed)
           /\ \A d \in Docs \ (C \cup D) : state'[d] >= Parsed => state[d] >= Parsed
           /\ \A d \in Docs \ D : parsed'[d] = parsed[d]
           /\ \A d \in D : parsed'[d] = 0
  <1> DEFINE R == RelinkSet(C, D, s)
  <1>1. R \subseteq docs \ (C \cup D) /\ docs \subseteq Docs
    BY RelinkOthers DEF IInv, TypeOK
  <1>2. /\ state' = [d \in Docs |-> IF d \in C \cup D THEN Changed
                                    ELSE IF d \in R /\ state[d] > ComputedScopes
                                         THEN ComputedScopes ELSE state[d]]
        /\ link' = [d \in Docs |-> IF d \in C \cup D \cup R THEN NoLinks ELSE link[d]]
        /\ parsed' = [d \in Docs |-> IF d \in D THEN 0 ELSE parsed[d]]
    BY DEF Update, Reset
  <1> HIDE DEF R
  <1>3. \A d \in Docs : state[d] \in 0..6
    BY DEF IInv, TypeOK, States
  <1>4. \A d \in C \cup D : ~(state'[d] >= Parsed) /\ ~(state'[d] >= Linked)
    BY <1>1, <1>2
  <1>5. \A d \in R : ~(state'[d] >= Linked) /\ (state'[d] >= Parsed => state[d] >= Parsed)
    BY <1>1, <1>2, <1>3
  <1>6. \A d \in Docs \ (C \cup D \cup R) : state'[d] = state[d] /\ link'[d] = link[d]
    BY <1>2
  <1>7. \A d \in C \cup D \cup R : link'[d] = NoLinks
    BY <1>1, <1>2
  <1>8. (\A d \in Docs \ D : parsed'[d] = parsed[d]) /\ (\A d \in D : parsed'[d] = 0)
    BY <1>1, <1>2
  <1> QED
    BY <1>1, <1>4, <1>5, <1>6, <1>7, <1>8 DEF R

\* The update of the write at the head of the queue.
LEMMA UpdateLinks ==
    ASSUME IInv, LinkInv, Step = "idle", queue # <<>>, UNCHANGED queue,
           NEW c \in Docs, NEW kind, kind = Head(queue).kind, c = Head(queue).doc,
           NEW C \in SUBSET Docs, NEW D \in SUBSET docs, NEW s \in Strategies,
           Update("lock", C, D, s),
           \/ kind = "change" /\ C = {c} /\ D = {} /\ s = "PartialBuildDuringEdition"
           \/ kind = "save" /\ C = {c} /\ D = {} /\ s = "PartialBuildAfterSave"
           \/ kind = "delete" /\ C = {} /\ D = {c} \cap docs /\ s = "PartialBuildDuringEdition"
    PROVE  LinkInv'
  <1> USE DEF LinkInv
  <1> DEFINE R == RelinkSet(C, D, s)
             S == C \cup D \cup R
  <1>1. /\ R \subseteq docs \ (C \cup D)
        /\ \A d \in S : link'[d] = NoLinks /\ ~(state'[d] >= Linked)
        /\ \A d \in Docs \ S : link'[d] = link[d] /\ state'[d] = state[d]
        /\ \A d \in C \cup D : ~(state'[d] >= Parsed)
        /\ \A d \in Docs \ (C \cup D) : state'[d] >= Parsed => state[d] >= Parsed
        /\ \A d \in Docs \ D : parsed'[d] = parsed[d]
        /\ \A d \in D : parsed'[d] = 0
    BY UpdateLeaves
  <1>2. /\ Step' = "updated" /\ Todo' = Todo /\ Phase' = Phase /\ Current' = NoDoc
        /\ Current = NoDoc /\ Passed' = Passed
        /\ UNCHANGED <<text, published, types, echo>>
        /\ docs' = (docs \ D) \cup C
        /\ docs \subseteq Docs
    BY DEF Update, IInv, TypeOK, PhaseInv, Threads, Step, Todo, Phase, Current, Passed
  <1>3. /\ dirty' = IF kind = "save" THEN dirty \ C ELSE dirty
        /\ missed' = {p \in missed : p[1] \notin S} \cup
                     IF kind # "save" THEN {}
                     ELSE {p \in docs \X C : /\ p[1] \notin C \cup R
                                             /\ p[2] \in Refs[p[1]]
                                             /\ link[p[1]][p[2]] # Unlinked}
    BY DEF Update
  <1> HIDE DEF R
  <1>4. /\ Pending = queue /\ Pending' = Tail(queue) /\ queue \in Seq(Operations)
        /\ \A k, d : IsPending(k, d) <=> IsPending(k, d)' \/ (kind = k /\ c = d)
        /\ \A d : SavedAgain(Pending, d) =>
                  /\ SavedAgain(Pending', d)
                  /\ kind = "delete" /\ c = d => IsPending("save", d)'
    <2>1. Pending = queue /\ Pending' = Tail(queue) /\ queue \in Seq(Operations)
      BY <1>2 DEF Pending, IInv, TypeOK
    <2> QED
      BY <2>1, TailHolds DEF IsPending
  <1>5. TreeInv'
    <2>1. ASSUME NEW d \in Docs \ docs' PROVE parsed'[d] = 0 /\ link'[d] = NoLinks
      BY <1>1, <1>2 DEF TreeInv
    <2>2. ASSUME NEW d \in Docs PROVE text'[d] > 0 /\ (state'[d] >= Parsed => parsed'[d] > 0)
      BY <1>1, <1>2 DEF TreeInv
    <2> QED
      BY <2>1, <2>2 DEF TreeInv
  <1>6. ExactInv' /\ JoinedInv'
    BY <1>2 DEF ExactInv, JoinedInv
  <1>7. PassedInv'
    BY <1>1, <1>2 DEF PassedInv
  <1>8. ShownInv'
    <2> SUFFICES ASSUME NEW d \in Buildable', state'[d] = Validated
                 PROVE  published'[d].link = link'[d]
      BY DEF ShownInv
    <2>1. d \in Docs /\ d \notin S
      BY <1>1, <1>2 DEF Buildable
    <2>2. d \in Buildable
      BY <1>2, <2>1 DEF Buildable
    <2> QED
      BY <1>1, <1>2, <2>1, <2>2 DEF ShownInv
  <1>9. EchoInv'
    <2> SUFFICES ASSUME NEW e \in echo
                 PROVE  (e \in docs' \/ IsPending("save", e)') /\ SavedAgain(Pending', e)
      BY <1>2 DEF EchoInv
    <2>1. /\ e \in docs \/ IsPending("save", e)
          /\ SavedAgain(Pending, e)
      BY DEF EchoInv
    <2>2. IsPending("save", e) => IsPending("save", e)' \/ (kind = "save" /\ c = e)
      BY <1>4
    <2> QED
      BY <1>2, <1>4, <2>1, <2>2
  <1>10. BindInv'
    <2> SUFFICES ASSUME NEW d \in Docs, NEW e \in Refs[d], link'[d][e] # Unlinked,
                        e \notin dirty', <<d, e>> \notin missed', ~IsPending("save", e)'
                 PROVE  link'[d][e] = parsed'[e] /\ Steady(e)'
      BY DEF BindInv
    <2>1. e \in Docs /\ d \notin S /\ link'[d] = link[d]
      <3>1. e \in Docs /\ NoLinks[e] = Unlinked
        BY BuilderAssumption DEF NoLinks
      <3> QED
        BY <1>1, <3>1
    <2>2. d \in docs
      BY <2>1, BuilderAssumption DEF TreeInv, NoLinks
    <2>3. ~(kind = "save" /\ c = e)
      \* the save would have unlinked the reference or missed it
      <3> SUFFICES ASSUME kind = "save", c = e PROVE FALSE
        OBVIOUS
      <3>1. C = {e} /\ <<d, e>> \in docs \X C
        BY <2>2
      <3> QED
        BY <1>3, <2>1, <3>1
    <2>4. e \notin dirty /\ <<d, e>> \notin missed /\ ~IsPending("save", e)
      BY <1>3, <1>4, <2>1, <2>3
    <2>5. link[d][e] = parsed[e] /\ Steady(e)
      BY <2>1, <2>4 DEF BindInv
    <2>6. ~(kind = "delete" /\ c = e)
      BY <1>4, <2>5 DEF Steady
    <2>7. e \notin D
      BY <2>3, <2>6
    <2>8. ~IsPending("delete", e)'
      BY <1>4, <2>5 DEF Steady
    <2>9. kind = "change" /\ c = e => e \in docs \cup Excluded
      BY <1>4, <2>5 DEF Steady
    <2>10. (e \in docs' <=> e \in docs) \/ e \in Excluded
      BY <1>2, <2>3, <2>7, <2>9
    <2>11. e \in Buildable' => parsed'[e] = text'[e]
      BY <1>1, <1>2, <2>1, <2>5, <2>7, <2>10 DEF Steady, Buildable
    <2>12. e \notin docs' \cup Excluded => ~IsPending("change", e)'
      BY <1>4, <2>5, <2>10 DEF Steady
    <2> QED
      BY <1>1, <2>1, <2>5, <2>7, <2>8, <2>11, <2>12 DEF Steady
  <1> QED
    BY <1>5, <1>6, <1>7, <1>8, <1>9, <1>10

LEMMA RunWriteLinks == ASSUME IInv, LinkInv, RunWrite PROVE LinkInv'
  <1> DEFINE op == Head(queue)
  <1>1. op \in Operations /\ queue # <<>> /\ Step = "idle" /\ UNCHANGED queue
    BY DEF RunWrite, IInv, TypeOK, Step
  <1>2. op.doc \in Docs
    BY <1>1 DEF Operations
  <1>3. CASE op.kind = "change" /\ Update("lock", {op.doc}, {}, "PartialBuildDuringEdition")
    BY <1>1, <1>2, <1>3, UpdateLinks DEF Strategies
  <1>4. CASE op.kind = "save" /\ Update("lock", {op.doc}, {}, "PartialBuildAfterSave")
    BY <1>1, <1>2, <1>4, UpdateLinks DEF Strategies
  <1>5. CASE op.kind = "delete" /\ Update("lock", {}, {op.doc} \cap docs, "PartialBuildDuringEdition")
    BY <1>1, <1>2, <1>5, UpdateLinks DEF Strategies
  <1> QED
    BY <1>3, <1>4, <1>5 DEF RunWrite

\* The end of a write.
LEMMA FinishLinks ==
    ASSUME IInv, LinkInv, Step # "idle", Finish("lock"),
           UNCHANGED <<text, docs, parsed, state, link, published, types, cache, dirty, missed, echo>>
    PROVE  LinkInv'
  <1> USE DEF LinkInv
  <1>1. /\ Step' = "idle" /\ Current' = NoDoc /\ queue' = Tail(queue) /\ Buildable' = Buildable
    BY FinishWrite DEF Buildable
  <1>2. Passed' = {}
    BY DEF Finish, Passed, IInv, TypeOK, Threads
  <1>3. Pending' = Pending
    BY <1>1 DEF Pending
  <1>4. \A k, d : IsPending(k, d)' <=> IsPending(k, d)
    BY <1>3 DEF IsPending
  <1>5. TreeInv' /\ ExactInv' /\ ShownInv' /\ JoinedInv' /\ PassedInv'
    BY <1>1, <1>2 DEF TreeInv, ExactInv, ShownInv, JoinedInv, PassedInv
  <1>6. EchoInv'
    BY <1>3, <1>4 DEF EchoInv
  <1>7. BindInv'
    BY <1>1, <1>4 DEF BindInv, Steady
  <1> QED
    BY <1>5, <1>6, <1>7

\* Any other step of a running write leaves these parts alone.
LEMMA RunningLinks ==
    ASSUME IInv, LinkInv, Step # "idle", Step' # "idle", UNCHANGED <<text, docs, dirty, missed, echo, queue>>
    PROVE  /\ Pending' = Pending /\ EchoInv' /\ Buildable' = Buildable
           /\ \A k, d : IsPending(k, d)' <=> IsPending(k, d)
  <1>1. Pending' = Pending /\ Buildable' = Buildable
    BY DEF Pending, Buildable
  <1>2. \A k, d : IsPending(k, d)' <=> IsPending(k, d)
    BY <1>1 DEF IsPending
  <1> QED
    BY <1>1, <1>2 DEF LinkInv, EchoInv

LEMMA UpdateInterruptedLinks == ASSUME IInv, LinkInv, UpdateInterrupted("lock") PROVE LinkInv'
  BY FinishLinks DEF UpdateInterrupted, Step, docVars, sharedVars, historyVars

LEMMA BuildInterruptedLinks == ASSUME IInv, LinkInv, BuildInterrupted("lock") PROVE LinkInv'
  BY FinishLinks DEF BuildInterrupted, Step, sharedVars, historyVars

LEMMA BuildFailsLinks == ASSUME IInv, LinkInv, BuildFails("lock") PROVE LinkInv'
  BY FinishLinks DEF BuildFails, Step, docVars, sharedVars

LEMMA EndBuildLinks == ASSUME IInv, LinkInv, EndBuild("lock") PROVE LinkInv'
  BY FinishLinks DEF EndBuild, Step, historyVars

LEMMA InitLinks == Init => LinkInv
  <1> SUFFICES ASSUME Init PROVE LinkInv
    OBVIOUS
  <1> USE DEF Init
  <1>1. /\ Step = "idle" /\ Current = NoDoc /\ Passed = {}
        /\ docs = Loaded /\ Loaded = Docs \ Excluded /\ echo = {}
        /\ text = [d \in Docs |-> 1]
        /\ parsed = [d \in Docs |-> IF d \in Loaded THEN 1 ELSE 0]
    BY DEF Step, Current, Passed, Threads, Loaded
  <1>2. \A d \in Docs : ~IsPending("delete", d)
    <2>1. PICK x \in Docs : queue = <<[kind |-> "change", doc |-> x]>>
      OBVIOUS
    <2>2. Len(queue) = 1 /\ queue[1].kind = "change"
      BY <2>1
    <2> QED
      BY <1>1, <2>2 DEF IsPending, Held, Pending
  <1>3. \A d \in Docs : Steady(d)
    BY <1>1, <1>2 DEF Steady, Buildable
  <1>4. /\ \A d \in Docs : \A e \in Refs[d] : link[d][e] = Unlinked \/ link[d][e] = parsed[e]
        /\ \A d \in Docs \ Loaded : link[d] = NoLinks
        /\ \A d \in Docs : state[d] >= Parsed => d \in Loaded
        /\ \A d \in Docs : state[d] >= Linked => \A e \in Refs[d] : link[d][e] # Unlinked
        /\ \A d \in Docs : state[d] # Validated
    <2>1. \A d \in Docs : Refs[d] \subseteq Docs
      BY BuilderAssumption
    <2>2. CASE firstLoad = FALSE
      <3>1. /\ state = [d \in Docs |-> IF d \in Loaded THEN IndexedReferences ELSE Changed]
            /\ link = [d \in Docs |-> [e \in Docs |->
                         IF d \in Loaded /\ e \in Refs[d] THEN parsed[e] ELSE Unlinked]]
        BY <2>2
      <3>2. \A d \in Docs : \A e \in Refs[d] :
               link[d][e] = IF d \in Loaded THEN parsed[e] ELSE Unlinked
        BY <2>1, <3>1
      <3>3. \A d \in Docs \ Loaded : link[d] = NoLinks
        BY <3>1 DEF NoLinks
      <3>4. \A d \in Docs : state[d] = IF d \in Loaded THEN 5 ELSE 0
        BY <3>1
      <3>5. \A e \in Docs : parsed[e] # Unlinked
        BY <1>1
      <3> QED
        <4>1. \A d \in Docs : \A e \in Refs[d] : link[d][e] = Unlinked \/ link[d][e] = parsed[e]
          BY <2>1, <3>2
        <4>2. /\ \A d \in Docs : state[d] >= Parsed => d \in Loaded
              /\ \A d \in Docs : state[d] >= Linked => d \in Loaded
              /\ \A d \in Docs : state[d] # Validated
          BY <3>4, SMTT(30)
        <4>3. \A d \in Loaded : \A e \in Refs[d] : link[d][e] # Unlinked
          BY <2>1, <3>2, <3>5, <1>1
        <4> QED
          BY <3>3, <4>1, <4>2, <4>3
    <2>3. CASE firstLoad = TRUE
      <3>1. /\ state = [d \in Docs |-> IF d \in Loaded THEN Parsed ELSE Changed]
            /\ link = [d \in Docs |-> NoLinks]
        BY <2>3
      <3>2. \A d \in Docs : \A e \in Refs[d] : link[d][e] = Unlinked
        BY <2>1, <3>1 DEF NoLinks
      <3> QED
        BY <3>1, <3>2
    <2> QED
      BY <2>2, <2>3
  <1>5. TreeInv
    BY <1>1, <1>4 DEF TreeInv
  <1>6. ExactInv /\ PassedInv /\ ShownInv /\ EchoInv /\ JoinedInv
    BY <1>1, <1>4 DEF ExactInv, PassedInv, ShownInv, EchoInv, JoinedInv, Buildable
  <1>7. BindInv
    <2>1. \A d \in Docs : Refs[d] \subseteq Docs
      BY BuilderAssumption
    <2>2. \A d \in Docs : \A e \in Refs[d] : link[d][e] = Unlinked \/ link[d][e] = parsed[e]
      BY <1>4, Zenon
    <2>3. \A d \in Docs : \A e \in Refs[d] : Steady(e)
      BY <1>3, <2>1, Zenon
    <2> QED
      BY ONLY <2>2, <2>3 DEF BindInv
  <1> QED
    BY <1>5, <1>6, <1>7 DEF LinkInv

\* With the first check passed nothing waits behind the write.
LEMMA StartBuildLinks == ASSUME IInv, LinkInv, StartBuild("lock") PROVE LinkInv'
  <1> USE DEF LinkInv
  <1>1. /\ Step = "updated" /\ Step' = "building" /\ ~(Len(queue) > 1)
        /\ Phase' = Parsed /\ Current' = Current /\ Passed' = Passed
        /\ UNCHANGED <<text, docs, parsed, state, link, published, types, cache, dirty, missed,
                       echo, queue>>
    BY DEF StartBuild, Cancelled, historyVars, IInv, TypeOK, Threads, Step, Phase, Current, Passed
  <1>2. /\ Pending' = Pending /\ EchoInv' /\ Buildable' = Buildable
        /\ \A k, d : IsPending(k, d)' <=> IsPending(k, d)
    BY <1>1, RunningLinks
  <1>3. \A k, d : ~IsPending(k, d)
    <2>1. queue \in Seq(Operations) /\ queue # <<>>
      BY <1>1 DEF IInv, TypeOK, WriteRuns
    <2>2. Len(queue) = 1
      BY <1>1, <2>1, TailOfQueue, Zenon
    <2> QED
      BY <1>1, <2>2, PendingTypes DEF IInv
  <1>4. \A d \in Docs : ~Awaited(d)
    <2>1. queue \in Seq(Operations) /\ queue # <<>>
      BY <1>1 DEF IInv, TypeOK, WriteRuns
    <2>2. Len(queue) = 1
      BY <1>1, <2>1, TailOfQueue, Zenon
    <2> QED
      BY <1>1, <2>2 DEF Awaited
  <1>5. TreeInv' /\ ExactInv' /\ ShownInv'
    BY <1>1, <1>2 DEF TreeInv, ExactInv, ShownInv
  <1>6. PassedInv'
    <2>1. Passed = {}
      BY <1>1 DEF IInv, PhaseInv, PassedInv
    <2> QED
      BY <1>1, <2>1 DEF PassedInv
  <1>7. JoinedInv'
    <2>1. Buildable \subseteq Docs
      BY DEF IInv, TypeOK, Buildable
    <2> QED
      BY <1>1, <1>2, <1>3, <1>4, <2>1 DEF JoinedInv, IInv, TextInv
  <1>8. BindInv'
    BY <1>1, <1>2 DEF BindInv, Steady
  <1> QED
    BY <1>2, <1>5, <1>6, <1>7, <1>8

\* What is left of the invariant when bindings, trees and diagnostics stay.
LEMMA UnboundLinks ==
    ASSUME IInv, LinkInv, Step # "idle", Step' # "idle",
           UNCHANGED <<text, docs, parsed, state, link, published, dirty, missed, echo, queue>>
    PROVE  /\ TreeInv' /\ ShownInv' /\ EchoInv' /\ BindInv'
           /\ Step = "building" \/ Step = "container" => JoinedInv'
  <1> USE DEF LinkInv
  <1>1. /\ Pending' = Pending /\ EchoInv' /\ Buildable' = Buildable
        /\ \A k, d : IsPending(k, d)' <=> IsPending(k, d)
    BY RunningLinks
  <1>2. TreeInv' /\ ShownInv'
    BY <1>1 DEF TreeInv, ShownInv
  <1>3. BindInv'
    BY <1>1 DEF BindInv, Steady
  <1>4. ASSUME Step \in {"building", "container"} PROVE JoinedInv'
    BY <1>1, <1>4 DEF JoinedInv
  <1> QED
    BY <1>1, <1>2, <1>3, <1>4

LEMMA BeginDocumentLinks ==
    ASSUME IInv, LinkInv, NEW d \in Docs, BeginDocument("lock", d) PROVE LinkInv'
  <1> USE DEF LinkInv
  <1>1. /\ Step = "building" /\ Step' = Step /\ Todo' = Todo /\ Phase' = Phase
        /\ Current = NoDoc /\ Passed' = Passed
        /\ UNCHANGED <<text, docs, parsed, state, link, published, types, cache, dirty, missed,
                       echo, queue>>
    BY DEF BeginDocument, docVars, historyVars, Step, Todo, Phase, Current, Passed
  <1>2. TreeInv' /\ ShownInv' /\ EchoInv' /\ BindInv' /\ JoinedInv'
    BY <1>1, UnboundLinks
  <1>3. ExactInv'
    BY <1>1 DEF ExactInv
  <1>4. PassedInv'
    BY <1>1 DEF PassedInv
  <1> QED
    BY <1>2, <1>3, <1>4

\* After ComputedScopes the container is filled from the trees as they are, or
\* there is no document left to link; no cache is filled yet.
LEMMA EndPhaseLinks == ASSUME IInv, LinkInv, EndPhase("lock") PROVE LinkInv'
  <1> USE DEF LinkInv
  <1>1. /\ Step = "building" /\ Phase \in 1..6 /\ Current = NoDoc
        /\ \A d \in Todo : state[d] \in 0..6 /\ state[d] >= Phase
    BY PhaseOverMeans DEF EndPhase
  <1>2. Phase' = Phase + 1
    BY <1>1, NextPhaseTypes DEF EndPhase
  <1>3. /\ Step' = Step /\ Todo' = Todo /\ Current' = Current /\ Passed' = Passed
        /\ Phase = ComputedScopes => \A d \in Todo : state[d] # ComputedScopes
        /\ UNCHANGED <<text, docs, parsed, state, link, published, types, cache, dirty, missed,
                       echo, queue>>
    BY DEF EndPhase, Notifies, docVars, sharedVars, historyVars, Step, Todo, Phase, Current, Passed
  <1>4. TreeInv' /\ ShownInv' /\ EchoInv' /\ BindInv' /\ JoinedInv'
    BY <1>1, <1>3, UnboundLinks
  <1>5. PassedInv'
    BY <1>1, <1>3 DEF PassedInv
  <1>6. ExactInv'
    <2> SUFFICES ASSUME Phase' = Linked
                 PROVE  /\ \A d \in Docs : cache[d] = Unfilled
                        /\ \A d \in Todo : ~(state[d] < Linked)
      BY <1>3 DEF ExactInv
    <2>1. Phase = ComputedScopes
      BY <1>1, <1>2
    <2>2. \A d \in Docs : cache[d] = Unfilled
      BY <1>1, <2>1 DEF IInv, CacheInv
    <2>3. \A d \in Todo : ~(state[d] < Linked)
      BY <1>1, <1>3, <2>1
    <2> QED
      BY <2>2, <2>3
  <1> QED
    BY <1>4, <1>5, <1>6

LEMMA ResetContainerLinks == ASSUME IInv, LinkInv, ResetContainer("lock") PROVE LinkInv'
  <1> USE DEF LinkInv
  <1>1. /\ Step = "building" /\ Step' = "container" /\ Current' = Current /\ Passed' = Passed
        /\ Phase' = Phase
        /\ UNCHANGED <<text, docs, parsed, state, link, published, dirty, missed, echo, queue>>
    BY DEF ResetContainer, PhaseOver, docVars, historyVars, Step, Phase, Current, Passed, IInv,
           TypeOK, Threads
  <1>2. TreeInv' /\ ShownInv' /\ EchoInv' /\ BindInv' /\ JoinedInv'
    BY <1>1, UnboundLinks
  <1>3. ExactInv' /\ PassedInv'
    BY <1>1 DEF ExactInv, PassedInv
  <1> QED
    BY <1>2, <1>3

LEMMA FillContainerLinks == ASSUME IInv, LinkInv, FillContainer("lock") PROVE LinkInv'
  <1> USE DEF LinkInv
  <1>1. /\ Step = "container" /\ Phase = ComputedScopes /\ Current = NoDoc
    BY DEF FillContainer, Step, IInv, PhaseInv
  <1>2. Phase' = Phase + 1
    BY <1>1, NextPhaseTypes DEF FillContainer
  <1>3. /\ Step' = "building" /\ Todo' = Todo /\ Current' = Current /\ Passed' = Passed
        /\ types' = [d \in Docs |-> IF d \in docs THEN parsed[d] ELSE 0]
        /\ UNCHANGED <<text, docs, parsed, state, link, published, cache, dirty, missed, echo, queue>>
    BY DEF FillContainer, docVars, historyVars, IInv, TypeOK, Threads, Step, Todo, Current, Passed
  <1>4. TreeInv' /\ ShownInv' /\ EchoInv' /\ BindInv' /\ JoinedInv'
    BY <1>1, <1>3, UnboundLinks
  <1>5. PassedInv'
    BY <1>1, <1>3 DEF PassedInv
  <1>6. \A d \in Docs : cache[d] = Unfilled
    BY <1>1 DEF IInv, CacheInv
  <1>7. ExactInv'
    BY <1>3, <1>6 DEF ExactInv
  <1> QED
    BY <1>4, <1>5, <1>7

\* A document that is being linked sees the trees as they are, and a reference
\* of it is bound to its target's tree, a missing target's to an error.
LEMMA LinkingIsExact ==
    ASSUME IInv, LinkInv, Step = "building", Phase = Linked, Current # NoDoc,
           NEW e \in Docs, ResolveReference(Current, e)
    PROVE  /\ link' = [link EXCEPT ![Current][e] = parsed[e]]
           /\ \A f, g \in Docs : cache'[f] # Unfilled => cache'[f][g] = parsed[g]
  <1> DEFINE d == Current
  <1>1. /\ d \in Docs /\ d \in docs /\ d \in Todo /\ state[d] < Linked
        /\ state[d] >= ComputedScopes
    <2>1. d \in Todo /\ state[d] < Phase /\ Todo \subseteq Buildable /\ docs \subseteq Docs
      BY DEF IInv, PhaseInv, TypeOK
    <2>2. state[d] >= Phase - 1
      BY <2>1 DEF IInv, PhaseInv
    <2>3. d \in Docs /\ d \in docs
      BY <2>1 DEF Buildable
    <2> QED
      BY <2>1, <2>2, <2>3
  <1>2. \A f \in Docs : types[f] = IF f \in docs THEN parsed[f] ELSE 0
    BY <1>1 DEF LinkInv, ExactInv
  <1>3. /\ types[d] # 0
        /\ \A f \in Docs : parsed[f] \in Nat /\ (f \notin docs => parsed[f] = 0)
    <2>1. state[d] \in 0..6 /\ parsed \in [Docs -> Nat]
      BY <1>1 DEF IInv, TypeOK, States
    <2>2. parsed[d] > 0
      BY <1>1, <2>1 DEF LinkInv, TreeInv
    <2> QED
      BY <1>1, <1>2, <2>1, <2>2 DEF LinkInv, TreeInv
  <1>4. \A g \in Docs : Seen(d)[g] = parsed[g]
    <2>1. CASE cache[d] # Unfilled
      BY <1>1, <2>1 DEF Seen, LinkInv, ExactInv
    <2>2. CASE cache[d] = Unfilled
      <3>1. Seen(d) = [g \in Docs |-> IF types[g] # 0 THEN types[g]
                                      ELSE IF state[g] >= IndexedContent THEN parsed[g] ELSE 0]
        BY <2>2 DEF Seen, Indexed
      <3> QED
        BY <1>2, <1>3, <3>1
    <2> QED
      BY <2>1, <2>2
  <1>5. /\ link' = [link EXCEPT ![d][e] = Seen(d)[e]]
        /\ cache' = [cache EXCEPT ![d] = Seen(d)]
    BY <1>1, <1>3 DEF ResolveReference
  <1>6. cache \in [Docs -> [Docs -> Nat \cup {Unlinked}]]
    BY DEF IInv, TypeOK
  <1>7. ASSUME NEW f \in Docs, NEW g \in Docs, cache'[f] # Unfilled PROVE cache'[f][g] = parsed[g]
    <2>1. CASE f = d
      BY <1>4, <1>5, <1>6, <2>1
    <2>2. CASE f # d
      <3>1. cache'[f] = cache[f]
        BY <1>5, <1>6, <2>2
      <3> QED
        BY <1>7, <3>1 DEF LinkInv, ExactInv
    <2> QED
      BY <2>1, <2>2
  <1> QED
    BY <1>4, <1>5, <1>7

LEMMA LinkReferenceLinks ==
    ASSUME IInv, LinkInv, NEW e \in Docs, LinkReference("lock", e) PROVE LinkInv'
  <1> USE DEF LinkInv
  <1> DEFINE d == Current
  <1>1. /\ Step = "building" /\ Phase = Linked /\ d # NoDoc /\ d \in Docs /\ e \in Refs[d]
        /\ Step' = Step /\ Todo' = Todo /\ Phase' = Phase /\ d' = d /\ Passed' = Passed \cup {e}
        /\ UNCHANGED <<text, docs, parsed, state, published, types, dirty, missed, echo, queue>>
        /\ \/ link[d][e] = Unlinked /\ ResolveReference(d, e)
           \/ link[d][e] # Unlinked /\ UNCHANGED <<link, cache>>
    BY DEF LinkReference, historyVars, IInv, TypeOK, Threads, Step, Todo, Phase, Current, Passed
  <1>2. d \in docs /\ d \in Todo /\ state[d] < Linked
    BY <1>1 DEF IInv, PhaseInv, Buildable
  <1>3. /\ link \in [Docs -> [Docs -> Nat \cup {Unlinked}]] /\ parsed \in [Docs -> Nat]
        /\ Buildable \subseteq docs /\ Todo \subseteq Buildable /\ docs \subseteq Docs
    BY DEF IInv, TypeOK, Buildable, PhaseInv
  <1>4. /\ \A f, g \in Docs : <<f, g>> # <<d, e>> => link'[f][g] = link[f][g]
        /\ \A f \in Docs : f # d => link'[f] = link[f]
        /\ link'[d][e] # Unlinked
        /\ link[d][e] = Unlinked => link'[d][e] = parsed[e]
        /\ link[d][e] # Unlinked => link' = link
        /\ \A f, g \in Docs : cache'[f] # Unfilled => cache'[f][g] = parsed[g]
    <2>1. CASE link[d][e] = Unlinked /\ ResolveReference(d, e)
      <3>1. /\ link' = [link EXCEPT ![d][e] = parsed[e]]
            /\ \A f, g \in Docs : cache'[f] # Unfilled => cache'[f][g] = parsed[g]
        BY <1>1, <2>1, LinkingIsExact
      <3>2. parsed[e] # Unlinked
        BY <1>3
      <3> QED
        BY <1>1, <1>3, <2>1, <3>1, <3>2
    <2>2. CASE link[d][e] # Unlinked /\ UNCHANGED <<link, cache>>
      BY <1>1, <2>2 DEF ExactInv
    <2> QED
      BY <1>1, <2>1, <2>2
  <1>5. /\ Pending' = Pending /\ EchoInv' /\ Buildable' = Buildable
        /\ \A k, f : IsPending(k, f)' <=> IsPending(k, f)
    BY <1>1, RunningLinks
  <1>6. JoinedInv'
    BY <1>1, <1>5 DEF JoinedInv
  <1>7. TreeInv'
    BY <1>1, <1>2, <1>4 DEF TreeInv
  <1>8. ExactInv'
    BY <1>1, <1>4 DEF ExactInv
  <1>9. PassedInv'
    <2>1. \A f \in Passed' : link'[d][f] # Unlinked
      <3> SUFFICES ASSUME NEW f \in Passed' PROVE link'[d][f] # Unlinked
        OBVIOUS
      <3>1. CASE f = e
        BY <1>4, <3>1
      <3>2. CASE f # e
        <4>1. f \in Passed /\ link[d][f] # Unlinked
          BY <1>1, <3>2 DEF PassedInv
        <4>2. f \in Docs
          BY <4>1 DEF Passed, IInv, TypeOK, Threads
        <4> QED
          BY <1>1, <1>4, <3>2, <4>1, <4>2
      <3> QED
        BY <3>1, <3>2
    <2>2. ASSUME NEW f \in Docs, state[f] >= Linked, NEW g \in Refs[f] PROVE link'[f][g] # Unlinked
      <3>1. f # d
        <4>1. state[d] \in 0..6
          BY <1>1 DEF IInv, TypeOK, States
        <4> QED
          BY ONLY <1>2, <2>2, <4>1 DEF Linked
      <3> QED
        BY <1>4, <2>2, <3>1 DEF PassedInv
    <2> QED
      BY <1>1, <2>1, <2>2 DEF PassedInv
  <1>10. ShownInv'
    <2>1. \A f \in Buildable : state[f] = Validated => f # d
      BY <1>2
    <2> QED
      BY <1>1, <1>3, <1>4, <1>5, <2>1 DEF ShownInv
  <1>11. BindInv'
    <2> SUFFICES ASSUME NEW f \in Docs, NEW g \in Refs[f], link'[f][g] # Unlinked,
                        g \notin dirty, <<f, g>> \notin missed, ~IsPending("save", g)
                 PROVE  link'[f][g] = parsed[g] /\ Steady(g)
      BY <1>1, <1>5 DEF BindInv, Steady
    <2>1. g \in Docs
      BY BuilderAssumption
    <2>2. CASE link[f][g] # Unlinked
      <3>1. link[f][g] = parsed[g] /\ Steady(g)
        BY <2>2 DEF BindInv
      <3>2. link'[f][g] = link[f][g]
        BY <1>4, <2>1, <2>2
      <3> QED
        BY <3>1, <3>2
    <2>3. CASE link[f][g] = Unlinked
      <3>1. f = d /\ g = e
        BY <1>4, <2>1, <2>3
      <3>2. link'[f][g] = parsed[g]
        BY <1>4, <2>3, <3>1
      <3>3. ~IsPending("delete", g)
        BY <1>1, <2>1 DEF JoinedInv
      <3>4. g \in Buildable => parsed[g] = text[g]
        <4> SUFFICES ASSUME g \in Buildable PROVE state[g] >= Parsed
          BY <1>1 DEF JoinedInv
        <4>1. CASE g \in Todo
          <5>1. state[g] >= Phase - 1
            BY <4>1 DEF IInv, PhaseInv
          <5>2. state[g] \in 0..6
            BY <2>1 DEF IInv, TypeOK, States
          <5> QED
            BY <1>1, <5>1, <5>2
        <4>2. CASE g \notin Todo
          <5>1. state[g] = Validated
            BY <1>1, <4>2 DEF IInv, OthersBuilt, Built
          <5> QED
            BY <5>1
        <4> QED
          BY <4>1, <4>2
      <3>5. g \notin docs \cup Excluded => ~IsPending("change", g)
        BY <1>1, <2>1 DEF JoinedInv
      <3> QED
        BY <3>2, <3>3, <3>4, <3>5 DEF Steady
    <2> QED
      BY <2>2, <2>3
  <1> QED
    BY <1>5, <1>6, <1>7, <1>8, <1>9, <1>10, <1>11

\* What the end of a document does to it, and that it leaves the others alone.
LEMMA EndDocumentLeaves ==
    ASSUME IInv, LinkInv, EndDocument("lock")
    PROVE  /\ Step = "building" /\ Current \in Todo /\ Current \in Buildable /\ Current \in Docs
           /\ Phase \in 1..6 /\ state[Current] \in 0..6 /\ state[Current] < Phase
           /\ state[Current] >= Phase - 1
           /\ state'[Current] = Phase
           /\ Phase = Parsed => /\ parsed'[Current] = text[Current]
                                /\ parsed[Current] # text[Current] => link'[Current] = NoLinks
                                /\ parsed[Current] = text[Current] => link'[Current] = link[Current]
           /\ Phase # Parsed => /\ parsed'[Current] = parsed[Current]
                                /\ link'[Current] = link[Current]
           /\ Phase = Validated => published'[Current].link = link[Current]
           /\ Phase = Linked => Passed = Refs[Current]
           /\ \A f \in Docs : f # Current =>
                 /\ state'[f] = state[f] /\ parsed'[f] = parsed[f] /\ link'[f] = link[f]
                 /\ published'[f] = published[f]
           /\ Step' = Step /\ Todo' = Todo /\ Phase' = Phase /\ Current' = NoDoc /\ Passed' = {}
           /\ UNCHANGED <<text, docs, types, cache, dirty, missed, echo, queue>>
  <1> DEFINE d == Current
  <1>1. /\ Step = "building" /\ d # NoDoc /\ d \in Docs
        /\ state' = [state EXCEPT ![d] = Phase]
        /\ parsed' = [parsed EXCEPT ![d] = IF Phase = Parsed THEN text[d] ELSE @]
        /\ link' = [link EXCEPT ![d] =
                       IF Phase = Parsed /\ parsed[d] # text[d] THEN NoLinks ELSE @]
        /\ published' = [published EXCEPT ![d] =
                            IF Phase = Validated
                            THEN [text |-> parsed[d], link |-> link[d]] ELSE @]
        /\ Phase = Linked => Passed = Refs[d]
        /\ Step' = Step /\ Todo' = Todo /\ Phase' = Phase /\ Current' = NoDoc /\ Passed' = {}
        /\ UNCHANGED <<text, docs, types, cache, dirty, missed, echo, queue>>
    BY DEF EndDocument, sharedVars, historyVars, IInv, TypeOK, Threads, Step, Phase, Todo,
           Current, Passed
  <1>2. /\ state \in [Docs -> 0..6] /\ parsed \in [Docs -> Nat] /\ Phase \in 1..7
        /\ link \in [Docs -> [Docs -> Nat \cup {Unlinked}]]
        /\ published \in [Docs -> [text : Nat, link : [Docs -> Nat \cup {Unlinked}]]]
    BY DEF IInv, TypeOK, States, Phase, Threads
  <1>3. d \in Todo /\ d \in Buildable /\ state[d] < Phase /\ state[d] >= Phase - 1 /\ Phase <= Validated
    BY <1>1 DEF IInv, PhaseInv
  <1> HIDE DEF d
  <1>4. Phase \in 1..6 /\ state[d] \in 0..6
    BY <1>1, <1>2, <1>3
  <1>5. /\ state'[d] = Phase
        /\ parsed'[d] = IF Phase = Parsed THEN text[d] ELSE parsed[d]
        /\ link'[d] = IF Phase = Parsed /\ parsed[d] # text[d] THEN NoLinks ELSE link[d]
        /\ Phase = Validated => published'[d].link = link[d]
    BY <1>1, <1>2
  <1>6. \A f \in Docs : f # d => /\ state'[f] = state[f] /\ parsed'[f] = parsed[f]
                                 /\ link'[f] = link[f] /\ published'[f] = published[f]
    BY <1>1, <1>2
  <1> QED
    BY <1>1, <1>3, <1>4, <1>5, <1>6 DEF d

LEMMA EndDocumentLinks == ASSUME IInv, LinkInv, EndDocument("lock") PROVE LinkInv'
  <1> USE DEF LinkInv
  <1> DEFINE d == Current
  <1>1. /\ Step = "building" /\ d \in Todo /\ d \in Buildable /\ d \in Docs
        /\ Phase \in 1..6 /\ state[d] \in 0..6 /\ state[d] < Phase /\ state[d] >= Phase - 1
        /\ state'[d] = Phase
    BY EndDocumentLeaves
  <1>2. /\ Phase = Parsed => /\ parsed'[d] = text[d]
                             /\ parsed[d] # text[d] => link'[d] = NoLinks
                             /\ parsed[d] = text[d] => link'[d] = link[d]
        /\ Phase # Parsed => parsed'[d] = parsed[d] /\ link'[d] = link[d]
        /\ Phase = Validated => published'[d].link = link[d]
        /\ Phase = Linked => Passed = Refs[d]
    BY EndDocumentLeaves
  <1>3. \A f \in Docs : f # d => /\ state'[f] = state[f] /\ parsed'[f] = parsed[f]
                                 /\ link'[f] = link[f] /\ published'[f] = published[f]
    BY EndDocumentLeaves
  <1>4. /\ Step' = Step /\ Todo' = Todo /\ Phase' = Phase /\ Current' = NoDoc /\ Passed' = {}
        /\ UNCHANGED <<text, docs, types, cache, dirty, missed, echo, queue>>
    BY EndDocumentLeaves
  <1>5. d \in docs /\ docs \subseteq Docs /\ Buildable \subseteq Docs
    BY <1>1 DEF Buildable, IInv, TypeOK
  <1>6. Todo \subseteq Docs /\ \A f \in Docs : state[f] \in 0..6
    BY DEF IInv, PhaseInv, TypeOK, Buildable, States
  <1> HIDE DEF d
  <1>7. /\ Pending' = Pending /\ EchoInv' /\ Buildable' = Buildable
        /\ \A k, f : IsPending(k, f)' <=> IsPending(k, f)
    BY <1>1, <1>4, RunningLinks
  <1>8. Phase # Parsed => state[d] >= Parsed
    BY ONLY <1>1 DEF Parsed
  <1>9. Phase > Linked => state[d] >= Linked
    BY ONLY <1>1 DEF Linked
  <1>10. TreeInv'
    <2>1. ASSUME NEW f \in Docs \ docs PROVE parsed'[f] = 0 /\ link'[f] = NoLinks
      BY <1>3, <1>5, <2>1 DEF TreeInv
    <2>2. ASSUME NEW f \in Docs PROVE text[f] > 0 /\ (state'[f] >= Parsed => parsed'[f] > 0)
      BY <1>1, <1>2, <1>3, <1>8 DEF TreeInv
    <2> QED
      BY <1>4, <2>1, <2>2 DEF TreeInv
  <1>11. ExactInv'
    <2> SUFFICES ASSUME Phase = Linked
                 PROVE  /\ \A f, g \in Docs : cache[f] # Unfilled => cache[f][g] = parsed'[g]
                        /\ (\E f \in Todo : state'[f] < Linked) =>
                              \A g \in Docs : types[g] = IF g \in docs THEN parsed'[g] ELSE 0
      BY <1>4 DEF ExactInv
    <2>1. \A g \in Docs : parsed'[g] = parsed[g]
      BY <1>2, <1>3
    <2>2. \A f \in Todo : state'[f] < Linked => state[f] < Linked
      BY <1>1, <1>3, <1>6
    <2> QED
      BY <1>1, <2>1, <2>2 DEF ExactInv
  <1>12. PassedInv'
    <2> SUFFICES ASSUME NEW f \in Docs, state'[f] >= Linked, NEW g \in Refs[f]
                 PROVE  link'[f][g] # Unlinked
      BY <1>4 DEF PassedInv
    <2>1. CASE f # d
      BY <1>3, <2>1 DEF PassedInv
    <2>2. CASE f = d /\ Phase = Linked
      <3>1. g \in Passed /\ Passed # {}
        BY <1>2, <2>2
      <3>2. link[Current][g] # Unlinked
        BY <3>1 DEF PassedInv
      <3> QED
        BY <1>2, <2>2, <3>2 DEF d
    <2>3. CASE f = d /\ Phase > Linked
      <3>1. Phase # Parsed
        BY <1>1, <2>3
      <3> QED
        BY <1>2, <1>9, <2>3, <3>1 DEF PassedInv
    <2>4. f = d => Phase >= Linked
      BY <1>1
    <2> QED
      BY <1>1, <2>1, <2>2, <2>3, <2>4
  <1>13. ShownInv'
    <2> SUFFICES ASSUME NEW f \in Buildable, state'[f] = Validated
                 PROVE  published'[f].link = link'[f]
      BY <1>7 DEF ShownInv
    <2>1. CASE f # d
      BY <1>3, <1>5, <2>1 DEF ShownInv
    <2>2. CASE f = d
      BY <1>1, <1>2, <2>2
    <2> QED
      BY <2>1, <2>2
  <1>14. JoinedInv'
    <2>1. ASSUME NEW f \in Buildable, state'[f] >= Parsed PROVE parsed'[f] = text[f] \/ f \in dirty
      <3>1. CASE f # d
        BY <1>1, <1>3, <1>5, <2>1, <3>1 DEF JoinedInv
      <3>2. CASE f = d /\ Phase = Parsed
        BY <1>2, <3>2
      <3>3. CASE f = d /\ Phase # Parsed
        BY <1>1, <1>2, <1>8, <3>3 DEF JoinedInv
      <3> QED
        BY <3>1, <3>2, <3>3
    <2> QED
      BY <1>1, <1>4, <1>7, <2>1 DEF JoinedInv
  <1>15. BindInv'
    <2> SUFFICES ASSUME NEW f \in Docs, NEW g \in Refs[f], link'[f][g] # Unlinked,
                        g \notin dirty, <<f, g>> \notin missed, ~IsPending("save", g)
                 PROVE  link'[f][g] = parsed'[g] /\ Steady(g)'
      BY <1>4, <1>7 DEF BindInv
    <2>1. g \in Docs /\ NoLinks[g] = Unlinked
      BY BuilderAssumption DEF NoLinks
    <2>2. link'[f] = link[f]
      BY <1>2, <1>3, <2>1
    <2>3. link[f][g] = parsed[g] /\ Steady(g)
      BY <2>2 DEF BindInv
    <2>4. parsed'[g] = parsed[g]
      BY <1>1, <1>2, <1>3, <2>1, <2>3 DEF Steady
    <2> QED
      BY <1>4, <1>7, <2>2, <2>3, <2>4 DEF Steady
  <1> QED
    BY <1>7, <1>10, <1>11, <1>12, <1>13, <1>14, <1>15

\* The whole invariant, step by step.
LEMMA NextLinks == OnTheLock /\ IInv /\ LinkInv /\ [Next]_vars => LinkInv'
  <1> SUFFICES ASSUME OnTheLock, IInv, LinkInv, [Next]_vars PROVE LinkInv'
    OBVIOUS
  <1>1. CASE User
    BY <1>1, EditLinks, SaveLinks, DeleteLinks, OnlyTheLock DEF User
  <1>2. ASSUME NEW d \in Docs, FileEvent(d) PROVE LinkInv'
    BY <1>2, FileEventLinks
  <1>3. CASE RunWrite
    BY <1>3, RunWriteLinks
  <1>4. CASE RunFullBuild
    BY <1>4, OnlyTheLock
  <1>5. CASE Build("lock")
    BY <1>5, UpdateInterruptedLinks, StartBuildLinks, BeginDocumentLinks, LinkReferenceLinks,
       EndDocumentLinks, EndPhaseLinks, ResetContainerLinks, FillContainerLinks,
       BuildInterruptedLinks, EndBuildLinks DEF Build
  <1>6. ASSUME NEW t \in Threads, Build(t) PROVE LinkInv'
    BY <1>5, <1>6, OnlyTheLock DEF Threads
  <1>8. ASSUME NEW t \in Threads, BuildFails(t) PROVE LinkInv'
    BY <1>8, BuildFailsLinks, OnlyTheLock DEF Threads
  <1>7. CASE UNCHANGED vars
    <2> USE <1>7 DEF vars, docVars, sharedVars, threadVars, historyVars, LinkInv
    <2>1. /\ Step' = Step /\ Todo' = Todo /\ Phase' = Phase /\ Current' = Current
          /\ Passed' = Passed /\ Buildable' = Buildable /\ Pending' = Pending
      BY DEF Step, Todo, Phase, Current, Passed, Buildable, Pending
    <2>2. \A k, d : IsPending(k, d)' <=> IsPending(k, d)
      BY <2>1 DEF IsPending
    <2>3. TreeInv' /\ ExactInv' /\ PassedInv' /\ ShownInv'
      BY <2>1 DEF TreeInv, ExactInv, PassedInv, ShownInv
    <2>4. EchoInv' /\ JoinedInv'
      BY <2>1, <2>2 DEF EchoInv, JoinedInv
    <2>5. BindInv'
      BY <2>1, <2>2 DEF BindInv, Steady
    <2> QED
      BY <2>3, <2>4, <2>5
  <1> QED
    BY <1>1, <1>2, <1>3, <1>4, <1>6, <1>7, <1>8 DEF Next

\* At rest nothing is pending, so a binding that is not excused is current.
LEMMA RestIsKnown == IInv /\ LinkInv => StaleLinksAreKnown
  <1> SUFFICES ASSUME IInv, LinkInv, Quiet, ~failed, NEW d \in Buildable, NEW e \in Refs[d],
                      e \notin dirty, <<d, e>> \notin missed
               PROVE  published[d].link[e] = parsed[e]
    BY DEF StaleLinksAreKnown
  <1>1. d \in Docs /\ Pending = <<>>
    BY DEF Quiet, Pending, Step, Threads, IInv, TypeOK, Buildable
  <1>2. ~IsPending("save", e)
    BY <1>1 DEF IsPending, Held
  <1>3. state[d] = Validated
    BY DEF IInv, QuiescentBuilt, Built
  <1>4. published[d].link = link[d]
    BY <1>3 DEF LinkInv, ShownInv
  <1>5. link[d][e] # Unlinked
    BY <1>1, <1>3 DEF LinkInv, PassedInv
  <1>6. link[d][e] = parsed[e]
    BY <1>1, <1>2, <1>5 DEF LinkInv, BindInv
  <1> QED
    BY <1>4, <1>6

\* However many edits, saves, deletions, cancelled builds and builds ended by an
\* exception there are: once no write is left and the last build was not one of
\* the latter, the diagnostics of a document were made with its references bound
\* to the current trees, but for targets changed since they were saved and for
\* bindings that the selection of a save passed over.
THEOREM OnlyKnownLinksAreStale == OnTheLock /\ Spec => []StaleLinksAreKnown
  <1>1. OnTheLock => OnTheLock'
    BY DEF OnTheLock
  <1> QED
    BY <1>1, Invariance, InitLinks, NextLinks, RestIsKnown, PTL DEF Spec

-----------------------------------------------------------------------------
(* What the status bar is told.                                            *)

\* A build is over only when every document is built with its current text.
LEMMA EndBuildMeans ==
    ASSUME IInv, EndBuild("lock")
    PROVE  \A d \in Buildable : state[d] = Validated /\ published[d].text = text[d]
  <1>1. (QuiescentBuilt' \/ queue' # <<>>) /\ ~failed'
    BY EndBuildInv DEF IInv, WriteRuns, Step, EndBuild, historyVars
  <1>2. queue' = <<>>
    <2>1. queue \in Seq(Operations) /\ queue # <<>> /\ ~(Len(queue) > 1)
      BY DEF EndBuild, Cancelled, IInv, TypeOK, WriteRuns, Step
    <2>2. Len(queue) = 1
      BY <2>1, TailOfQueue, Zenon
    <2>3. Tail(queue) \in Seq(Operations) /\ Len(Tail(queue)) = 0
      BY <2>1, <2>2, TailOfQueue
    <2>4. queue' = Tail(queue)
      BY DEF EndBuild, Finish
    <2> QED
      BY <2>3, <2>4, EmptySeq
  <1>3. Quiet'
    <2>1. step' = [step EXCEPT !["lock"] = "idle"]
      BY DEF EndBuild, Finish
    <2> QED
      BY <1>2, <2>1 DEF Quiet, Threads, IInv, TypeOK, CommandIdle
  <1>4. Buildable' = Buildable /\ UNCHANGED <<state, published, text>>
    BY DEF EndBuild, Buildable
  <1> QED
    BY <1>1, <1>2, <1>3, <1>4 DEF QuiescentBuilt, Built

\* Only the end of a build ends the progress.
LEMMA ReadyStep ==
    OnTheLock /\ IInv /\ [Next]_vars =>
        (progress = "spinning" /\ progress' = "ready" =>
            \A d \in Buildable : state[d] = Validated /\ published[d].text = text[d])
  <1> SUFFICES ASSUME OnTheLock, IInv, [Next]_vars, progress = "spinning", progress' = "ready"
               PROVE  \A d \in Buildable : state[d] = Validated /\ published[d].text = text[d]
    OBVIOUS
  <1>1. ASSUME UNCHANGED progress PROVE FALSE
    BY <1>1
  <1>5. CASE BuildFails("lock")
    BY <1>1, <1>5 DEF BuildFails, sharedVars
  <1>2. CASE User \/ (\E d \in Docs : FileEvent(d)) \/ RunFullBuild \/ UNCHANGED vars
    BY <1>1, <1>2, OnlyTheLock DEF User, Edit, Save, Delete, FileEvent, sharedVars, vars
  <1>3. CASE RunWrite
    BY <1>1, <1>3 DEF RunWrite, Update
  <1>4. CASE Build("lock")
    <2>1. CASE EndBuild("lock")
      BY <2>1, EndBuildMeans
    <2>2. ASSUME NEW d \in Docs, BeginDocument("lock", d) PROVE FALSE
      BY <1>1, <2>2 DEF BeginDocument
    <2>3. ASSUME StartBuild("lock") PROVE FALSE
      BY <1>1, <2>3 DEF StartBuild
    <2>4. ASSUME NEW e \in Docs, LinkReference("lock", e) PROVE FALSE
      BY <1>1, <2>4 DEF LinkReference
    <2>5. ASSUME UpdateInterrupted("lock") \/ BuildInterrupted("lock") \/ EndDocument("lock")
                 \/ EndPhase("lock") \/ ResetContainer("lock") \/ FillContainer("lock")
          PROVE  FALSE
      BY <1>1, <2>5 DEF UpdateInterrupted, BuildInterrupted, EndDocument, EndPhase, ResetContainer,
                        FillContainer, sharedVars
    <2> QED
      BY <1>4, <2>1, <2>2, <2>3, <2>4, <2>5 DEF Build
  <1> QED
    BY <1>2, <1>3, <1>4, <1>5, OnlyTheLock DEF Next, Threads

\* The end of the progress is only reported when every document is built and
\* has the diagnostics of its text, as long as nothing builds beside the lock.
THEOREM ReadyIsBuilt == OnTheLock /\ Spec => ReadyMeansBuilt
  <1>1. OnTheLock => OnTheLock'
    BY DEF OnTheLock
  <1> QED
    BY <1>1, Invariance, ReadyStep, PTL DEF Spec, ReadyMeansBuilt

=============================================================================

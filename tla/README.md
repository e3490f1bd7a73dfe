# EXPRESSsuite in TLA+

EXPRESSsuite is a VS Code extension for the EXPRESS language (ISO 10303-11). It has an
extension host (`src/src/extension`), webviews (`src/src/webview`) and a language server built on
Langium (`src/src/language`). These modules model the parts whose correctness depends on
the order of events: builds that cancel one another, a start that documents and saves fall
into, a worker pool whose workers hang and die late, pages and hovers whose answers come
late, and the tables, graphs and caches that builds leave behind for later requests, with
what references are linked to through them. TLC checks the models on small instances; TLAPS
proves the main invariants of seven of them for every instance.

Langium, VS Code and node are not in the repository's sources. What they do is
modelled from how the code uses them; such definitions are marked external in
`PROJECT.json`.

## 1. Inventory

| Component | State it keeps | Operations | Talks to | Hard part | Correct when |
|---|---|---|---|---|---|
| Document builder (`express-p11-document-builder.ts`, 257 lines) | documents and their build states, `buildState`, `isFirstLoad` | `update`, save handler, `runFullBuild`, phases of `buildDocuments` | lock, index manager, linker, type container, validator, status bar | every write cancels the one before; a command builds off the lock | a workspace at rest is built, diagnostics are of the current text and bindings |
| Workspace manager (`express-p11-workspace-manager.ts`, `express-p11-document-update-handler.ts`) | `fullyReady`, `acceptingStartupDocumentChanges`, `startupDocumentChanges` | `initializeWorkspace`, `refreshOpenDocuments`, `queueStartupDocumentChange` | builder, client | notifications and saves during the start | ready means linked; no change is lost |
| Math worker pool (`plurimath-pool.ts`, `plurimath-worker.ts`) | current worker, `pending`, timers | `renderMath`, handlers of `message`, `error`, `exit`, timer, shutdown | worker threads | hung workers, late exits | every render is answered once |
| Type container (`express-p11-type-container.ts`, 709 lines) | schemas, entities, memo pool, scope index | `build` on `ComputedScopes`, lookups | documents, scope provider, validator | rebuilt in the middle of a build, over waits; supertypes resolved twice | what is looked up is of the current trees, and what they say |
| Scope provider (`express-p11-scope-provider.ts`, 542 lines, with the case rule, scope computation and linker) | `interfaceIndexCache`, `globalScopeCache` | `getScope` | type container, index manager | cache filled at the wrong moment; layers, cases and copies of a name; chains of qualifiers | a reference binds to the declaration the scope rules give, of a current tree |
| Scope index (`express-p11-scope-index.ts`, 360 lines) | export tables per schema, clash cache | `build`, `visibleIn`, `clashesIn` | type container, validator, duplicates command | fixed point over cyclic USE graphs that rename, names folded by case, a table grown while it is read, answers cached per tree | exports are the least fixed point; cached and reported clashes are those of the texts |
| Type utilities and memo pool (`express-p11-type-utilities.ts`, `express-p11-memo-pool.ts`, 900 lines) | supertype graph, memoized closures | `getAllResources`, `getSuperTypes`, `visible`, `getSubSuper` | type container, scope provider | cyclic graphs, memoization under way | closures are complete, whatever was asked first |
| Validators (`express-p11-validator.ts`, `informal-proposition-validator.ts`, `type-system/`) | none between runs | checks per node | type container | - | local to a tree |
| Annotation index and client (`express-p11-annotation-index.ts`, `annotation-client.ts`, `annotation-index.ts`) | annotations per document on the server, a cache per version in the client | `getAnnotations`, `findAnnotationsAt`, cache lookups | server, hover, previews | version read after a wait; close and reopen | the annotations shown are of the text shown |
| Hover math (`hover-math.ts`) | LRU cache of pictures | `renderAsciiMathSvgAsync` | MathJax | concurrent renders at the limit | bounded, most recent kept |
| Math playground (`math-playground.ts`, `webview-message.ts`, `webviews.ts`) | generation, requests under way | input, `setSource`, `mathRendered`, insert | host, worker pool | answers out of order, requests refused | the page shows the last input |
| Status bar (`express-p11-status-bar-item.ts`) | text, `readyTimer` | begin, report, end | builder, manager | begin without end | shows what the server does |
| Client (`extension/main.ts`) | - | file watcher, commands | server | a save is also a file event | - |
| Editor services, previews, grammar, command line, scripts | none across calls | - | - | - | not modelled: no state, or generated |

The hazards, each at its line, are in `PROJECT.json`.

## 2. Modules

`PlurimathPool` implements `RenderService` (a refinement, checked and proved).
`MathPlayground` composes the page, its panel and that `RenderService`, so what it shows
holds with the pool behind it.
`DocumentBuilder` composes the builder, the lock, the type container, the interface cache
and the status bar. `WorkspaceStartup` composes the manager with the writes that follow
it. `ScopeIndex` composes the index with the edits, saves, validations and commands around
it; its build is one phase of `DocumentBuilder`, atomic there and round by round here.
`TypeContainer` opens up the two steps the container has in `DocumentBuilder`
(`ResetContainer`, `FillContainer`), and `ReferenceScopes` extends it with the scope
provider: what `DocumentBuilder` has as the version a reference is bound to is the
declaration here. `Descriptions` composes the server's annotation index, the phases that
feed it and the client that asks.
Each `MC...` module instantiates one of them for TLC, each `..._proofs` module holds its
theorems; `DataLemmas` has the lemmas they share, about numbers, finite sets, sequences and
recursion.

### DocumentBuilder

A document has a text (a version), the version its tree was parsed from, a build state,
and for each document it refers to the version of that document's tree its references are
bound to (`link`), so a stale binding is visible as an old version. `queue` is the write
queue of Langium's lock with the running write at its head: a write is cancelled as soon as
another one stands behind it. The parts of `update` up to its first check are one action
(`Update`): nothing else runs on the lock, and the waits in it (looking up files) change no
state. A build is as fine as its waits: a document begins and ends a phase
(`BeginDocument`, `EndDocument`), each reference is linked in a step of its own
(`LinkReference`), a phase ends (`EndPhase`), and between `ComputedScopes` and `Linked` the
type container is emptied (`ResetContainer`) and filled (`FillContainer`). A cancelled
build stops at any of its checks (`BuildInterrupted`) and the catch block of
`buildDocuments` swallows that. It swallows every other exception as well (`BuildFails`), of
the request for the configuration, of the callback for a document and of the listener that
fills the container; the comment at the catch block (line 231) says that such errors are
handled per document, but what the build still had to do is left undone until the next
update. `buildState` holds the documents that have a build state at all: an update takes it
away, and a build off the lock that ends then completes nothing (`CompletedBy`).

`Save` and `FileEvent` are two writes of one user action: the client's file watcher
reports the saved file some time later. `RunFullBuild` runs on a thread of its own, since
the Build command does not take the lock. `Hover` is `express/findAnnotationsAt`, which
resolves a reference outside any build.

`Init` has two forms: the initial build ended, which leaves documents at
`IndexedReferences` because it does not validate, or it threw and was swallowed before its
first phase. One write, the startup refresh of an open document, is queued.

The third condition under which the code rebuilds a document, that validation categories it was
asked for are missing, is left out of `NeedsBuild`: every update asks for the same categories,
so a validated document misses none.

`dirty`, `missed` and `failed` (the last build was ended by an exception) are history variables
for what the properties except.

### WorkspaceStartup

`stage` is the place in `initializeWorkspace`; `held` are the updates that wait for
the promise `ready`. A build is two steps here, parsing and linking. A cancelled build
does less than all of it; the initialization itself only fails at the checks that throw
(after loading and inside `update`). Exceptions other than cancellations are left out here;
`DocumentBuilder` has them, an initial build that threw among them.

### PlurimathPool and RenderService

`pending` holds the keys of the shared map, `owner` the worker a request was posted to.
A worker is `live`, `terminating` (its thread may still answer), `crashed`, `stopped`
(its exit event is not delivered yet) or `gone`. An expression is good, malformed or makes
the worker hang. Timers have equal delays and fire in the order they were armed; nothing
else is assumed of time.

`RenderService` is the contract: what was asked is answered once.

### ScopeIndex

`specs` holds the interface specifications of the current trees, `built` those the index was
made from, `exports` the table of `computeExports`. A step of the computation visits one
schema (`VisitSchema`, which adds what its USE specifications bring from the table as it
is then) or ends a round (`EndRound`); nothing else runs between `Build` and the end of it,
since the code makes the table in one synchronous call. An entry is a declaration under an
effective name. Dropped are the chain of hops of an arrival, which no decision reads, and
identical repeats in long forms, which only choose a severity.

Around the index, `Edit` replaces the tree of a document (its record leaves the index),
`Save` puts the saved document and those affected down (`pending`), `Validate` reports the
clashes of a document the builds put down (`shown`), and `Ask` is the command. The
phases between are those of `DocumentBuilder`. References are those of the specifications to
their schemas: the documents have no bodies, so nothing else makes a document affected.

### TypeContainer

A workspace is a sequence of schema texts, documents by URI; a declaration is a position
in it. A text keeps what the container reads: names as written, `SUBTYPE OF` lists, bases,
members and attributes with the name of their type. `Build` clears everything and makes the
objects, and the loops of `build` follow one schema at a time, since the code yields there:
`LoadSchema`, `InterfaceSchema`, `NameSupertypes` (the resolution over names), `WireSchema`
(the one over objects, `resolveSuperTypesV2`, which the program uses), `EnterSubtypes`. `Interrupt` is a cancellation at such a point. The queries (`AskResources`,
`AskRelatives`, `AskGraph`, `AskVisible`) fill the memos as the code does: `getSuperTypes`
is a walk that keeps the answer of every entity it meets, in the order of the clauses
(`Collected`), the graph has a key on each member, levels share one visited set.

What clause 11 makes visible (`SeenByClause11`) is stated over the texts: the declarations of a
schema, those its specifications list (`ListedItems`), and what whole interfaces lead to. What one
item names is the code's rule (`LocalDefinition`), a declaration of the named schema itself: the
container ignores the new names of `AS` and finds no item the named schema has by a USE of its
own, so nothing is claimed of these. `ScopeIndex` has both.

### ReferenceScopes

A reference is a place in a text (a schema, an entity, a function), what it looks for and
the written name. `Lookup` is the case rule of one layer; the layers are those of
`defaultScopeWithCaseRule`. A qualifier chain is evaluated from its head over sets of
operands (`OperandsFrom`), one for each declaration the name before it may be linked to.
`Link...` are the references a build links; each fills the caches and memos its code fills.

### MathPlayground

The controller's generation, `inflight` and `reqToGen` (one map here), the job they belong
to, and what the output pane shows; two queues of messages, in order. A text is its length
class and its tokens (of the constant `Tokens`), so `findSegments` is the balanced scan of the code. The validator of
messages decides on lengths, as in the code. A page missed before its script runs, a
message refused, a panel closed with renders under way and a new panel whose ids start
again are actions. An answer carries MathML or a message; the page would show nothing for one
with neither, which the worker does not send (`plurimath-worker.ts`, lines 42-50, unless the
library gives an empty string or an error without a message).

### Descriptions

Text n of a document has remarks with the tags `Tags` gives in turn. The server's documents
go from `changed` to `parsed` to `linked`; a listener runs when a phase is over, which a
write that is waiting prevents (`EndParsing`). A request is answered at once from the index
or, when it has no entry, from the text, which it then indexes; a position that denotes nothing
indexes nothing (`Asked`). A query follows
`resolveDescriptionAt` and `resolveDescriptionByPath` over its awaits; `object` is the
TextDocument it holds when the user closes the document meanwhile. An extension without a client
goes on as if every request failed. `calm` is a history flag:
the server had caught up when the query was asked, nothing changed and no request failed
since, and the cached remarks it used came from such a query.

## 3. Runs

| Run | Instance | Shows |
|---|---|---|
| `pool` | 3 requests, 2 workers | type invariant; `AnsweredOnce`, `TimersMatchSlots`, `OneLiveWorker`, `NoOrphanSlot`; `EveryRenderAnswered` under fair timers; refinement of `RenderService` |
| `builder` | a and b refer to each other, a to an excluded x; 2 events out of an edit, a save, a deletion and an exception | `QuiescentBuilt`, `StaleLinksAreKnown`, `LinksAreCoherent`, `ReadyMeansBuilt` |
| `catch_up` | a, b; an edit, a save, an exception | `DiagnosticsCatchUp` |
| `rest` | a, b; 1 Build command, 1 request | `ComesToRest`: no livelock between lock, command and requests |
| `build_command` | a, b; 1 edit, 1 Build command | finding, see below |
| `startup` | 2 documents, 3 versions, 2 saves | `NothingLeftBehind`, `ReadyMeansLinked`, `ChangesArrive` |
| `scopes` | 4 schemas in 3 files, 40,623 workspaces; 1 edit and its save in 12 of them | `ExportsClosed`, `ExportsDerived`, `ListedItemsAreUnique`, `OwnCopies`, `CacheIsFresh`, `NamedClashesAreShown` |
| `container` | 2 to 3 texts: 96 `SUBTYPE OF` graphs over two schemas, chains of interfaces, selects and enumerations, copies; 2 requests; an edit in some | `ResourcesFollowClause11`, `RelativesAreComplete`, `GraphsAreComponents`, `LevelsAreNearestFirst`, `AttributeTypesAreInstances`, `AttributesAreInherited` |
| `early_requests` | 2 schemas, an edit, a request during the build | finding |
| `references` | 3 texts, one a long form, in 18 variants and two listings; 20 qualified expressions, every name at every place | `PlainReferencesAreScoped`, `LinksAgreeWithContainer`, `InverseAttributesAreExplicit`, `QualifiersStayInTheGraph`, `OperandsAgree` |
| `playground` | 4 texts, 2 acts of the user, 6 renders | `WaitsForWhatComes`, `OutputIsOfLatestText`, `TextsAreShown` |
| `descriptions` | 2 documents of 3 texts, one of them open at times; 2 queries (symmetric), 3 changes or failures | `IndexFollowsTexts`, `CalmQueriesAreRight` |

Bounds. Two documents that refer to each other are the least in which one document's
build can leave another one stale, and one with a reference to an excluded file is linked again
by every update. In `builder`, `MaxEvents` leaves two events of different kinds: a save brings a
second write, so up to three writes stand behind the queued one, and a write can be cancelled by
each other kind, before, during and after each phase; an exception ends any build, be it of the
start, an edit, a save or a deletion, with one further event before, during or after it. Three
events out of the four pass as well (3,674,081 states, too many for a regular run), and the proofs
are for any number. In `catch_up` an edit, a save and an exception may all happen; it has no
deletion, since checking liveness costs more: a deletion cancels builds like the other writes, and
the safe half of the property, `QuiescentBuilt`, has it in `builder`. Three requests and two workers
let a fresh worker have a request of its own while the exit of the old one is to come.
Deadlock is not checked where the system rests when the user does (all but the pool); the
pool's `Shutdown` is always enabled.

Four schemas of which two share a name give own copies, shadowed copies, self-references,
cycles of every length up to four and chains against the order of the visits. The workspaces
are all those with one specification per schema (whole, one item, a renaming with a second
item, or a REFERENCE, whose item is written in another case), those with two in the first,
and a cycle through all four schemas whose renaming permutes five identifiers: it needs more
rounds than there are schemas, so the part of the bound that counts renames is used. One
workspace (`Capitals`) declares an entity and a type under one name with a capital letter.
`Edited` bounds the workspaces in which edits, saves, validations and commands happen; in
them an edit of the third file changes the clashes of the second, which names it, and of
the first, which does not.

`container`: the graphs hold two ways of different length to one entity, cycles of two, three
and four entities, and components that one request enters from either side; two requests
are what one memo needs to mislead the other. Two builds, so that what is kept of the first
could be read in the second. `references`: the texts declare one name as entity, type,
enumeration, item, attribute, parameter and variable in different layers and schemas, in
two cases, once in a long form. Every plain name at every place is compared with the scope
rules in each state; the actions vary only what was cached and asked before, so one request
and two builds suffice. `playground`: two acts let a text overtake the one whose renders
are under way and a panel replace another one with the same ids in flight. `descriptions`:
two queries let one fill the cache the other reads; three changes let a document be
closed and opened again with an edit between, or cancel the builds of two edits.

Fairness. The event loop continues a started operation, the lock starts its next write,
due timers fire, the watcher reports a saved file, messages of a page and its host are
received, the script of an open page starts (`WF`). The renderer answers each render of the
playground (`WF`), which `EveryRenderAnswered` shows of the pool. The user, the worker
threads and their events get no fairness: the worker may hang for ever.

Mutants. Each property of a passing run has a mutant of the code that breaks it
(definitions commented "Mutant" in the modules).

## 4. Findings

1. `build_command`: the Build command overwrites the reset of a concurrent edit, and the
   text of the edit is never parsed.
2. `early_requests`: the memo of visible levels says that its first use is at linking. A
   build of the container yields between two schemas; a request for a document that is not
   rebuilt is answered there, and an entity keeps levels of a graph without its supertypes
   until the next build. The passing run `container` has no requests during a build, which
   is what this run shows to be an assumption.

Not runs, but visible in the models:

- Pool: `exit` drains the whole map, so a request posted to the fresh worker is failed as
  "worker exited" when the exit of the old one arrives (`OnExit`).
- Builder: a build ended by an exception leaves the documents after the one that threw
  unbuilt, with no write to come (`failed` in `QuiescentBuilt`, `StaleLinksAreKnown` and
  `DiagnosticsCatchUp`); the next update builds them. The build of a save begins the progress, the file event of the same save cancels
  it and nothing sends the end (`ReadyMeansBuilt` says that an end is true, not that it
  comes). The first edit after an initial build that threw does so too. A build cancelled
  between linking a document and indexing its references hides the document from
  `shouldRelink` (the exception `missed` of `StaleLinksAreKnown`). A request that resolves a
  reference between an update and the rebuild of the container fills the interface cache
  with old declarations (the assumption `OnTheLock` of `LinksStayCoherent` excludes it).
- Startup: a save during the start cancels the initialization and the changes notified so
  far are dropped (the exception `"rejected"` of `ChangesArrive`); the end of the progress is
  sent then too (the exception `InitCancelled` of `ReadyMeansLinked`).
- Scope index: a listed item whose exact spelling arrives in the target in a later round
  first takes a declaration of another case and keeps it, so the table depends on the order
  of the documents (the assumption of `ExportsAreLeast` excludes it). A save relinks the
  documents that refer to the saved one; a schema that sees it along a chain of two files
  is not validated again, so the command and the Problems view may disagree with everything
  saved (`NamedClashesAreShown` is about the other schemas). In a short form an entity is
  keyed by its exact name and everything else in lower case (`scopeKey`, lines 339-342), so an
  ENTITY `Foo` and a TYPE `Foo` one scope receives are no clash, though the comment of the file
  (lines 36-43) calls every identifier with two declarations one: the case `KeptApart` left
  open in `ListedItemsAreUnique`, found when its proof failed.
- Container: on a cycle of `SUBTYPE OF` the kept supertypes of an entity depend on the one
  asked first (the case left open in `RelativesAreComplete`), and subtypes may be missing
  from its levels. Its filter of documents reads a configuration provider nothing assigns.
- Playground: an empty or oversized text starts no generation, so a render under way
  replaces its notice; an empty segment is refused by the validator of messages, and its
  text waits for ever (`Renderable`); an insertion whose wrapper passes the cap is refused
  without a notice; a text sent to a page whose script has not started may be missed.
- Descriptions: the version that labels the cached remarks is read after the wait for the
  server, a late answer is cached for a document that was closed, and a position is resolved
  against the tree the server still has; `calm` excludes queries that such a change
  disturbed or that read what they cached. The source of remarks merged from several
  documents is the first one only.

## 5. Proofs

The `ASSUME`s of the component modules are the only assumptions on constants, and TLC
evaluates them in each run. Some theorems have a hypothesis besides, named in each case:
`OnTheLock` (no Build command runs and no request resolves a reference outside a build; run
`build_command` shows that commands must be excluded), `ExactNames` (no two identifiers
differ in case only) and `Serial` (no request is answered while the container is built; run
`early_requests` shows that those must be excluded).

`PlurimathPool_proofs`, for any number of requests and workers: `TypeOK`, `AnsweredOnce`,
`TimersMatchSlots`, `OneLiveWorker`, `NoOrphanSlot` and the refinement of `RenderService`. The
inductive invariant `IInv` adds to the checked ones that only asked requests have slots
(`SlotsAsked`), that the current worker is live (`CurrentRuns`) and that a request's owner was
spawned (`OwnersSpawned`): without the last one a timer could terminate a worker that is not
there.

`DocumentBuilder_proofs`, for any workspace and any number of edits, saves, deletions and
exceptions, under `OnTheLock`: `TypeOK`, `QuiescentBuilt`, `LinksAreCoherent`, `StaleLinksAreKnown` and the action
property `ReadyMeansBuilt`. The argument: while a build is in phase p, every document it took is at p - 1
at least and those its loop passed at p (`PhaseInv`); every document it did not take is
completely built (`OthersBuilt`), because `NeedsBuild` took all others; a text newer than its
tree has a write waiting for it or a document that is `Changed` (`TextInv`); diagnostics of a
validated document are of its tree (`PublishedInv`). Whenever a reference can be linked,
container and cache hold current versions only (`ContainerInv`, `CacheInv`), since a build that
reparsed a document also reaches `ComputedScopes` with it and refills the container. For stale
bindings a second invariant, `LinkInv`, says of every reference that it is unbound, or known to
be in doubt (`dirty`, `missed`, or a save of its target is still to run), or bound to the tree
its target has and keeps (`BindInv`). It needs that a build which still links shows the trees as
they are (`ExactInv`), that a document past linking has every reference bound (`PassedInv`), that
diagnostics were made with the bindings of their document (`ShownInv`), and what saves, file
events and deletions have put in the queue since the build began (`EchoInv`, `JoinedInv`).
"Ready" is then a consequence: the end that is sent is of a build that took every document that
was not complete. An exception breaks none of this, since it ends a build as a cancellation does,
except that no write follows; `WriteRuns` says that none has ended the running one.

`WorkspaceStartup_proofs`, for any documents, versions and saves: `TypeOK`, `NothingLeftBehind`,
`ReadyMeansLinked`, and `QuietMeansCurrent`, the safe half of `ChangesArrive` (once the
workspace is ready and no write is left, every tree is linked and of its document's text). `IInv` says that after the load every document has a tree (`LoadedInv`), where
a text that is newer than its tree waits: in the changes of the start, reset, held, or in a write
(`KnownInv`); that before the end of the start the passes alone see to open documents
(`OpenInv`); and that a build which no write follows has parsed and linked everything
(`SettledInv`).

`ScopeIndex_proofs`, for any schemas, declarations, names and specifications: `TypeOK`,
`ExportsClosed`, `OwnCopies`, `CacheIsFresh`, and under `ExactNames` `ListedItemsAreUnique`,
`ExportsDerived` and that everything in the table is in every closed table (`ExportsAreLeast`:
with `ExportsClosed`, the rounds stop at the least closed table). That the table is closed has
two parts: rounds that stop at "no change" leave it closed (`NoChangeIsClosed`, since what a round
without a change has visited is closed), and the bound of the code never stops them
(`CapNeverCuts`). For the second, `RoundInv` says of each declaration that its arrivals are closed
or have gained a place, a schema and a name, in each round so far, and `NamesInv` that every name
is declared or a renaming's; so there are no more places than the bound counts. For
`ExportsDerived` the same count shows that rounds which start from the declarations, and each
take what the USE specifications bring from the table before, end at a closed table of derived
entries, which the least one cannot exceed. `NamedClashesAreShown` compares two tables,
the one a document was validated against and the present one: seen from a set of schemas that
reads only itself, the rounds come to rest at one table whatever happens outside (`ReachInv`); what
a document that is not put down shows is of such a table, made from specifications that have
changed since only in unsaved documents and in documents it does not refer to (`ShownInv`); and
the index is out of date only while a document waits for validation (`DueInv`).

`MathPlayground_proofs`, for any texts and any messages under way: `TypeOK`,
`WaitsForWhatComes` and `OutputIsOfLatestText`. `IInv` gives the latest job the last ids that
were given (`JobInv`), so that an id in flight for the latest generation is of that job (`InflightInv`); says of each place a request or answer can be
(queue to the host, renders, queue to the page, answers collected) that an id of the job has the
expression of the job there (`HostInv`, `RenderInv`, `ViewInv`, `GotInv`), with the panel, since
a page that opens begins its ids again (`PageInv`); and that an id in flight is in one of these
places (`WaitInv`). `SegmentsTyped` is about the recursive scan of a text of any length.

`Descriptions_proofs`, for any documents and texts: `IndexFollowsTexts`, from the order in which
the server's phases and its listeners touch a document (`ServerInv`), and `CalmQueriesAreRight`:
every text on its way to the server is followed by the last one, so that a server which has caught
up has the texts of the client (`TextInv`); a calm query has one message at most, the request of
its step or the answer the present texts give, and a cached entry that came from calm queries and
is labelled with the present version holds the remarks of the present text (`QueryInv`).

`TypeContainer_proofs`, for any workspace, any number of schemas and declarations, and any
`SUBTYPE OF` clauses and interfaces, cyclic ones included, under `Serial`:
`LevelsAreNearestFirst`, `GraphsAreComponents`, `RelativesAreComplete`,
`ResourcesFollowClause11`, `AttributesAreInherited` and `AttributeTypesAreInstances`. Each of the
first four has two halves.
The first is about an operator and not about steps: a recursive walk of the code returns what a
closure over the texts says. That a walk is defined at all follows from `RecursionExists`, by
the number of nodes it has not visited; what it returns is shown by induction over that number,
and compared with the least closed set (`Closure`), which is what `Reached` of the properties
computes. The levels are what a breadth first walk leaves (`LevelsInv`). A graph is a component
because the links are symmetric, so one request meets all its members and none of another graph
(`GraphsInv`). `getSuperTypes` and `getSubTypes` keep an answer for every entity they meet,
also for those met while an entity above was under way; on a walk without a cycle no such
entity is met, and every kept answer is the closure (`RelativesInv`). `getAllResources` shares
the visited schemas between its branches, so what one branch leaves out another one has: the
visited schemas are the least set that encloses what the interfaces lead to, and its list keeps
kinds and names because `Map.set` replaces an entry by one of the same key (`ResourcesInv`).
The second half is that nothing kept outlives the objects it was computed from: until the build
is over nothing is kept, and then the objects stay as they are (`ObjectsInv`, and
`InterfaceInv` for what the loop over the schemas has read so far). The fifth compares
two paths. The listed items are declarations of loaded schemas and name objects
where they name entities (`ItemsInv`), so an object inherits from objects only; after its turn in
the second pass over the `SUBTYPE OF` clauses a schema keeps its list of resources, and its
entities have the supertypes that list gives for the written names (`WireInv`). From an entity that is
an object the walk over the objects and the one over the syntax tree therefore stay within
the objects, agree there, and end at the same closure. The sixth compares `getValues`, a recursion
that ends in an exception where a type contains itself, with the closure of what a type names: by
the number of types not yet under way it answers exactly where no circle is reached, and then
with the entities or items reached (`SelectValuesTotal`, `EnumValuesTotal`). It needs that what a
resolved type names is of the kinds the second pass looked for, so that the walk never leaves
selects, entities and enumerations (`TypesInv`). The attempt refined the statement: an inverse
attribute that writes the name of an entity and of a type holds the entity, since only entities
are looked up for it.

The last part of the module is about ReferenceScopes, under the same hypothesis. The scope of a
schema is cached only after the container has kept the resources it was made from, and a cached
list is the one that would be made now (`CachesInv`); so a step of linking asks the container for
what it has kept, or is one of its own steps, and `LinkingUsesContainer` gives the linker every
theorem of the container. `PlainReferencesAreScoped` then is about operators: what `Lookup` finds
in a list is among the best of its members (`Best`), the first layer with a hit is the innermost
that has a best one, a list of declarations flattened text by text is in the order of the
documents, and what clause 11 makes visible decides on names and kinds, which is all the case rule
reads (`ResourcesFollowClause11`). `InverseAttributesAreExplicit` follows from the argument of
`AttributesAreInherited`: the candidates reach every inherited attribute, and what is no explicit
one is left out before the nearest is chosen.

`DataLemmas` states what these proofs need of data: a set of numbers with a member has a least
or a largest one, induction over a set of numbers and along a sequence, that a recursive function
whose calls have a lower rank exists (`RecursionExists`) and that a fold of the library does
(`FoldExists`), a function followed for any number of rounds (`RoundsExist`), the size of an
image (`ImageIsSmaller`), the elements of sequences, of filtered and of flattened ones; and of
relations: closures, walks by levels and with a set of visited nodes (`WalkIsLevelled`,
`MeetingFills`), and which walks end (`InwardCircles`). A set stands for the operator that the library's induction theorems take, which the provers cannot
instantiate.

Only model-checked: liveness (`EveryRenderAnswered`, `DiagnosticsCatchUp`, `ComesToRest`,
`ChangesArrive` and `TextsAreShown`), which the installed provers cannot treat; and three
invariants of ReferenceScopes, `QualifiersStayInTheGraph`, `LinksAgreeWithContainer` and
`OperandsAgree`. These compare what the linker finds for the operand of a qualifier with what the
container resolved, a reference at a time and along the qualifiers before it; the two sides look
names up in different lists, and no invariant is known yet that relates them for every text.

## 6. Not modelled

- The grammar, formatting and messages; order of documents in a phase (any order is
  allowed); excluded documents beyond their being left out of builds; time, except the order
  of the pool's timers; the three second timer of the status bar.
- Of the texts: constants, rules, procedures, nested algorithms, renamed attributes and labels
  (no table the models read depends on them, except local scopes); in expressions the less
  common heads of a qualifier (`SourceOperands` lists those modelled).
- Validators and the type builder, but for the one that reads the scope index: pure functions
  of a node that keep nothing between runs. A model would be the function again.
- The cache of rendered formulas (`hover-math.ts`): entries are pure results, so that only
  its cost depends on the order of events.
- The choice among several remarks, their rendering, the description and EXPRESS-G panels:
  one page from one message.
- Components listed as `not_modelled` in `PROJECT.json`, with reasons.

## 7. Plan

Done: the eight models with their runs, and the theorems of section 5. What is left, in this
order:

1. `QualifiersStayInTheGraph`.
2. `LinksAgreeWithContainer` and `OperandsAgree`, which compare the linked tree with what the
   container resolved.

-------------------------- MODULE DocumentBuilder --------------------------
(***************************************************************************)
(* The document builder of the language server                             *)
(* (src/language/express-p11-document-builder.ts) after startup: the       *)
(* write operations that edits, saves and file events put on the workspace *)
(* lock, the phases a build takes its documents through, the cancellation  *)
(* of a build by the next write, the exception that ends a build, the type *)
(* container rebuilt in the middle of a build, and the Build command,      *)
(* which does not take the lock.                                           *)
(*                                                                         *)
(* A document is a text version, the version its syntax tree was parsed    *)
(* from, a build state and, for every document it refers to, the version   *)
(* of that document's tree its references are bound to.  What the text     *)
(* says is not modelled: Refs tells who refers to whom.                    *)
(***************************************************************************)
EXTENDS Integers, Sequences, FiniteSets

CONSTANTS
    Docs,           \* document URIs
    Refs,           \* d -> the other documents d refers to
    Excluded,       \* documents excluded by the configuration
    NoDoc,
    MaxEdits, MaxSaves, MaxDeletes,     \* bounds on what the user does
    MaxCommands,                        \* bound: Build commands
    MaxHovers,                          \* bound: requests that resolve a reference
    MaxFailures,                        \* bound: exceptions a build swallows
    MaxEvents                           \* bound: all of these together

ASSUME BuilderAssumption ==
    /\ Refs \in [Docs -> SUBSET Docs]
    /\ \A d \in Docs : d \notin Refs[d]
    /\ Excluded \subseteq Docs
    /\ NoDoc \notin Docs
    /\ {MaxEdits, MaxSaves, MaxDeletes, MaxCommands, MaxHovers, MaxFailures,
        MaxEvents} \subseteq Nat

\* DocumentState of Langium.
Changed == 0
Parsed == 1
IndexedContent == 2
ComputedScopes == 3
Linked == 4
IndexedReferences == 5
Validated == 6
States == 0..6

\* What a reference is bound to: a version of its target (1, 2, ...), or
Broken == 0         \* a linking error
Unlinked == -1      \* nothing yet

Strategies == {"FullBuild", "PartialBuildDuringEdition", "PartialBuildAfterSave"}

\* Who runs builds: the holder of the workspace lock and the Build command.
Threads == {"lock", "command"}

\* What the bounds count.
Counted == {"edits", "saves", "deletes", "commands", "hovers", "failures"}

Operations == [kind : {"change", "save", "delete"}, doc : Docs]

VARIABLES
    text,       \* the text of a document, as a version
    docs,       \* documents in LangiumDocuments
    parsed,     \* version the syntax tree was made from, 0: INVALID placeholder
    state,      \* document.state
    link,       \* d -> target -> what d's references to target are bound to
    refIndex,   \* the reference index: d -> documents it is known to refer to
    buildState, \* documents that have a buildState
    completed,  \* those of them whose buildState is completed
    types,      \* the type container: d -> version its schemas are from, 0: none
    cache,      \* interfaceIndexCache: d -> types when filled, or Unfilled
    published,  \* d -> text version and bindings its diagnostics were made from
    firstLoad,  \* isFirstLoad
    progress,   \* the status bar: off, spinning or ready
    queue,      \* the write queue of the lock; a running write is its head
    echo,       \* saved documents whose file event is still to come
    step,       \* thread -> idle, updated, building or container
    strategy,   \* thread -> strategy of its build
    todo,       \* thread -> validDocs of its build
    phase,      \* thread -> target state of the current phase
    left,       \* thread -> documents its loop over the phase has yet to pass
    current,    \* thread -> document in the callback of the phase
    passed,     \* thread -> references the linker has passed in that document
    dirty,      \* history: changed since a save or a full build reported it
    failed,     \* history: the last build was ended by an exception
    missed,     \* history: <<d, e>> such that d kept bindings to e past e's save
    used        \* how much of the bounds is used up

docVars == <<text, docs, parsed, state, link, refIndex, buildState, completed,
             published>>
sharedVars == <<types, cache, firstLoad, progress>>
threadVars == <<step, strategy, todo, phase, left, current, passed>>
historyVars == <<dirty, missed, failed>>
vars == <<docVars, sharedVars, threadVars, historyVars, queue, echo, used>>

Unfilled == [e \in Docs |-> Unlinked]
NoLinks == [e \in Docs |-> Unlinked]

TypeOK ==
    /\ text \in [Docs -> Nat]
    /\ docs \in SUBSET Docs
    /\ parsed \in [Docs -> Nat]
    /\ state \in [Docs -> States]
    /\ link \in [Docs -> [Docs -> Nat \cup {Unlinked}]]
    /\ refIndex \in [Docs -> SUBSET Docs]
    /\ buildState \in SUBSET Docs
    /\ completed \in SUBSET Docs
    /\ types \in [Docs -> Nat]
    /\ cache \in [Docs -> [Docs -> Nat \cup {Unlinked}]]
    /\ published \in [Docs -> [text : Nat, link : [Docs -> Nat \cup {Unlinked}]]]
    /\ firstLoad \in BOOLEAN
    /\ progress \in {"off", "spinning", "ready"}
    /\ queue \in Seq(Operations)
    /\ echo \in SUBSET Docs
    /\ step \in [Threads -> {"idle", "updated", "building", "container"}]
    /\ strategy \in [Threads -> Strategies]
    /\ todo \in [Threads -> SUBSET Docs]
    /\ phase \in [Threads -> Parsed..(Validated + 1)]
    /\ left \in [Threads -> SUBSET Docs]
    /\ current \in [Threads -> Docs \cup {NoDoc}]
    /\ passed \in [Threads -> SUBSET Docs]
    /\ dirty \in SUBSET Docs
    /\ missed \in SUBSET (Docs \X Docs)
    /\ failed \in BOOLEAN
    /\ used \in [Counted -> Nat]

-----------------------------------------------------------------------------
(* The start: the workspace manager has loaded the files it includes.      *)

Loaded == Docs \ Excluded

\* Either the initial build ended (it does not validate), or it was swallowed
\* before its first phase; the startup refresh of an open document is queued.
Init ==
    /\ text = [d \in Docs |-> 1]
    /\ docs = Loaded
    /\ parsed = [d \in Docs |-> IF d \in Loaded THEN 1 ELSE 0]
    /\ published = [d \in Docs |-> [text |-> 0, link |-> NoLinks]]
    /\ cache = [d \in Docs |-> Unfilled]
    /\ \/ /\ firstLoad = FALSE
          /\ types = parsed
          /\ link = [d \in Docs |-> [e \in Docs |->
                        IF d \in Loaded /\ e \in Refs[d] THEN parsed[e] ELSE Unlinked]]
          /\ state = [d \in Docs |-> IF d \in Loaded THEN IndexedReferences ELSE Changed]
          /\ refIndex = [d \in Docs |-> IF d \in Loaded THEN Refs[d] \cap Loaded ELSE {}]
          /\ completed = Loaded
       \/ /\ firstLoad = TRUE
          /\ types = [d \in Docs |-> 0]
          /\ link = [d \in Docs |-> NoLinks]
          /\ state = [d \in Docs |-> IF d \in Loaded THEN Parsed ELSE Changed]
          /\ refIndex = [d \in Docs |-> {}]
          /\ completed = {}
    /\ buildState = completed
    /\ progress = "ready"
    /\ \E d \in Docs : queue = <<[kind |-> "change", doc |-> d]>>
    /\ echo = {}
    /\ step = [t \in Threads |-> "idle"]
    /\ strategy = [t \in Threads |-> "PartialBuildDuringEdition"]
    /\ todo = [t \in Threads |-> {}]
    /\ phase = [t \in Threads |-> Parsed]
    /\ left = [t \in Threads |-> {}]
    /\ current = [t \in Threads |-> NoDoc]
    /\ passed = [t \in Threads |-> {}]
    /\ dirty = {}
    /\ missed = {}
    /\ failed = FALSE
    /\ used = [k \in Counted |-> 0]

-----------------------------------------------------------------------------
(* The client and the handlers that put writes on the lock.                *)

Use(k, max) ==
    /\ used[k] < max
    /\ used.edits + used.saves + used.deletes + used.commands + used.hovers + used.failures
          < MaxEvents
    /\ used' = [used EXCEPT ![k] = @ + 1]

\* Mutant: a write is not queued again while an equal one is still there.
WriteOnce(kind, d) ==
    LET op == [kind |-> kind, doc |-> d]
    IN  queue' = IF \E i \in DOMAIN queue : queue[i] = op THEN queue ELSE Append(queue, op)

\* WorkspaceLock.write: the write waits for its turn and cancels the previous
\* one; hence a write is cancelled as soon as another one stands behind it.
Write(kind, d) == queue' = Append(queue, [kind |-> kind, doc |-> d])
Cancelled(t) == t = "lock" /\ Len(queue) > 1

\* An edit, or the opening of a document: didChangeContent.
Edit(d) ==
    /\ Use("edits", MaxEdits)
    /\ text' = [text EXCEPT ![d] = @ + 1]
    /\ Write("change", d)
    /\ dirty' = dirty \cup {d}
    /\ UNCHANGED <<docs, parsed, state, link, refIndex, buildState, completed,
                   published, sharedVars, threadVars, missed, failed, echo>>

\* The user saves a document: the save handler takes the lock at once.
Save(d) ==
    /\ Use("saves", MaxSaves)
    /\ d \in docs
    /\ Write("save", d)
    /\ echo' = echo \cup {d}
    /\ UNCHANGED <<docVars, sharedVars, threadVars, historyVars>>

\* The file watcher reports the saved file; the text is the same.
FileEvent(d) ==
    /\ d \in echo
    /\ echo' = echo \ {d}
    /\ Write("change", d)
    /\ UNCHANGED <<docVars, sharedVars, threadVars, historyVars, used>>

\* The file watcher reports that a file was deleted, in the order of its events.
Delete(d) ==
    /\ Use("deletes", MaxDeletes)
    /\ d \in docs \ echo
    /\ Write("delete", d)
    /\ dirty' = dirty \cup {d}
    /\ UNCHANGED <<docVars, sharedVars, threadVars, missed, failed, echo>>

-----------------------------------------------------------------------------
(* update: all state changes, then the first check for cancellation.       *)

\* shouldRelink: a document with a linking error, or one whose indexed
\* references point into a reported document.
ShouldRelink(d, reported) ==
    \/ \E e \in Refs[d] : link[d][e] = Broken
    \/ refIndex[d] \cap reported # {}

RelinkSet(changed, deleted, s) ==
    IF firstLoad \/ s # "PartialBuildDuringEdition"
    THEN {d \in docs \ (changed \cup deleted) : ShouldRelink(d, changed \cup deleted)}
    ELSE {}

\* Mutant: a document to relink is put down to ComputedScopes but not unlinked.
ResetKeepsBindings(changed, deleted, relink) ==
    LET S == changed \cup deleted
    IN  /\ state' = [d \in Docs |->
                        IF d \in S THEN Changed
                        ELSE IF d \in relink /\ state[d] > ComputedScopes
                             THEN ComputedScopes ELSE state[d]]
        /\ link' = [d \in Docs |-> IF d \in S THEN NoLinks ELSE link[d]]
        /\ refIndex' = [d \in Docs |-> IF d \in S THEN {} ELSE refIndex[d]]
        /\ buildState' = buildState \ S
        /\ completed' = completed \ S

\* resetToState: reset documents go down to Changed, the relinked ones to
\* ComputedScopes at most; both lose bindings, indexed references and buildState.
Reset(changed, deleted, relink) ==
    LET S == changed \cup deleted \cup relink
    IN  /\ state' = [d \in Docs |->
                        IF d \in changed \cup deleted THEN Changed
                        ELSE IF d \in relink /\ state[d] > ComputedScopes
                             THEN ComputedScopes ELSE state[d]]
        /\ link' = [d \in Docs |-> IF d \in S THEN NoLinks ELSE link[d]]
        /\ refIndex' = [d \in Docs |-> IF d \in S THEN {} ELSE refIndex[d]]
        /\ buildState' = buildState \ S
        /\ completed' = completed \ S

Update(t, changed, deleted, s) ==
    LET relink == RelinkSet(changed, deleted, s)
    IN  /\ docs' = (docs \ deleted) \cup changed
        /\ parsed' = [d \in Docs |-> IF d \in deleted THEN 0 ELSE parsed[d]]
        /\ Reset(changed, deleted, relink)
        /\ cache' = [d \in Docs |-> Unfilled]
        /\ dirty' = IF s = "PartialBuildDuringEdition" THEN dirty ELSE dirty \ changed
        /\ missed' = {p \in missed : p[1] \notin changed \cup deleted \cup relink} \cup
                     IF s = "PartialBuildDuringEdition" THEN {}
                     ELSE {p \in docs \X changed : /\ p[1] \notin changed \cup relink
                                                   /\ p[2] \in Refs[p[1]]
                                                   /\ link[p[1]][p[2]] # Unlinked}
        /\ failed' = FALSE
        /\ step' = [step EXCEPT ![t] = "updated"]
        /\ strategy' = [strategy EXCEPT ![t] = s]
        /\ UNCHANGED <<text, types, published, firstLoad, progress,
                       todo, phase, left, current, passed, echo>>

\* The lock takes the next write.
RunWrite ==
    /\ step["lock"] = "idle"
    /\ queue # <<>>
    /\ LET op == Head(queue)
       IN  \/ /\ op.kind = "change"
              /\ Update("lock", {op.doc}, {}, "PartialBuildDuringEdition")
           \/ /\ op.kind = "save"
              /\ Update("lock", {op.doc}, {}, "PartialBuildAfterSave")
           \/ /\ op.kind = "delete"
              /\ Update("lock", {}, {op.doc} \cap docs, "PartialBuildDuringEdition")
    /\ UNCHANGED <<queue, used>>

\* The Build command: runFullBuild, without the lock.
RunFullBuild ==
    /\ step["command"] = "idle"
    /\ Use("commands", MaxCommands)
    /\ Update("command", docs, {}, "FullBuild")
    /\ UNCHANGED queue

\* The thread is done with its operation; the lock drops the finished write.
Finish(t) ==
    /\ step' = [step EXCEPT ![t] = "idle"]
    /\ todo' = [todo EXCEPT ![t] = {}]
    /\ phase' = [phase EXCEPT ![t] = Parsed]
    /\ left' = [left EXCEPT ![t] = {}]
    /\ current' = [current EXCEPT ![t] = NoDoc]
    /\ passed' = [passed EXCEPT ![t] = {}]
    /\ queue' = IF t = "lock" THEN Tail(queue) ELSE queue

\* The check after emitUpdate throws.
UpdateInterrupted(t) ==
    /\ step[t] = "updated"
    /\ Cancelled(t)
    /\ Finish(t)
    /\ UNCHANGED <<docVars, sharedVars, historyVars, strategy, echo, used>>

-----------------------------------------------------------------------------
(* buildDocuments and executeBuildDocuments.                               *)

\* Mutants: a document is rebuilt for its state alone, or only when a build of
\* it did not complete.
NeedsBuildByState(d) == state[d] < Validated
NeedsBuildByCompletion(d) == d \notin completed

\* Every update asks for the same validation categories: none is missing.
NeedsBuild(d) == state[d] < Validated \/ d \notin completed

\* The documents to rebuild are collected, the spinner is started for a save
\* or a full build, excluded documents are dropped and prepareBuild runs.
StartBuild(t) ==
    /\ step[t] = "updated"
    /\ ~Cancelled(t)
    /\ LET rebuild == {d \in docs \ Excluded : NeedsBuild(d)}
       IN  /\ todo' = [todo EXCEPT ![t] = rebuild]
           /\ left' = [left EXCEPT ![t] = rebuild]
           /\ buildState' = buildState \cup rebuild
           /\ completed' = completed \ rebuild
    /\ progress' = IF strategy[t] = "PartialBuildDuringEdition" THEN progress ELSE "spinning"
    /\ step' = [step EXCEPT ![t] = "building"]
    /\ phase' = [phase EXCEPT ![t] = Parsed]
    /\ UNCHANGED <<text, docs, parsed, state, link, refIndex, published, types, cache,
                   firstLoad, strategy, current, passed, historyVars, queue, echo, used>>

\* runCancelable comes to a document that is below the phase's target state;
\* of the others it has by now passed some (the order is not modelled).  The
\* linking of a document is reported, but for edits after the first load.
BeginDocument(t, d) ==
    /\ step[t] = "building"
    /\ phase[t] <= Validated
    /\ current[t] = NoDoc
    /\ d \in left[t]
    /\ state[d] < phase[t]
    /\ ~Cancelled(t)
    /\ current' = [current EXCEPT ![t] = d]
    /\ \E skipped \in SUBSET {e \in left[t] : state[e] >= phase[t]} :
          left' = [left EXCEPT ![t] = @ \ (skipped \cup {d})]
    /\ progress' = IF /\ phase[t] = Linked
                      /\ firstLoad \/ strategy[t] # "PartialBuildDuringEdition"
                   THEN "spinning" ELSE progress
    /\ UNCHANGED <<docVars, types, cache, firstLoad, step, strategy, todo, phase, passed,
                   historyVars, queue, echo, used>>

\* What d sees of the other documents: the cache, filled on first use, of what
\* the type container holds and, below it, of what is in the global index.
Indexed(e) == IF state[e] >= IndexedContent THEN parsed[e] ELSE 0
Seen(d) ==
    IF cache[d] # Unfilled THEN cache[d]
    ELSE [e \in Docs |-> IF types[e] # 0 THEN types[e] ELSE Indexed(e)]

\* A reference of d into e is resolved and stays as it is until d is unlinked.
\* Without a schema for d in the container nothing is found, and an error is
\* kept only once d's scopes are computed.
ResolveReference(d, e) ==
    LET target == IF types[d] = 0 THEN Broken ELSE Seen(d)[e]
        keep == target # Broken \/ state[d] >= ComputedScopes
    IN  /\ link' = [link EXCEPT ![d][e] = IF keep THEN target ELSE @]
        /\ cache' = [cache EXCEPT ![d] = IF types[d] = 0 THEN @ ELSE Seen(d)]

\* The linker goes through the references of the document and resolves those
\* that are not bound already.
LinkReference(t, e) ==
    /\ step[t] = "building"
    /\ phase[t] = Linked
    /\ current[t] # NoDoc
    /\ e \in Refs[current[t]] \ passed[t]
    /\ passed' = [passed EXCEPT ![t] = @ \cup {e}]
    /\ \/ link[current[t]][e] = Unlinked /\ ResolveReference(current[t], e)
       \/ link[current[t]][e] # Unlinked /\ UNCHANGED <<link, cache>>
    /\ UNCHANGED <<text, docs, parsed, state, refIndex, buildState, completed, published,
                   types, firstLoad, progress, step, strategy, todo, phase, left, current,
                   historyVars, queue, echo, used>>

\* The callback of the phase ends and the document gets the target state.
EndDocument(t) ==
    /\ step[t] = "building"
    /\ current[t] # NoDoc
    /\ LET d == current[t]
       IN  /\ phase[t] = Linked => passed[t] = Refs[d]
           /\ state' = [state EXCEPT ![d] = phase[t]]
           /\ parsed' = [parsed EXCEPT ![d] = IF phase[t] = Parsed THEN text[d] ELSE @]
           /\ link' = [link EXCEPT ![d] =
                          IF phase[t] = Parsed /\ parsed[d] # text[d] THEN NoLinks ELSE @]
           /\ refIndex' = [refIndex EXCEPT ![d] =
                              IF phase[t] = IndexedReferences
                              THEN {e \in Refs[d] : link[d][e] \notin {Broken, Unlinked}}
                              ELSE @]
           /\ published' = [published EXCEPT ![d] =
                               IF phase[t] = Validated
                               THEN [text |-> parsed[d], link |-> link[d]] ELSE @]
    /\ current' = [current EXCEPT ![t] = NoDoc]
    /\ passed' = [passed EXCEPT ![t] = {}]
    /\ UNCHANGED <<text, docs, buildState, completed, sharedVars, step, strategy, todo, phase, left,
                   historyVars, queue, echo, used>>

\* Mutant: there is no last phase.
PhaseOverWithoutLast(t) ==
    /\ step[t] = "building"
    /\ current[t] = NoDoc
    /\ \A d \in left[t] : state[d] >= phase[t]

\* Mutant: a document that the other builder took further is waited for.
PhaseOverExactly(t) ==
    /\ step[t] = "building"
    /\ phase[t] <= Validated
    /\ current[t] = NoDoc
    /\ \A d \in left[t] : state[d] = phase[t]

PhaseOver(t) ==
    /\ step[t] = "building"
    /\ phase[t] <= Validated
    /\ current[t] = NoDoc
    /\ \A d \in left[t] : state[d] >= phase[t]

\* Mutant: while the user edits, the listeners are not told.
NotifiesAfterSaves(t) ==
    /\ strategy[t] # "PartialBuildDuringEdition"
    /\ \E d \in todo[t] : state[d] = phase[t]

\* Whether notifyBuildPhase has documents to tell the listeners of.
Notifies(t) == \E d \in todo[t] : state[d] = phase[t]

EndPhase(t) ==
    /\ PhaseOver(t)
    /\ ~(phase[t] = ComputedScopes /\ Notifies(t))
    /\ phase' = [phase EXCEPT ![t] = @ + 1]
    /\ left' = [left EXCEPT ![t] = todo[t]]
    /\ UNCHANGED <<docVars, sharedVars, step, strategy, todo, current, passed,
                   historyVars, queue, echo, used>>

\* The type container listens to ComputedScopes: it is emptied at once ...
ResetContainer(t) ==
    /\ PhaseOver(t)
    /\ phase[t] = ComputedScopes /\ Notifies(t)
    /\ ~Cancelled(t)
    /\ types' = [d \in Docs |-> 0]
    /\ step' = [step EXCEPT ![t] = "container"]
    /\ UNCHANGED <<docVars, cache, firstLoad, progress, strategy, todo, phase, left,
                   current, passed, historyVars, queue, echo, used>>

\* ... and filled from every document, after waits in which it can be cancelled.
FillContainer(t) ==
    /\ step[t] = "container"
    /\ types' = [d \in Docs |-> IF d \in docs THEN parsed[d] ELSE 0]
    /\ step' = [step EXCEPT ![t] = "building"]
    /\ phase' = [phase EXCEPT ![t] = @ + 1]
    /\ left' = [left EXCEPT ![t] = todo[t]]
    /\ UNCHANGED <<docVars, cache, firstLoad, progress, strategy, todo, current, passed,
                   historyVars, queue, echo, used>>

\* The documents whose buildState is completed when a build went through all
\* phases: an update in between may have taken the buildState away.
CompletedBy(t) == completed \cup (todo[t] \cap buildState)

\* A cancelled build stops at one of its checks; buildDocuments swallows that.
BuildInterrupted(t) ==
    /\ step[t] \in {"building", "container"}
    /\ Cancelled(t)
    /\ Finish(t)
    /\ completed' = IF phase[t] > Validated THEN CompletedBy(t) ELSE completed
    /\ UNCHANGED <<text, docs, parsed, state, link, refIndex, buildState, published,
                   sharedVars, strategy, historyVars, echo, used>>

\* buildDocuments swallows every other exception as well, wherever it comes from:
\* the request for the configuration, the callback for a document, the listener
\* that fills the container.  All that the build still had to do is left undone.
BuildFails(t) ==
    /\ Use("failures", MaxFailures)
    /\ \/ step[t] \in {"updated", "container"}
       \/ step[t] = "building" /\ current[t] # NoDoc
    /\ Finish(t)
    /\ failed' = TRUE
    /\ UNCHANGED <<docVars, sharedVars, strategy, dirty, missed, echo>>

\* All phases ran: the documents are completed and the progress ends.
EndBuild(t) ==
    /\ step[t] = "building"
    /\ phase[t] > Validated
    /\ ~Cancelled(t)
    /\ Finish(t)
    /\ completed' = CompletedBy(t)
    /\ progress' = IF strategy[t] = "PartialBuildDuringEdition" THEN progress ELSE "ready"
    /\ firstLoad' = FALSE
    /\ UNCHANGED <<text, docs, parsed, state, link, refIndex, buildState, published, types,
                   cache, strategy, historyVars, echo, used>>

-----------------------------------------------------------------------------
\* A request that asks for the declaration behind a reference of d
\* (express/findAnnotationsAt, sent by a hover) resolves it if need be.  It
\* takes no lock and wants no more than a parsed document.
Hover(d, e) ==
    /\ Use("hovers", MaxHovers)
    /\ d \in docs
    /\ state[d] >= Parsed
    /\ e \in Refs[d]
    /\ link[d][e] = Unlinked
    /\ ResolveReference(d, e)
    /\ UNCHANGED <<text, docs, parsed, state, refIndex, buildState, completed, published,
                   types, firstLoad, progress, threadVars, historyVars, queue, echo>>

-----------------------------------------------------------------------------
User ==
    \E d \in Docs : \/ Edit(d)
                    \/ Save(d)
                    \/ Delete(d)
                    \/ \E e \in Docs : Hover(d, e)

Build(t) ==
    \/ UpdateInterrupted(t)
    \/ StartBuild(t)
    \/ \E d \in Docs : BeginDocument(t, d)
    \/ \E e \in Docs : LinkReference(t, e)
    \/ EndDocument(t)
    \/ EndPhase(t)
    \/ ResetContainer(t)
    \/ FillContainer(t)
    \/ BuildInterrupted(t)
    \/ EndBuild(t)

Next ==
    \/ User
    \/ \E d \in Docs : FileEvent(d)
    \/ RunWrite
    \/ RunFullBuild
    \/ \E t \in Threads : Build(t) \/ BuildFails(t)

\* The event loop goes on with a started operation, the lock starts the next
\* one, and the watcher reports saved files.  The user does what he likes.
Fairness ==
    /\ WF_vars(RunWrite)
    /\ \A t \in Threads : WF_vars(Build(t))
    /\ \A d \in Docs : WF_vars(FileEvent(d))

Spec == Init /\ [][Next]_vars /\ Fairness

-----------------------------------------------------------------------------
(* Properties.                                                             *)

Quiet == queue = <<>> /\ \A t \in Threads : step[t] = "idle"

Buildable == docs \ Excluded

Built(d) == state[d] = Validated /\ d \in completed

\* However many builds were cancelled or ended by an exception on the way, once
\* no write is left every document that is not excluded went through all phases,
\* and its diagnostics are those of the text the client holds.  Only when the
\* last build itself was ended by an exception is this left to the next update.
QuiescentBuilt ==
    Quiet /\ ~failed => \A d \in Buildable : Built(d) /\ published[d].text = text[d]

\* Once no write is left, the diagnostics of a document were made with its
\* references bound to the current trees, but for targets that changed since
\* they were saved (an edit does not relink) or that a save's selection of
\* documents to relink passed over, and unless the last build failed.
StaleLinksAreKnown ==
    Quiet /\ ~failed => \A d \in Buildable : \A e \in Refs[d] :
        \/ published[d].link[e] = parsed[e]
        \/ e \in dirty
        \/ <<d, e>> \in missed

\* No reference is ever bound to a tree that its document already replaced:
\* while a build links, container, cache and syntax trees are of one version.
LinksAreCoherent ==
    [][\A d, e \in Docs :
          link'[d][e] # link[d][e] /\ link'[d][e] > 0 => link'[d][e] = parsed[e]]_vars

\* The end of the progress, which the status bar shows as "EXPRESSsuite ready",
\* is only reported when every document is built and has its diagnostics.
ReadyMeansBuilt ==
    [][progress = "spinning" /\ progress' = "ready" =>
          \A d \in Buildable : state[d] = Validated /\ published[d].text = text[d]]_vars

\* The diagnostics of a document catch up with its text, whatever cancels or
\* ends the builds in between; an exception can only put it off to the build of
\* the next update.
DiagnosticsCatchUp ==
    \A d \in Docs \ Excluded :
        (published[d].text # text[d]) ~>
            (published[d].text = text[d] \/ d \notin docs \/ failed)

\* Builds on the lock, the Build command and requests never keep each other
\* going or waiting: the server comes to rest.
ComesToRest == <>[]Quiet

=============================================================================

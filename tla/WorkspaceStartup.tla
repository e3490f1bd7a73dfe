-------------------------- MODULE WorkspaceStartup --------------------------
(***************************************************************************)
(* The start of the language server: the workspace manager's               *)
(* initialization, which is the first write on the workspace lock          *)
(* (src/language/express-p11-workspace-manager.ts), the document           *)
(* notifications that arrive while it runs                                 *)
(* (src/language/express-p11-document-update-handler.ts), and the writes   *)
(* that follow it.                                                         *)
(*                                                                         *)
(* A build is two steps here, reading the texts and linking the trees;     *)
(* DocumentBuilder shows what happens between them.  A write is cancelled  *)
(* as soon as another one stands behind it, and its builds then stop at    *)
(* one of their checks, which the initialization survives and an update's  *)
(* own check does not.                                                     *)
(***************************************************************************)
EXTENDS Naturals, Sequences

CONSTANTS
    Docs,           \* documents of the workspace
    MaxVersion,     \* bound: versions of a document's text
    MaxSaves        \* bound: saves in a behaviour

ASSUME StartupAssumption == MaxVersion \in Nat \ {0} /\ MaxSaves \in Nat

Versions == 1..MaxVersion

\* Where initializeWorkspace is.
Stages == {"configuring", "loading", "loaded", "building", "looping", "refreshing",
           "linking", "done"}

VARIABLES
    stage,          \* of initializeWorkspace
    ready,          \* the promise fullyReady
    accepting,      \* acceptingStartupDocumentChanges
    startupChanges, \* startupDocumentChanges
    open,           \* keys of TextDocuments
    text,           \* document -> version of its text, in the editor or on disk
    parsed,         \* document -> version its tree was made from, 0: not loaded
    linked,         \* document -> version of the tree last linked, 0: none
    stale,          \* documents reset to Changed and not parsed since
    held,           \* updates that wait for the promise
    queue,          \* writes of the lock, behind the initialization until it is done
    run,            \* what the write at the head of the queue does, after that
    progress,       \* what the status bar was told last
    saves           \* bound: number of saves

initVars == <<stage, ready, accepting, startupChanges, progress>>
docVars == <<parsed, linked, stale>>
lockVars == <<held, queue, run>>
vars == <<initVars, docVars, lockVars, open, text, saves>>

TypeOK ==
    /\ stage \in Stages
    /\ ready \in {"pending", "resolved", "rejected"}
    /\ accepting = (ready = "pending")
    /\ startupChanges \in SUBSET Docs
    /\ open \in SUBSET Docs
    /\ text \in [Docs -> Versions]
    /\ parsed \in [Docs -> Versions \cup {0}]
    /\ linked \in [Docs -> Versions \cup {0}]
    /\ stale \in SUBSET Docs
    /\ held \in Seq(Docs)
    /\ queue \in Seq(Docs)
    /\ run \in {"idle", "reset", "parsed"}
    /\ progress \in {"off", "begin", "end"}
    /\ saves \in 0..MaxSaves

Init ==
    /\ stage = "configuring"
    /\ ready = "pending"
    /\ accepting = TRUE
    /\ startupChanges = {}
    /\ open = {}
    /\ text = [d \in Docs |-> 1]
    /\ parsed = [d \in Docs |-> 0]
    /\ linked = [d \in Docs |-> 0]
    /\ stale = {}
    /\ held = <<>>
    /\ queue = <<>>
    /\ run = "idle"
    /\ progress = "off"
    /\ saves = 0

-----------------------------------------------------------------------------
(* Notifications of the client.                                            *)

\* Mutant: an update that comes before the promise is settled is dropped.
FireDropsEarly(d) ==
    /\ queue' = IF ready = "resolved" THEN Append(queue, d) ELSE queue
    /\ UNCHANGED held

\* fireDocumentUpdate: the update waits for the promise; if it is rejected the
\* update is only logged.
FireDocumentUpdate(d) ==
    /\ held' = IF ready = "pending" THEN Append(held, d) ELSE held
    /\ queue' = IF ready = "resolved" THEN Append(queue, d) ELSE queue

\* Mutant: a startup change is not kept while the refresh runs.
DidChangeDuringRefresh(d) ==
    /\ IF accepting
       THEN /\ startupChanges' = IF stage \in {"refreshing", "linking"} THEN startupChanges
                                 ELSE startupChanges \cup {d}
            /\ UNCHANGED <<held, queue>>
       ELSE FireDocumentUpdate(d) /\ UNCHANGED startupChanges
    /\ UNCHANGED <<stage, ready, accepting, progress, docVars, run, saves>>

\* didChangeContent: kept for the manager's refresh during the start.
DidChangeContent(d) ==
    /\ IF accepting
       THEN startupChanges' = startupChanges \cup {d} /\ UNCHANGED <<held, queue>>
       ELSE FireDocumentUpdate(d) /\ UNCHANGED startupChanges
    /\ UNCHANGED <<stage, ready, accepting, progress, docVars, run, saves>>

Open(d) ==
    /\ d \notin open
    /\ open' = open \cup {d}
    /\ UNCHANGED text
    /\ DidChangeContent(d)

Edit(d) ==
    /\ d \in open
    /\ text[d] < MaxVersion
    /\ text' = [text EXCEPT ![d] = @ + 1]
    /\ UNCHANGED open
    /\ DidChangeContent(d)

\* The file of a document that is not open changes on disk.
FileChanges(d) ==
    /\ d \notin open
    /\ text[d] < MaxVersion
    /\ text' = [text EXCEPT ![d] = @ + 1]
    /\ FireDocumentUpdate(d)
    /\ UNCHANGED <<open, initVars, docVars, run, saves>>

\* The save handler does not wait for the promise.
Save(d) ==
    /\ d \in open
    /\ saves < MaxSaves
    /\ saves' = saves + 1
    /\ queue' = Append(queue, d)
    /\ UNCHANGED <<initVars, docVars, held, run, open, text>>

-----------------------------------------------------------------------------
(* The initialization.                                                     *)

\* The initialization is cancelled by any write behind it.
InitCancelled == queue # <<>>

\* The end of the try block: the held updates become writes.
Succeed ==
    /\ stage' = "done"
    /\ ready' = "resolved"
    /\ accepting' = FALSE
    /\ progress' = "end"
    /\ queue' = queue \o held
    /\ held' = <<>>

\* The catch and finally blocks: the held updates fail, the progress ends.
Fail ==
    /\ stage' = "done"
    /\ ready' = "rejected"
    /\ accepting' = FALSE
    /\ progress' = "end"
    /\ held' = <<>>
    /\ UNCHANGED queue

Proceed(s) == stage' = s /\ UNCHANGED <<ready, accepting, progress, held, queue>>

Configure ==
    /\ stage = "configuring"
    /\ stage' = "loading"
    /\ progress' = "begin"
    /\ UNCHANGED <<ready, accepting, startupChanges, docVars, lockVars, open, text, saves>>

\* The files are read and parsed.
Load ==
    /\ stage = "loading"
    /\ parsed' = text
    /\ Proceed("loaded")
    /\ UNCHANGED <<startupChanges, linked, stale, run, open, text, saves>>

CheckAfterLoad ==
    /\ stage = "loaded"
    /\ IF InitCancelled THEN Fail ELSE Proceed("building")
    /\ UNCHANGED <<startupChanges, docVars, run, open, text, saves>>

\* A build stopped by a cancellation leaves the trees that are not linked; a
\* later build takes them in.
Link(cancelled) ==
    \/ linked' = parsed
    \/ cancelled /\ UNCHANGED linked

InitialBuild ==
    /\ stage = "building"
    /\ Link(InitCancelled)
    /\ Proceed("looping")
    /\ UNCHANGED <<startupChanges, parsed, stale, run, open, text, saves>>

\* A pass of refreshOpenDocuments: the open and the notified documents are
\* reset, and the update's check throws if the write was cancelled.
Refresh ==
    LET openUris == open \cup startupChanges
    IN  /\ stage = "looping"
        /\ startupChanges' = {}
        /\ stale' = stale \cup openUris
        /\ IF openUris = {} THEN Succeed
           ELSE IF InitCancelled THEN Fail
           ELSE Proceed("refreshing")
        /\ UNCHANGED <<parsed, linked, run, open, text, saves>>

\* The build of the pass parses what was reset.
Parse ==
    /\ parsed' = [d \in Docs |-> IF d \in stale THEN text[d] ELSE parsed[d]]
    /\ stale' = {}

RefreshParse ==
    /\ stage = "refreshing"
    /\ Parse \/ (InitCancelled /\ UNCHANGED <<parsed, stale>>)
    /\ Proceed("linking")
    /\ UNCHANGED <<startupChanges, linked, run, open, text, saves>>

\* Mutant: one pass only.
RefreshLinkOnce ==
    /\ stage = "linking"
    /\ Link(InitCancelled)
    /\ Succeed
    /\ UNCHANGED <<startupChanges, parsed, stale, run, open, text, saves>>

\* The pass ends: another one for the changes that came meanwhile, or ready.
RefreshLink ==
    /\ stage = "linking"
    /\ Link(InitCancelled)
    /\ IF startupChanges = {} THEN Succeed ELSE Proceed("looping")
    /\ UNCHANGED <<startupChanges, parsed, stale, run, open, text, saves>>

-----------------------------------------------------------------------------
(* The writes after the initialization.                                    *)

Cancelled == Len(queue) > 1

RunWrite ==
    /\ stage = "done"
    /\ run = "idle"
    /\ queue # <<>>
    /\ stale' = stale \cup {Head(queue)}
    /\ run' = "reset"
    /\ UNCHANGED <<initVars, parsed, linked, held, queue, open, text, saves>>

WriteParse ==
    /\ run = "reset"
    /\ Parse
    /\ run' = "parsed"
    /\ UNCHANGED <<initVars, linked, held, queue, open, text, saves>>

\* A cancelled write may end before or after it parsed.
WriteEnd ==
    /\ \/ run = "parsed" /\ Link(Cancelled)
       \/ run = "reset" /\ Cancelled /\ UNCHANGED linked
    /\ run' = "idle"
    /\ queue' = Tail(queue)
    /\ UNCHANGED <<initVars, parsed, stale, held, open, text, saves>>

-----------------------------------------------------------------------------
Initialize ==
    \/ Configure
    \/ Load
    \/ CheckAfterLoad
    \/ InitialBuild
    \/ Refresh
    \/ RefreshParse
    \/ RefreshLink

LockStep == RunWrite \/ WriteParse \/ WriteEnd

Next ==
    \/ \E d \in Docs : Open(d) \/ Edit(d) \/ FileChanges(d) \/ Save(d)
    \/ Initialize
    \/ LockStep

\* The server goes on with what it started; the user is free.
Fairness == WF_vars(Initialize) /\ WF_vars(LockStep)

Spec == Init /\ [][Next]_vars /\ Fairness

-----------------------------------------------------------------------------
(* Properties.                                                             *)

\* No notification is left behind in the manager when the updates start to go
\* their usual way: between the last look at the set and the promise nothing
\* can be added.
NothingLeftBehind == ready = "resolved" => startupChanges = {}

\* Unless a write cancelled the initialization, its progress ends with the
\* promise resolved, the trees of all documents linked, and those of the open
\* ones of their current text.
ReadyMeansLinked ==
    [][progress' = "end" /\ progress # "end" /\ ~InitCancelled =>
          /\ ready' = "resolved"
          /\ \A d \in Docs : linked'[d] # 0 /\ linked'[d] = parsed'[d]
          /\ \A d \in open : linked'[d] = text[d]]_vars

\* Every change of a text, before or after the workspace is ready, ends up in a
\* linked tree, unless the initialization was rejected.
ChangesArrive ==
    \A d \in Docs : (linked[d] # text[d]) ~> (linked[d] = text[d] \/ ready = "rejected")

=============================================================================

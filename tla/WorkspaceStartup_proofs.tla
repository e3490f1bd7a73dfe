----------------------- MODULE WorkspaceStartup_proofs -----------------------
(***************************************************************************)
(* What the start of the language server guarantees for any set of         *)
(* documents and any number of edits, file changes and saves.              *)
(***************************************************************************)
EXTENDS WorkspaceStartup, SequenceTheorems, TLAPS

USE StartupAssumption

\* The promise is settled where initializeWorkspace ends, once; the writes of
\* the lock run after that, and no update waits any longer.
StageInv ==
    /\ stage # "done" <=> ready = "pending"
    /\ stage # "done" => run = "idle"
    /\ stage = "done" => held = <<>>
    /\ run # "idle" => queue # <<>>

\* Once read, every document has a tree; none is reset before the first pass
\* of refreshOpenDocuments.
IsLoaded == stage \notin {"configuring", "loading"}
LoadedInv ==
    /\ IsLoaded => \A d \in Docs : parsed[d] # 0
    /\ stage \in {"configuring", "loading", "loaded", "building"} => stale = {}

\* The document is that of a write that has not started to run, of the writes q
\* with the head in the state r.
AwaitedIn(q, r, d) == \E i \in 1..Len(q) : q[i] = d /\ (i > 1 \/ r = "idle")
Awaited(d) == AwaitedIn(queue, run, d)
HeldIn(h, d) == \E i \in 1..Len(h) : h[i] = d

\* A tree that is not of the current text will be parsed again: the document is
\* reset, noted for the next pass, or has an update that waits.
KnownInv ==
    IsLoaded /\ ready # "rejected" =>
        \A d \in Docs : \/ parsed[d] = text[d]
                        \/ d \in startupChanges \cup stale
                        \/ HeldIn(held, d)
                        \/ Awaited(d)

\* Until the workspace is ready it is the passes that see to an open document.
OpenInv ==
    IsLoaded /\ stage # "done" =>
        \A d \in open : parsed[d] = text[d] \/ d \in startupChanges \cup stale

\* Where nothing is written behind a build, it has parsed and linked everything.
SettledInv ==
    /\ stage \in {"looping", "linking"} /\ queue = <<>> => stale = {}
    /\ stage = "looping" /\ queue = <<>> => linked = parsed
    /\ ready = "resolved" /\ queue = <<>> => stale = {} /\ linked = parsed
    /\ run = "parsed" => stale = {}

IInv ==
    /\ TypeOK
    /\ StageInv
    /\ NothingLeftBehind
    /\ LoadedInv
    /\ KnownInv
    /\ OpenInv
    /\ SettledInv

\* The workspace is ready and no write is left: every tree is linked, from the
\* text its document has.  (The safe half of ChangesArrive: a change of a text is
\* never forgotten, whenever it came.)
QuietMeansCurrent ==
    ready = "resolved" /\ queue = <<>> => \A d \in Docs : linked[d] = text[d]

-----------------------------------------------------------------------------
(* The writes of the lock, as a sequence.                                  *)

\* A write that joins the queue leaves those before it awaited, and is awaited.
LEMMA JoiningWrites ==
    ASSUME NEW q \in Seq(Docs), NEW e \in Docs, NEW r
    PROVE  /\ Append(q, e) \in Seq(Docs)
           /\ Append(q, e) # <<>>
           /\ \A d \in Docs : AwaitedIn(q, r, d) => AwaitedIn(Append(q, e), r, d)
           /\ (r = "idle" \/ q # <<>>) => AwaitedIn(Append(q, e), r, e)
  <1> DEFINE q2 == Append(q, e)
  <1>1. /\ q2 \in Seq(Docs)
        /\ Len(q2) = Len(q) + 1
        /\ Len(q) \in Nat
        /\ \A i \in 1..Len(q) : q2[i] = q[i]
        /\ q2[Len(q) + 1] = e
    OBVIOUS
  <1>2. q # <<>> => Len(q) > 0
    BY <1>1
  <1>3. q2 # <<>>
    BY <1>1
  <1>4. ASSUME NEW d \in Docs, AwaitedIn(q, r, d) PROVE AwaitedIn(q2, r, d)
    BY <1>1, <1>4 DEF AwaitedIn
  <1>5. ASSUME r = "idle" \/ q # <<>> PROVE AwaitedIn(q2, r, e)
    <2>1. Len(q) + 1 \in 1..Len(q2) /\ (Len(q) + 1 > 1 \/ r = "idle")
      BY <1>1, <1>2, <1>5
    <2> QED
      BY <1>1, <2>1 DEF AwaitedIn
  <1> QED
    BY <1>1, <1>3, <1>4, <1>5

\* The held updates keep their documents awaited when they become writes.
LEMMA HeldBecomeWrites ==
    ASSUME NEW q \in Seq(Docs), NEW h \in Seq(Docs)
    PROVE  /\ q \o h \in Seq(Docs)
           /\ q \o h = <<>> => q = <<>>
           /\ \A d \in Docs : AwaitedIn(q, "idle", d) \/ HeldIn(h, d) => AwaitedIn(q \o h, "idle", d)
  <1> DEFINE qh == q \o h
  <1>1. /\ qh \in Seq(Docs)
        /\ Len(qh) = Len(q) + Len(h)
        /\ Len(q) \in Nat /\ Len(h) \in Nat
        /\ \A i \in 1..Len(q) : qh[i] = q[i]
        /\ \A i \in 1..Len(h) : qh[Len(q) + i] = h[i]
    OBVIOUS
  <1>2. qh = <<>> => q = <<>>
    BY <1>1
  <1>3. ASSUME NEW d \in Docs, AwaitedIn(q, "idle", d) PROVE AwaitedIn(qh, "idle", d)
    BY <1>1, <1>3 DEF AwaitedIn
  <1>4. ASSUME NEW d \in Docs, HeldIn(h, d) PROVE AwaitedIn(qh, "idle", d)
    <2>1. PICK i \in 1..Len(h) : h[i] = d
      BY <1>4 DEF HeldIn
    <2>2. Len(q) + i \in 1..Len(qh) /\ qh[Len(q) + i] = d
      BY <1>1, <2>1
    <2> QED
      BY <2>2 DEF AwaitedIn
  <1> QED
    BY <1>1, <1>2, <1>3, <1>4

\* Of the writes that wait, only the head stops being awaited when it runs.
LEMMA HeadRuns ==
    ASSUME NEW q \in Seq(Docs), q # <<>>
    PROVE  /\ Head(q) \in Docs
           /\ \A d \in Docs : AwaitedIn(q, "idle", d) => d = Head(q) \/ AwaitedIn(q, "reset", d)
  <1>1. Head(q) \in Docs /\ Head(q) = q[1] /\ Len(q) \in Nat
    BY HeadTailProperties
  <1> QED
    BY <1>1 DEF AwaitedIn

\* When the head is through, the writes behind it are awaited as before.
LEMMA HeadEnds ==
    ASSUME NEW q \in Seq(Docs), q # <<>>, NEW r, r # "idle"
    PROVE  /\ Tail(q) \in Seq(Docs)
           /\ Tail(q) = <<>> => ~(Len(q) > 1)
           /\ \A d \in Docs : AwaitedIn(q, r, d) => AwaitedIn(Tail(q), "idle", d)
  <1>1. /\ Tail(q) \in Seq(Docs)
        /\ Len(q) \in Nat \ {0}
        /\ Len(Tail(q)) = Len(q) - 1
        /\ \A i \in 1..Len(Tail(q)) : Tail(q)[i] = q[i + 1]
    BY HeadTailProperties
  <1>2. Tail(q) = <<>> => ~(Len(q) > 1)
    <2>1. Tail(q) = <<>> => Len(Tail(q)) = 0
      BY EmptySeq, <1>1
    <2> QED
      BY <1>1, <2>1
  <1>3. ASSUME NEW d \in Docs, AwaitedIn(q, r, d) PROVE AwaitedIn(Tail(q), "idle", d)
    <2>1. PICK i \in 1..Len(q) : q[i] = d /\ i > 1
      BY <1>3 DEF AwaitedIn
    <2>2. i - 1 \in 1..Len(Tail(q)) /\ Tail(q)[i - 1] = d
      BY <1>1, <2>1
    <2> QED
      BY <2>2 DEF AwaitedIn
  <1> QED
    BY <1>1, <1>2, <1>3

\* Nothing is awaited or held of an empty sequence.
LEMMA NothingAwaited ==
    /\ \A r, d : ~AwaitedIn(<<>>, r, d)
    /\ \A d : ~HeldIn(<<>>, d)
  BY DEF AwaitedIn, HeldIn

-----------------------------------------------------------------------------
(* The steps.                                                              *)

\* A write that is put on the queue leaves what the invariant says of the
\* documents and the initialization.
LEMMA QueueGrows ==
    ASSUME IInv, NEW e \in Docs, queue' = Append(queue, e),
           stage' = stage, ready' = ready, run' = run
    PROVE  /\ queue' \in Seq(Docs) /\ queue' # <<>>
           /\ \A d \in Docs : Awaited(d) => Awaited(d)'
           /\ Awaited(e)'
  <1>1. queue \in Seq(Docs) /\ (run = "idle" \/ queue # <<>>)
    BY DEF IInv, TypeOK, StageInv
  <1> QED
    BY <1>1, JoiningWrites DEF Awaited

\* fireDocumentUpdate for a document whose text may have changed: the update is
\* held, queued or, after a rejected start, dropped.
LEMMA UpdateIsKept ==
    ASSUME IInv, NEW e \in Docs, FireDocumentUpdate(e),
           stage' = stage, ready' = ready, run' = run
    PROVE  /\ held' \in Seq(Docs) /\ queue' \in Seq(Docs)
           /\ queue' = <<>> => queue = <<>>
           /\ run # "idle" => queue' # <<>>
           /\ stage = "done" => held' = <<>>
           /\ ready # "rejected" =>
                \A d \in Docs : HeldIn(held, d) \/ Awaited(d) \/ d = e => HeldIn(held', d) \/ Awaited(d)'
  <1>1. held \in Seq(Docs) /\ queue \in Seq(Docs) /\ ready \in {"pending", "resolved", "rejected"}
    BY DEF IInv, TypeOK
  <1>2. CASE ready = "pending"
    <2>1. held' = Append(held, e) /\ queue' = queue
      BY <1>2 DEF FireDocumentUpdate
    <2>2. \A d \in Docs : HeldIn(held, d) \/ d = e => HeldIn(Append(held, e), d)
      <3>1. \A h, d : AwaitedIn(h, "idle", d) <=> HeldIn(h, d)
        BY DEF HeldIn, AwaitedIn
      <3>2. \A d \in Docs :
                AwaitedIn(held, "idle", d) \/ d = e => AwaitedIn(Append(held, e), "idle", d)
        BY <1>1, JoiningWrites
      <3> QED
        BY <3>1, <3>2
    <2> QED
      BY <1>1, <1>2, <2>1, <2>2, JoiningWrites DEF IInv, StageInv, Awaited
  <1>3. CASE ready = "resolved"
    <2>1. held' = held /\ queue' = Append(queue, e)
      BY <1>3 DEF FireDocumentUpdate
    <2> QED
      BY <1>1, <1>3, <2>1, QueueGrows DEF IInv, StageInv
  <1>4. CASE ready = "rejected"
    BY <1>1, <1>4 DEF FireDocumentUpdate, IInv, StageInv
  <1> QED
    BY <1>1, <1>2, <1>3, <1>4

\* A notification: the text of at most one document changes, and it is noted for
\* the next pass or fires an update.
LEMMA NotificationStep ==
    ASSUME IInv, NEW e \in Docs,
           \/ Open(e)
           \/ Edit(e)
           \/ FileChanges(e)
    PROVE  IInv'
  <1> DEFINE Noted == accepting /\ startupChanges' = startupChanges \cup {e} /\ UNCHANGED <<held, queue>>
             Fired == FireDocumentUpdate(e) /\ UNCHANGED startupChanges
  <1>1. /\ text \in [Docs -> Versions] /\ open \in SUBSET Docs /\ startupChanges \in SUBSET Docs
        /\ held \in Seq(Docs) /\ queue \in Seq(Docs)
        /\ ready \in {"pending", "resolved", "rejected"}
        /\ accepting = (ready = "pending")
    BY DEF IInv, TypeOK
  <1>2. /\ UNCHANGED <<stage, ready, accepting, progress, parsed, linked, stale, run, saves>>
        /\ open' \in SUBSET Docs
        /\ text' \in [Docs -> Versions]
        /\ \A d \in Docs : d # e => text'[d] = text[d]
        /\ \/ Noted /\ open' \subseteq open \cup {e}
           \/ Fired /\ (~accepting \/ (e \notin open /\ open' = open))
    <2>1. CASE Open(e)
      BY <1>1, <2>1 DEF Open, DidChangeContent, docVars
    <2>2. ASSUME text[e] < MaxVersion, text' = [text EXCEPT ![e] = @ + 1]
          PROVE  text' \in [Docs -> Versions] /\ \A d \in Docs : d # e => text'[d] = text[d]
      <3>1. text[e] + 1 \in Versions
        BY <1>1, <2>2 DEF Versions, StartupAssumption
      <3> QED
        BY <1>1, <2>2, <3>1
    <2>3. CASE Edit(e)
      BY <1>1, <2>2, <2>3 DEF Edit, DidChangeContent, docVars
    <2>4. CASE FileChanges(e)
      BY <1>1, <2>2, <2>4 DEF FileChanges, initVars, docVars
    <2> QED
      BY <2>1, <2>3, <2>4
  <1>3. CASE Noted /\ open' \subseteq open \cup {e}
    <2>1. startupChanges' \in SUBSET Docs /\ ready = "pending" /\ ready' = "pending"
      BY <1>1, <1>2, <1>3
    <2>2. TypeOK'
      BY <1>2, <1>3, <2>1 DEF IInv, TypeOK
    <2>3. StageInv' /\ LoadedInv' /\ NothingLeftBehind' /\ SettledInv'
      BY <1>2, <1>3, <2>1 DEF IInv, StageInv, LoadedInv, IsLoaded, NothingLeftBehind, SettledInv
    <2>4. KnownInv'
      BY <1>2, <1>3 DEF IInv, KnownInv, IsLoaded, Awaited
    <2>5. OpenInv'
      BY <1>1, <1>2, <1>3 DEF IInv, OpenInv, IsLoaded
    <2> QED
      BY <2>2, <2>3, <2>4, <2>5 DEF IInv
  <1>4. CASE Fired /\ (~accepting \/ (e \notin open /\ open' = open))
    <2>1. /\ held' \in Seq(Docs) /\ queue' \in Seq(Docs)
          /\ queue' = <<>> => queue = <<>>
          /\ run # "idle" => queue' # <<>>
          /\ stage = "done" => held' = <<>>
          /\ ready # "rejected" =>
                \A d \in Docs : HeldIn(held, d) \/ Awaited(d) \/ d = e => HeldIn(held', d) \/ Awaited(d)'
      BY <1>2, <1>4, UpdateIsKept
    <2>2. TypeOK'
      BY <1>2, <1>4, <2>1 DEF IInv, TypeOK
    <2>3. StageInv' /\ LoadedInv' /\ NothingLeftBehind' /\ SettledInv'
      BY <1>2, <1>4, <2>1 DEF IInv, StageInv, LoadedInv, IsLoaded, NothingLeftBehind, SettledInv
    <2>4. KnownInv'
      BY <1>2, <1>4, <2>1 DEF IInv, KnownInv, IsLoaded
    <2>5. OpenInv'
      BY <1>1, <1>2, <1>4 DEF IInv, OpenInv, IsLoaded, StageInv
    <2> QED
      BY <2>2, <2>3, <2>4, <2>5 DEF IInv
  <1> QED
    BY <1>2, <1>3, <1>4

\* A save only queues a write.
LEMMA SaveStep == ASSUME IInv, NEW e \in Docs, Save(e) PROVE IInv'
  <1>1. /\ UNCHANGED <<stage, ready, accepting, startupChanges, progress, parsed, linked, stale,
                       held, run, open, text>>
        /\ queue' = Append(queue, e)
        /\ saves < MaxSaves /\ saves' = saves + 1
    BY DEF Save, initVars, docVars
  <1>2. queue' \in Seq(Docs) /\ queue' # <<>> /\ \A d \in Docs : Awaited(d) => Awaited(d)'
    BY <1>1, QueueGrows
  <1>3. TypeOK'
    <2>1. saves' \in 0..MaxSaves
      BY <1>1 DEF IInv, TypeOK, StartupAssumption
    <2> QED
      BY <1>1, <1>2, <2>1 DEF IInv, TypeOK
  <1>4. StageInv' /\ LoadedInv' /\ NothingLeftBehind' /\ SettledInv' /\ OpenInv'
    BY <1>1, <1>2 DEF IInv, StageInv, LoadedInv, IsLoaded, NothingLeftBehind, SettledInv, OpenInv
  <1>5. KnownInv'
    BY <1>1, <1>2 DEF IInv, KnownInv, IsLoaded
  <1> QED
    BY <1>3, <1>4, <1>5 DEF IInv

\* The steps of the initialization before the passes.
LEMMA OpeningSteps ==
    ASSUME IInv, Configure \/ Load \/ CheckAfterLoad \/ InitialBuild
    PROVE  IInv'
  <1> USE DEF IInv
  <1>1. CASE Configure
    <2>1. TypeOK'
      BY <1>1 DEF Configure, docVars, lockVars, TypeOK, Stages
    <2>2. StageInv' /\ NothingLeftBehind' /\ LoadedInv'
      BY <1>1 DEF Configure, docVars, lockVars, StageInv, NothingLeftBehind, LoadedInv, IsLoaded
    <2>3. KnownInv' /\ OpenInv' /\ SettledInv'
      BY <1>1 DEF Configure, docVars, lockVars, KnownInv, OpenInv, SettledInv, IsLoaded, StageInv
    <2> QED
      BY <2>1, <2>2, <2>3
  <1>2. CASE Load
    <2>1. text \in [Docs -> Versions] /\ \A d \in Docs : text[d] # 0
      BY DEF TypeOK, Versions
    <2>2. TypeOK'
      BY <1>2, <2>1 DEF Load, Proceed, TypeOK, Stages
    <2>3. StageInv' /\ NothingLeftBehind' /\ LoadedInv'
      BY <1>2, <2>1 DEF Load, Proceed, StageInv, NothingLeftBehind, LoadedInv, IsLoaded
    <2>4. KnownInv' /\ OpenInv' /\ SettledInv'
      BY <1>2, <2>1 DEF Load, Proceed, KnownInv, OpenInv, SettledInv, IsLoaded, StageInv, TypeOK
    <2> QED
      BY <2>2, <2>3, <2>4
  <1>3. CASE CheckAfterLoad
    <2>1. TypeOK'
      <3>1. CASE InitCancelled
        <4>1. /\ stage' = "done" /\ ready' = "rejected" /\ accepting' = FALSE
              /\ progress' = "end" /\ held' = <<>> /\ queue' = queue
              /\ UNCHANGED <<startupChanges, parsed, linked, stale, run, open, text, saves>>
          BY <1>3, <3>1 DEF CheckAfterLoad, Fail, docVars
        <4>2. held' \in Seq(Docs)
          BY <4>1
        <4> QED
          BY <4>1, <4>2 DEF TypeOK, Stages
      <3>2. CASE ~InitCancelled
        BY <1>3, <3>2 DEF CheckAfterLoad, Proceed, docVars, TypeOK, Stages
      <3> QED
        BY <3>1, <3>2
    <2>2. StageInv' /\ NothingLeftBehind' /\ LoadedInv'
      BY <1>3 DEF CheckAfterLoad, Proceed, Fail, docVars, StageInv, NothingLeftBehind, LoadedInv,
                  IsLoaded
    <2>3. KnownInv' /\ OpenInv' /\ SettledInv'
      BY <1>3 DEF CheckAfterLoad, Proceed, Fail, docVars, KnownInv, OpenInv, SettledInv, IsLoaded,
                  StageInv, Awaited
    <2> QED
      BY <2>1, <2>2, <2>3
  <1>4. CASE InitialBuild
    <2>1. TypeOK'
      BY <1>4 DEF InitialBuild, Link, Proceed, TypeOK, Stages
    <2>2. StageInv' /\ NothingLeftBehind' /\ LoadedInv'
      BY <1>4 DEF InitialBuild, Proceed, StageInv, NothingLeftBehind, LoadedInv, IsLoaded
    <2>3. KnownInv' /\ OpenInv'
      BY <1>4 DEF InitialBuild, Proceed, KnownInv, OpenInv, IsLoaded, Awaited
    <2>4. SettledInv'
      BY <1>4 DEF InitialBuild, Link, InitCancelled, Proceed, SettledInv, LoadedInv, StageInv
    <2> QED
      BY <2>1, <2>2, <2>3, <2>4
  <1> QED
    BY <1>1, <1>2, <1>3, <1>4

\* The end of the try block: what was held is awaited instead.
LEMMA SucceedKeeps ==
    ASSUME IInv, stage # "done", Succeed, run' = run
    PROVE  /\ queue' \in Seq(Docs) /\ held' = <<>> /\ held' \in Seq(Docs)
           /\ queue' = <<>> => queue = <<>>
           /\ \A d \in Docs : HeldIn(held, d) \/ Awaited(d) => Awaited(d)'
  <1>1. queue \in Seq(Docs) /\ held \in Seq(Docs) /\ run = "idle"
    BY DEF IInv, TypeOK, StageInv
  <1>2. queue' = queue \o held /\ held' = <<>>
    BY DEF Succeed
  <1> QED
    BY <1>1, <1>2, HeldBecomeWrites DEF Awaited

\* The build of a pass, or of an update, parses everything that was reset.
LEMMA ParseFacts ==
    ASSUME TypeOK, Parse
    PROVE  /\ parsed' \in [Docs -> Versions \cup {0}] /\ stale' = {} /\ stale' \in SUBSET Docs
           /\ \A d \in Docs : parsed'[d] = IF d \in stale THEN text[d] ELSE parsed[d]
           /\ \A d \in Docs : text[d] # 0
  BY DEF Parse, TypeOK, Versions

\* The start of a pass, which may find nothing left to do.
LEMMA RefreshStep == ASSUME IInv, Refresh PROVE IInv'
  <1> USE DEF IInv
  <1> DEFINE openUris == open \cup startupChanges
  <1>1. /\ stage = "looping" /\ startupChanges' = {} /\ stale' = stale \cup openUris
        /\ UNCHANGED <<parsed, linked, run, open, text, saves>>
        /\ \/ openUris = {} /\ Succeed
           \/ openUris # {} /\ InitCancelled /\ Fail
           \/ openUris # {} /\ ~InitCancelled /\ Proceed("refreshing")
    BY DEF Refresh
  <1>2. open \in SUBSET Docs /\ stale' \in SUBSET Docs /\ run = "idle" /\ ready = "pending"
    BY <1>1 DEF TypeOK, StageInv
  <1>3. CASE openUris = {} /\ Succeed
    <2>1. /\ queue' \in Seq(Docs) /\ held' = <<>> /\ held' \in Seq(Docs)
          /\ queue' = <<>> => queue = <<>>
          /\ \A d \in Docs : HeldIn(held, d) \/ Awaited(d) => Awaited(d)'
      BY <1>1, <1>3, SucceedKeeps
    <2>2. stage' = "done" /\ ready' = "resolved" /\ accepting' = FALSE /\ progress' = "end"
      BY <1>3 DEF Succeed
    <2>3. TypeOK'
      BY <1>1, <1>2, <2>1, <2>2 DEF TypeOK, Stages
    <2>4. StageInv' /\ NothingLeftBehind' /\ LoadedInv'
      BY <1>1, <1>2, <2>1, <2>2 DEF StageInv, NothingLeftBehind, LoadedInv, IsLoaded
    <2>5. KnownInv'
      BY <1>1, <1>2, <1>3, <2>1, <2>2 DEF KnownInv, IsLoaded
    <2>6. OpenInv' /\ SettledInv'
      BY <1>1, <1>2, <1>3, <2>1, <2>2 DEF OpenInv, SettledInv
    <2> QED
      BY <2>3, <2>4, <2>5, <2>6
  <1>4. CASE openUris # {} /\ InitCancelled /\ Fail
    <2>1. stage' = "done" /\ ready' = "rejected" /\ accepting' = FALSE /\ progress' = "end"
          /\ held' = <<>> /\ queue' = queue
      BY <1>4 DEF Fail
    <2>2. TypeOK'
      <3>1. held' \in Seq(Docs)
        BY <2>1
      <3> QED
        BY <1>1, <1>2, <2>1, <3>1 DEF TypeOK, Stages
    <2>3. StageInv' /\ NothingLeftBehind' /\ LoadedInv'
      BY <1>1, <1>2, <2>1 DEF StageInv, NothingLeftBehind, LoadedInv, IsLoaded
    <2>4. KnownInv' /\ OpenInv' /\ SettledInv'
      BY <1>1, <1>2, <2>1 DEF KnownInv, OpenInv, SettledInv
    <2> QED
      BY <2>2, <2>3, <2>4
  <1>5. CASE openUris # {} /\ ~InitCancelled /\ Proceed("refreshing")
    <2>1. stage' = "refreshing" /\ UNCHANGED <<ready, accepting, progress, held, queue>>
      BY <1>5 DEF Proceed
    <2>2. TypeOK'
      BY <1>1, <1>2, <2>1 DEF TypeOK, Stages
    <2>3. StageInv' /\ NothingLeftBehind' /\ LoadedInv'
      BY <1>1, <1>2, <2>1 DEF StageInv, NothingLeftBehind, LoadedInv, IsLoaded
    <2>4. KnownInv' /\ OpenInv' /\ SettledInv'
      BY <1>1, <1>2, <2>1 DEF KnownInv, OpenInv, SettledInv, IsLoaded, Awaited
    <2> QED
      BY <2>2, <2>3, <2>4
  <1> QED
    BY <1>1, <1>3, <1>4, <1>5

\* The rest of a pass.
LEMMA RefreshParseStep == ASSUME IInv, RefreshParse PROVE IInv'
  <1> USE DEF IInv
  <1>1. /\ stage = "refreshing" /\ stage' = "linking"
        /\ UNCHANGED <<ready, accepting, progress, held, queue, startupChanges, linked, run, open,
                       text, saves>>
        /\ Parse \/ (InitCancelled /\ UNCHANGED <<parsed, stale>>)
    BY DEF RefreshParse, Proceed
  <1>2. CASE Parse
    <2>1. /\ parsed' \in [Docs -> Versions \cup {0}] /\ stale' = {} /\ stale' \in SUBSET Docs
          /\ \A d \in Docs : parsed'[d] = IF d \in stale THEN text[d] ELSE parsed[d]
          /\ \A d \in Docs : text[d] # 0
      BY <1>2, ParseFacts
    <2>2. TypeOK' /\ StageInv' /\ NothingLeftBehind'
      BY <1>1, <2>1 DEF TypeOK, Stages, StageInv, NothingLeftBehind
    <2>3. LoadedInv' /\ SettledInv'
      BY <1>1, <2>1 DEF LoadedInv, IsLoaded, SettledInv, StageInv
    <2>4. KnownInv'
      BY <1>1, <2>1 DEF KnownInv, IsLoaded, Awaited
    <2>5. OpenInv'
      <3>1. open \in SUBSET Docs
        BY DEF TypeOK
      <3> QED
        BY <1>1, <2>1, <3>1 DEF OpenInv, IsLoaded
    <2> QED
      BY <2>2, <2>3, <2>4, <2>5
  <1>3. CASE InitCancelled /\ UNCHANGED <<parsed, stale>>
    <2>1. TypeOK' /\ StageInv' /\ NothingLeftBehind'
      BY <1>1, <1>3 DEF TypeOK, Stages, StageInv, NothingLeftBehind
    <2>2. LoadedInv' /\ SettledInv'
      BY <1>1, <1>3 DEF LoadedInv, IsLoaded, SettledInv, StageInv, InitCancelled
    <2>3. KnownInv' /\ OpenInv'
      BY <1>1, <1>3 DEF KnownInv, OpenInv, IsLoaded, Awaited
    <2> QED
      BY <2>1, <2>2, <2>3
  <1> QED
    BY <1>1, <1>2, <1>3

\* The end of a pass: ready, or another pass.
LEMMA RefreshLinkStep == ASSUME IInv, RefreshLink PROVE IInv'
  <1> USE DEF IInv
  <1>1. /\ stage = "linking"
        /\ UNCHANGED <<startupChanges, parsed, stale, run, open, text, saves>>
        /\ linked' = parsed \/ (queue # <<>> /\ linked' = linked)
        /\ \/ startupChanges = {} /\ Succeed
           \/ Proceed("looping")
    BY DEF RefreshLink, Link, InitCancelled
  <1>2. linked' \in [Docs -> Versions \cup {0}] /\ run = "idle" /\ ready = "pending"
    BY <1>1 DEF TypeOK, StageInv
  <1>3. CASE startupChanges = {} /\ Succeed
    <2>1. /\ queue' \in Seq(Docs) /\ held' = <<>> /\ held' \in Seq(Docs)
          /\ queue' = <<>> => queue = <<>>
          /\ \A d \in Docs : HeldIn(held, d) \/ Awaited(d) => Awaited(d)'
      BY <1>1, <1>3, SucceedKeeps
    <2>2. stage' = "done" /\ ready' = "resolved" /\ accepting' = FALSE /\ progress' = "end"
      BY <1>3 DEF Succeed
    <2>3. TypeOK'
      BY <1>1, <1>2, <2>1, <2>2 DEF TypeOK, Stages
    <2>4. StageInv' /\ NothingLeftBehind' /\ LoadedInv'
      BY <1>1, <1>2, <1>3, <2>1, <2>2 DEF StageInv, NothingLeftBehind, LoadedInv, IsLoaded
    <2>5. KnownInv'
      BY <1>1, <1>2, <1>3, <2>1, <2>2 DEF KnownInv, IsLoaded
    <2>6. OpenInv' /\ SettledInv'
      BY <1>1, <1>2, <1>3, <2>1, <2>2 DEF OpenInv, SettledInv
    <2> QED
      BY <2>3, <2>4, <2>5, <2>6
  <1>4. CASE Proceed("looping")
    <2>1. stage' = "looping" /\ UNCHANGED <<ready, accepting, progress, held, queue>>
      BY <1>4 DEF Proceed
    <2>2. TypeOK'
      BY <1>1, <1>2, <2>1 DEF TypeOK, Stages
    <2>3. StageInv' /\ NothingLeftBehind' /\ LoadedInv'
      BY <1>1, <1>2, <2>1 DEF StageInv, NothingLeftBehind, LoadedInv, IsLoaded
    <2>4. KnownInv' /\ OpenInv' /\ SettledInv'
      BY <1>1, <1>2, <2>1 DEF KnownInv, OpenInv, SettledInv, IsLoaded, Awaited
    <2> QED
      BY <2>2, <2>3, <2>4
  <1> QED
    BY <1>1, <1>3, <1>4

\* The writes after the initialization.
LEMMA LockSteps == ASSUME IInv, LockStep PROVE IInv'
  <1> USE DEF IInv
  <1>1. queue \in Seq(Docs) /\ stale \in SUBSET Docs
    BY DEF TypeOK
  <1>2. CASE RunWrite
    <2>1. /\ stage = "done" /\ run = "idle" /\ run' = "reset" /\ queue # <<>>
          /\ stale' = stale \cup {Head(queue)}
          /\ UNCHANGED <<stage, ready, accepting, startupChanges, progress, parsed, linked, held,
                         queue, open, text, saves>>
      BY <1>2 DEF RunWrite, initVars
    <2>2. /\ Head(queue) \in Docs
          /\ \A d \in Docs : Awaited(d) => d \in stale' \/ Awaited(d)'
      BY <1>1, <2>1, HeadRuns DEF Awaited
    <2>3. TypeOK' /\ StageInv' /\ NothingLeftBehind' /\ LoadedInv'
      BY <2>1, <2>2 DEF TypeOK, StageInv, NothingLeftBehind, LoadedInv, IsLoaded
    <2>4. KnownInv' /\ OpenInv' /\ SettledInv'
      BY <2>1, <2>2 DEF KnownInv, OpenInv, SettledInv, IsLoaded
    <2> QED
      BY <2>3, <2>4
  <1>3. CASE WriteParse
    <2>1. /\ run = "reset" /\ run' = "parsed" /\ Parse /\ stage = "done"
          /\ UNCHANGED <<stage, ready, accepting, startupChanges, progress, linked, held, queue,
                         open, text, saves>>
      BY <1>3 DEF WriteParse, initVars, StageInv
    <2>2. /\ parsed' \in [Docs -> Versions \cup {0}] /\ stale' = {} /\ stale' \in SUBSET Docs
          /\ \A d \in Docs : parsed'[d] = IF d \in stale THEN text[d] ELSE parsed[d]
          /\ \A d \in Docs : text[d] # 0
      BY <2>1, ParseFacts
    <2>3. queue # <<>>
      BY <2>1 DEF StageInv
    <2>4. TypeOK' /\ StageInv' /\ NothingLeftBehind' /\ LoadedInv'
      BY <2>1, <2>2, <2>3 DEF TypeOK, StageInv, NothingLeftBehind, LoadedInv, IsLoaded
    <2>5. \A d \in Docs : Awaited(d) => Awaited(d)'
      BY <2>1 DEF Awaited, AwaitedIn
    <2>6. KnownInv'
      BY <2>1, <2>2, <2>5 DEF KnownInv, IsLoaded
    <2>7. OpenInv' /\ SettledInv'
      BY <2>1, <2>2, <2>3 DEF OpenInv, SettledInv
    <2> QED
      BY <2>4, <2>6, <2>7
  <1>4. CASE WriteEnd
    <2>1. /\ run # "idle" /\ run' = "idle" /\ stage = "done" /\ queue # <<>>
          /\ queue' = Tail(queue)
          /\ (linked' = parsed /\ run = "parsed") \/ (linked' = linked /\ Len(queue) > 1)
          /\ UNCHANGED <<stage, ready, accepting, startupChanges, progress, parsed, stale, held,
                         open, text, saves>>
      BY <1>4 DEF WriteEnd, Link, Cancelled, initVars, StageInv
    <2>2. /\ queue' \in Seq(Docs)
          /\ queue' = <<>> => ~(Len(queue) > 1)
          /\ \A d \in Docs : Awaited(d) => Awaited(d)'
      BY <1>1, <2>1, HeadEnds DEF Awaited
    <2>3. TypeOK' /\ StageInv' /\ NothingLeftBehind' /\ LoadedInv'
      BY <2>1, <2>2 DEF TypeOK, StageInv, NothingLeftBehind, LoadedInv, IsLoaded
    <2>4. KnownInv' /\ OpenInv' /\ SettledInv'
      BY <2>1, <2>2 DEF KnownInv, OpenInv, SettledInv, IsLoaded
    <2> QED
      BY <2>3, <2>4
  <1> QED
    BY <1>2, <1>3, <1>4 DEF LockStep

\* The invariant holds before anything was configured.
LEMMA InitInv == Init => IInv
  <1> SUFFICES ASSUME Init PROVE IInv
    OBVIOUS
  <1>1. TypeOK
    <2>1. 1 \in Versions /\ 0 \in 0..MaxSaves
      BY DEF Versions, StartupAssumption
    <2>2. queue \in Seq(Docs) /\ held \in Seq(Docs)
      BY DEF Init
    <2> QED
      BY <2>1, <2>2 DEF Init, TypeOK, Stages
  <1> QED
    BY <1>1 DEF Init, IInv, StageInv, NothingLeftBehind, LoadedInv, KnownInv, OpenInv, SettledInv,
                IsLoaded

\* Every step keeps the invariant.
LEMMA NextInv == IInv /\ [Next]_vars => IInv'
  <1> SUFFICES ASSUME IInv, [Next]_vars PROVE IInv'
    OBVIOUS
  <1>1. ASSUME NEW d \in Docs, Open(d) \/ Edit(d) \/ FileChanges(d) PROVE IInv'
    BY <1>1, NotificationStep
  <1>2. ASSUME NEW d \in Docs, Save(d) PROVE IInv'
    BY <1>2, SaveStep
  <1>3. CASE Initialize
    BY <1>3, OpeningSteps, RefreshStep, RefreshParseStep, RefreshLinkStep DEF Initialize
  <1>4. CASE LockStep
    BY <1>4, LockSteps
  <1>5. CASE UNCHANGED vars
    BY <1>5 DEF vars, initVars, docVars, lockVars, IInv, TypeOK, StageInv, NothingLeftBehind,
                LoadedInv, KnownInv, OpenInv, SettledInv, IsLoaded, Awaited
  <1> QED
    BY <1>1, <1>2, <1>3, <1>4, <1>5 DEF Next

\* The invariant holds throughout, for any number of documents.
LEMMA Invariance == Spec => []IInv
  BY InitInv, NextInv, PTL DEF Spec

-----------------------------------------------------------------------------
(* The results.                                                            *)

\* Every variable has its type.
THEOREM TypesAreKept == Spec => []TypeOK
  <1>1. IInv => TypeOK
    BY DEF IInv
  <1> QED
    BY <1>1, Invariance, PTL

\* No notification is left in startupDocumentChanges once the promise is
\* resolved: didChangeContent cannot add one between the last look of
\* refreshOpenDocuments and the end of initializeWorkspace.
THEOREM NothingIsLeftBehind == Spec => []NothingLeftBehind
  <1>1. IInv => NothingLeftBehind
    BY DEF IInv
  <1> QED
    BY <1>1, Invariance, PTL

\* The only steps that end the progress of an initialization nothing cancelled
\* are those that find no change left, after a complete build.
LEMMA EndOfProgress ==
    ASSUME IInv, [Next]_vars, progress' = "end", progress # "end", ~InitCancelled
    PROVE  /\ ready' = "resolved"
           /\ \A d \in Docs : linked'[d] # 0 /\ linked'[d] = parsed'[d]
           /\ \A d \in open : linked'[d] = text[d]
  <1> USE DEF IInv
  <1>1. queue = <<>> /\ open \in SUBSET Docs
    BY DEF InitCancelled, TypeOK
  <1>2. \/ Refresh /\ ready' = "resolved" /\ open \cup startupChanges = {}
        \/ RefreshLink /\ ready' = "resolved" /\ startupChanges = {}
    <2>1. ASSUME progress' = progress PROVE FALSE
      BY <2>1
    <2>2. ASSUME NEW d \in Docs, Open(d) \/ Edit(d) \/ FileChanges(d) \/ Save(d) PROVE FALSE
      BY <2>1, <2>2 DEF Open, Edit, DidChangeContent, FileChanges, Save, initVars
    <2>3. ASSUME LockStep PROVE FALSE
      BY <2>1, <2>3 DEF LockStep, RunWrite, WriteParse, WriteEnd, initVars
    <2>4. ASSUME UNCHANGED vars PROVE FALSE
      BY <2>1, <2>4 DEF vars, initVars
    <2>5. ASSUME Configure \/ Load \/ CheckAfterLoad \/ InitialBuild \/ RefreshParse PROVE FALSE
      BY <2>1, <2>5 DEF Configure, Load, CheckAfterLoad, InitialBuild, RefreshParse, Proceed
    <2>6. Refresh \/ RefreshLink
      BY <2>2, <2>3, <2>4, <2>5 DEF Next, Initialize
    <2>7. CASE Refresh
      BY <2>1, <2>7 DEF Refresh, Proceed, Succeed
    <2>8. CASE RefreshLink
      BY <2>1, <2>8 DEF RefreshLink, Proceed, Succeed
    <2> QED
      BY <2>6, <2>7, <2>8
  <1>3. CASE Refresh /\ ready' = "resolved" /\ open \cup startupChanges = {}
    <2>1. stage = "looping" /\ linked' = linked /\ parsed' = parsed
      BY <1>3 DEF Refresh
    <2> QED
      BY <1>1, <1>3, <2>1 DEF SettledInv, LoadedInv, IsLoaded
  <1>4. CASE RefreshLink /\ ready' = "resolved" /\ startupChanges = {}
    <2>1. stage = "linking" /\ linked' = parsed /\ parsed' = parsed
      BY <1>1, <1>4 DEF RefreshLink, Link, InitCancelled
    <2>2. stale = {}
      BY <1>1, <2>1 DEF SettledInv
    <2> QED
      BY <1>1, <1>4, <2>1, <2>2 DEF LoadedInv, OpenInv, IsLoaded
  <1> QED
    BY <1>2, <1>3, <1>4

\* Unless a write cancelled it, the initialization ends its progress with the
\* promise resolved, every tree linked and the open documents current.
THEOREM ReadyIsLinked == Spec => ReadyMeansLinked
  <1>1. IInv /\ [Next]_vars =>
            [progress' = "end" /\ progress # "end" /\ ~InitCancelled =>
                /\ ready' = "resolved"
                /\ \A d \in Docs : linked'[d] # 0 /\ linked'[d] = parsed'[d]
                /\ \A d \in open : linked'[d] = text[d]]_vars
    BY EndOfProgress
  <1> QED
    BY <1>1, Invariance, PTL DEF Spec, ReadyMeansLinked

\* When the workspace is ready and no write is left, every tree is linked from
\* the text its document has: whether a change came before, during or after the
\* initialization, from the editor or from the disk, it was not forgotten.
THEOREM QuietIsCurrent == Spec => []QuietMeansCurrent
  <1>1. IInv => QuietMeansCurrent
    <2> SUFFICES ASSUME IInv, ready = "resolved", queue = <<>>
                 PROVE  \A d \in Docs : linked[d] = text[d]
      BY DEF QuietMeansCurrent
    <2>1. stage = "done" /\ held = <<>> /\ startupChanges = {} /\ stale = {} /\ linked = parsed
      BY DEF IInv, StageInv, NothingLeftBehind, SettledInv, TypeOK
    <2>2. \A d \in Docs : parsed[d] = text[d]
      BY <2>1, NothingAwaited DEF IInv, KnownInv, IsLoaded, Awaited
    <2> QED
      BY <2>1, <2>2
  <1> QED
    BY <1>1, Invariance, PTL
=============================================================================

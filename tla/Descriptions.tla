---------------------------- MODULE Descriptions ----------------------------
(***************************************************************************)
(* The named remarks of a workspace on their way to a hover: the index of  *)
(* the server (src/language/express-p11-annotation-index.ts, with its      *)
(* requests in src/language/main.ts) and the client of the extension host  *)
(* with its cache (src/extension/annotation-client.ts, annotation-index.ts).*)
(*                                                                         *)
(* Texts are numbered; text n of a document has the remarks Remarks gives. *)
(* Notifications and requests reach the server in order and answers come   *)
(* back in order.  A change is applied by an update on the workspace lock, *)
(* which cancels a build under way between two documents or before its     *)
(* listeners; a request is answered at once, whatever the build does.      *)
(***************************************************************************)
EXTENDS Naturals, Sequences, SequencesExt

CONSTANTS
    Order,      \* the documents, in the order of LangiumDocuments.all
    Tags,       \* document -> the tags of its remarks, for one text after the other
    Bound,      \* document -> tag paths of the declarations the word at the cursor denotes
    Word,       \* the word at the cursor
    Variants,   \* the last parts that start with `__`
    Hovers,     \* queries, each asked at most once
    Opened,     \* bound: the documents the user opens
    Paths,      \* the tag paths of cross-references
    None,       \* no entry, no description
    Failed,     \* a request that threw
    MaxText,    \* bound: texts of a document
    MaxActs     \* bound: edits, openings, closings, deletions and failures

Docs == {Order[i] : i \in DOMAIN Order}

ASSUME DescriptionsAssumption ==
    /\ Order \in Seq(Docs)
    /\ \A d \in Docs : Tags[d] \in Seq(Seq(Seq(STRING))) /\ Tags[d] # <<>>
    /\ Opened \subseteq Docs
    /\ {MaxText, MaxActs} \subseteq Nat
    /\ None \notin Nat

Texts == 1..MaxText
Closed == [version |-> 0, text |-> 0]

VARIABLES
    editor,     \* document -> [version, text] of its TextDocument, Closed when it is not open
    last,       \* document -> its last text in the client or on disk
    cache,      \* document -> [version, remarks, calm] of the client, or None
    query,      \* hover -> its state
    shown,      \* what the last query came to, if it was calm and is still of these texts
    toServer,   \* notifications and requests
    toClient,   \* answers
    content,    \* document -> text of the server's text document, 0 for none
    writes,     \* updates that wait for the workspace lock
    state,      \* document -> "none", "changed", "parsed", "linked"
    parsed,     \* document -> text of its syntax tree, 0 for none
    index,      \* document -> text whose remarks are indexed, or None
    acts        \* edits, openings, closings, deletions and failures so far

client == <<editor, last, cache>>
server == <<content, writes, state, parsed, index>>
vars == <<client, query, shown, toServer, toClient, server, acts>>

-----------------------------------------------------------------------------
(* Remarks.                                                                *)

\* The remarks of a text, in its order.
Remarks(d, n) ==
    LET tags == Tags[d][(n % Len(Tags[d])) + 1]
    IN  [i \in DOMAIN tags |-> [tag |-> tags[i], doc |-> d, text |-> n]]

\* The tag is the path or one of its `__` variants.
TagMatchesPath(tag, path) ==
    \/ tag = path
    \/ IsStrictPrefix(path, tag) /\ tag[Len(path) + 1] \in Variants

\* Those of the remarks that are in a set, in their order.
Filtered(remarks, set) ==
    FlattenSeq([i \in DOMAIN remarks |-> IF remarks[i] \in set THEN <<remarks[i]>> ELSE <<>>])

ByPath(remarks, path) ==
    Filtered(remarks, {r \in Range(remarks) : TagMatchesPath(r.tag, path)})
ByEntityName(remarks, name) ==
    Filtered(remarks, {r \in Range(remarks) : Len(r.tag) >= 2 /\ r.tag[2] = name})

\* The matching remarks, said to live in the document of the first one.
FromHits(path, hits) ==
    IF ByPath(hits, path) = <<>> THEN None
    ELSE [path |-> path, remarks |-> ByPath(hits, path), source |-> ByPath(hits, path)[1].doc]

\* The description the remarks of the document itself give for a name.
Local(d, remarks, name) ==
    LET path == SubSeq(ByEntityName(remarks, name)[1].tag, 1, 2)
    IN  IF ByEntityName(remarks, name) = <<>> THEN None
        ELSE [path |-> path, remarks |-> ByPath(remarks, path), source |-> d]

\* What the remarks of the document itself say of the word or the path.
OfDocument(d, remarks, path) ==
    IF path = None THEN Local(d, remarks, Word)
    ELSE IF ByPath(remarks, path) = <<>> THEN None
    ELSE [path |-> path, remarks |-> ByPath(remarks, path), source |-> d]

\* The description of the first entity of that name among the remarks.
Anywhere(hits, name) ==
    IF ByEntityName(hits, name) = <<>> THEN None
    ELSE FromHits(SubSeq(ByEntityName(hits, name)[1].tag, 1, 2), hits)

-----------------------------------------------------------------------------
(* The server.                                                             *)

\* The indexed remarks of a document, indexed now if its parse was not seen.
IndexedText(d) ==
    IF index[d] # None THEN index[d]
    ELSE IF state[d] \in {"parsed", "linked"} THEN parsed[d]
    ELSE None

AnnotationsOf(d) == IF IndexedText(d) = None THEN <<>> ELSE Remarks(d, IndexedText(d))

EveryDocument ==
    FlattenSeq([i \in DOMAIN Order |-> IF state[Order[i]] = "none" THEN <<>> ELSE AnnotationsOf(Order[i])])

\* The tag path of the first declaration that has remarks, with them.
FirstRemarked(paths, remarks) ==
    LET found == SelectSeq(paths, LAMBDA p : ByPath(remarks, p) # <<>>)
    IN  IF found = <<>> THEN None ELSE FromHits(found[1], remarks)

\* What the word at the position denotes: in the tree of an older text, the
\* declaration of any word; before the tree is linked, perhaps nothing.
Denoted(d) ==
    CASE state[d] \in {"none", "changed"} -> {<<>>}
      [] parsed[d] # content[d] -> {<<>>} \cup {Bound[e] : e \in Docs}
      [] state[d] = "parsed" -> {<<>>, Bound[d]}
      [] OTHER -> {Bound[d]}

\* The answer to a request now, if the word at its position denotes paths.
AnswerFor(m, paths) ==
    CASE m.ask = "get" -> AnnotationsOf(m.doc)
      [] m.ask = "at" -> FirstRemarked(paths, EveryDocument)
      [] m.ask = "entity" -> ByEntityName(EveryDocument, Word)
      [] m.ask = "path" -> ByPath(EveryDocument, m.path)

\* What asking leaves indexed: a position that denotes nothing asks no document.
Asked(m, paths) ==
    CASE m.ask = "get" -> {m.doc}
      [] m.ask = "at" /\ paths = <<>> -> {}
      [] OTHER -> Docs

Act ==
    /\ acts < MaxActs
    /\ acts' = acts + 1

\* A request is answered, or fails while the server is not ready; an extension
\* without a client goes on as if every request failed.
Answer ==
    /\ toServer # <<>>
    /\ LET m == Head(toServer)
       IN  /\ m.kind = "request"
           /\ \/ /\ \E paths \in Denoted(m.doc) :
                       /\ toClient' = Append(toClient, [query |-> m.query, hits |-> AnswerFor(m, paths)])
                       /\ index' = [d \in Docs |->
                                       IF d \in Asked(m, paths) THEN IndexedText(d) ELSE index[d]]
                 /\ UNCHANGED acts
              \/ /\ Act
                 /\ toClient' = Append(toClient, [query |-> m.query, hits |-> Failed])
                 /\ UNCHANGED index
    /\ toServer' = Tail(toServer)
    /\ UNCHANGED <<client, query, shown, content, writes, state, parsed>>

\* A notification: the text of a change is known at once, its update waits.
Notified ==
    /\ toServer # <<>>
    /\ LET m == Head(toServer)
       IN  /\ m.kind \in {"change", "delete"}
           /\ content' = IF m.kind = "change" THEN [content EXCEPT ![m.doc] = m.text] ELSE content
           /\ writes' = Append(writes, m)
    /\ toServer' = Tail(toServer)
    /\ UNCHANGED <<client, query, shown, toClient, state, parsed, index, acts>>

\* Mutant: the index keeps the remarks of deleted documents.
KeepEntry(d) == index

\* The entry of a deleted document is dropped.
DropEntry(d) == [index EXCEPT ![d] = None]

\* An update runs on the lock, whatever a build had done: it resets the changed
\* document, or removes a deleted one, and starts the next build.
Update ==
    /\ writes # <<>>
    /\ LET m == Head(writes)
           d == m.doc
       IN  IF m.kind = "change"
           THEN /\ state' = [state EXCEPT ![d] = "changed"]
                /\ UNCHANGED <<parsed, index>>
           ELSE /\ state' = [state EXCEPT ![d] = "none"]
                /\ parsed' = [parsed EXCEPT ![d] = 0]
                /\ index' = DropEntry(d)
    /\ writes' = Tail(writes)
    /\ UNCHANGED <<client, query, shown, toServer, toClient, content, acts>>

\* The build parses the first changed document, with the text there is now.
Parse(d) ==
    /\ state[d] = "changed"
    /\ \E i \in DOMAIN Order : Order[i] = d /\ \A j \in 1..(i - 1) : state[Order[j]] # "changed"
    /\ state' = [state EXCEPT ![d] = "parsed"]
    /\ parsed' = [parsed EXCEPT ![d] = content[d]]
    /\ UNCHANGED <<client, query, shown, toServer, toClient, content, writes, index, acts>>

\* The phase is over: its listener indexes the documents that are parsed, in
\* this build or in one that was cancelled, and they go on to be linked.
EndParsing ==
    /\ \A d \in Docs : state[d] # "changed"
    /\ \E d \in Docs : state[d] = "parsed"
    /\ index' = [d \in Docs |-> IF state[d] = "parsed" THEN parsed[d] ELSE index[d]]
    /\ state' = [d \in Docs |-> IF state[d] = "parsed" THEN "linked" ELSE state[d]]
    /\ UNCHANGED <<client, query, shown, toServer, toClient, content, writes, parsed, acts>>

-----------------------------------------------------------------------------
(* The client.                                                             *)

IsOpen(d) == editor[d] # Closed
Change(d, n) == [kind |-> "change", doc |-> d, text |-> n]
Request(ask, h, d, path) == [kind |-> "request", ask |-> ask, query |-> h, doc |-> d, path |-> path]

\* Nothing is on its way to the server, and its build is over.
CaughtUp ==
    /\ writes = <<>>
    /\ \A i \in DOMAIN toServer : toServer[i].kind = "request"
    /\ \A d \in Docs : state[d] \in {"none", "linked"}

\* object is the TextDocument of a query whose document was closed.
\* calm: from the question on the server had caught up, no request failed, no
\* document changed and no entry was used that was cached otherwise.
Idle == [step |-> "idle", doc |-> None, path |-> None, object |-> None, calm |-> FALSE]

Init ==
    /\ editor = [d \in Docs |-> Closed]
    /\ last = [d \in Docs |-> 1]
    /\ cache = [d \in Docs |-> None]
    /\ query = [h \in Hovers |-> Idle]
    /\ shown = None
    /\ toServer = <<>>
    /\ toClient = <<>>
    /\ content = [d \in Docs |-> 1]
    /\ writes = <<>>
    /\ state = [d \in Docs |-> "changed"]
    /\ parsed = [d \in Docs |-> 0]
    /\ index = [d \in Docs |-> None]
    /\ acts = 0

UnderWay(h) == query[h].step \notin {"idle", "done"}

\* The queries under way after a change of some document.
Disturbed == [h \in Hovers |-> IF UnderWay(h) THEN [query[h] EXCEPT !.calm = FALSE] ELSE query[h]]

\* A document is opened, with the text it was closed with or one that was put
\* on the disk since; its versions start again.
Open(d, n) ==
    /\ Act
    /\ ~IsOpen(d)
    /\ n \in Texts
    /\ n \in {last[d], last[d] + 1}
    /\ editor' = [editor EXCEPT ![d] = [version |-> 1, text |-> n]]
    /\ last' = [last EXCEPT ![d] = n]
    /\ toServer' = Append(toServer, Change(d, n))
    /\ query' = Disturbed
    /\ shown' = None
    /\ UNCHANGED <<cache, toClient, server>>

Edit(d) ==
    /\ Act
    /\ IsOpen(d)
    /\ last[d] + 1 \in Texts
    /\ editor' = [editor EXCEPT ![d] = [version |-> @.version + 1, text |-> last[d] + 1]]
    /\ last' = [last EXCEPT ![d] = @ + 1]
    /\ toServer' = Append(toServer, Change(d, last[d] + 1))
    /\ query' = Disturbed
    /\ shown' = None
    /\ UNCHANGED <<cache, toClient, server>>

\* Mutant: the entry of a closed document stays.
KeepCached(d) == cache

\* invalidateAnnotationIndex
DropCached(d) == [cache EXCEPT ![d] = None]

\* A document is closed; its queries under way keep the object they hold.
Close(d) ==
    /\ Act
    /\ IsOpen(d)
    /\ editor' = [editor EXCEPT ![d] = Closed]
    /\ cache' = DropCached(d)
    /\ query' = [h \in Hovers |->
                    IF UnderWay(h) /\ query[h].doc = d /\ query[h].object = None
                    THEN [Disturbed[h] EXCEPT !.object = editor[d]] ELSE Disturbed[h]]
    /\ shown' = None
    /\ UNCHANGED <<last, toServer, toClient, server>>

\* The file of a closed document is deleted.
Delete(d) ==
    /\ Act
    /\ ~IsOpen(d)
    /\ state[d] # "none"
    /\ toServer' = Append(toServer, [kind |-> "delete", doc |-> d])
    /\ query' = Disturbed
    /\ shown' = None
    /\ UNCHANGED <<editor, last, cache, toClient, server>>

-----------------------------------------------------------------------------
(* Queries.                                                                *)

Object(q) == IF q.object = None THEN editor[q.doc] ELSE q.object

Finish(h, q, description) ==
    /\ query' = [query EXCEPT ![h] = [Idle EXCEPT !.step = "done"]]
    /\ shown' = IF q.calm THEN [doc |-> q.doc, path |-> q.path, description |-> description] ELSE None

\* The remarks of the document itself come first, then the server is asked for
\* those of any document.
Search(h, q, remarks) ==
    LET own == OfDocument(q.doc, remarks, q.path)
    IN  IF own # None
        THEN Finish(h, q, own) /\ UNCHANGED toServer
        ELSE /\ query' = [query EXCEPT ![h] = [q EXCEPT !.step = "remote"]]
             /\ UNCHANGED shown
             /\ toServer' = Append(toServer, Request(IF q.path = None THEN "entity" ELSE "path",
                                                     h, q.doc, q.path))

IsCached(q) == cache[q.doc] # None /\ cache[q.doc].version = Object(q).version

\* getAnnotationIndex: the cached remarks of this version, or a request.
AskIndex(h, q) ==
    IF IsCached(q)
    THEN Search(h, [q EXCEPT !.calm = @ /\ cache[q.doc].calm], cache[q.doc].remarks)
    ELSE /\ query' = [query EXCEPT ![h] = [q EXCEPT !.step = "get"]]
         /\ UNCHANGED shown
         /\ toServer' = Append(toServer, Request("get", h, q.doc, None))

\* resolveDescriptionAt, without a path, and resolveDescriptionByPath.
Ask(h, d, path) ==
    /\ query[h].step = "idle"
    /\ IsOpen(d)
    /\ LET q == [Idle EXCEPT !.doc = d, !.path = path, !.calm = CaughtUp]
       IN  IF path = None
           THEN /\ query' = [query EXCEPT ![h] = [q EXCEPT !.step = "at"]]
                /\ UNCHANGED shown
                /\ toServer' = Append(toServer, Request("at", h, d, None))
           ELSE AskIndex(h, q)
    /\ UNCHANGED <<client, toClient, server, acts>>

\* The query of the answer at the head of the queue, and the hits.
Answered(step) ==
    /\ toClient # <<>>
    /\ query[Head(toClient).query].step = step
    /\ toClient' = Tail(toClient)
    /\ UNCHANGED <<editor, last, server, acts>>

Hits == Head(toClient).hits
Asker == Head(toClient).query
Calmed == [query[Asker] EXCEPT !.calm = @ /\ Hits # Failed]

\* The remarks of the declaration, if the server found it and it has some.
AtAnswered ==
    /\ Answered("at")
    /\ IF Hits \in {None, Failed}
       THEN AskIndex(Asker, Calmed)
       ELSE Finish(Asker, Calmed, Hits) /\ UNCHANGED toServer
    /\ UNCHANGED cache

\* The remarks of the document: those of the server, or parsed here when it has
\* none or failed.  They are kept under the version the document has now.
IndexAnswered ==
    /\ Answered("get")
    /\ LET q == Calmed
           here == Hits = Failed \/ Hits = <<>>
           remarks == IF here THEN Remarks(q.doc, Object(q).text) ELSE Hits
       IN  /\ cache' = [cache EXCEPT ![q.doc] =
                          [version |-> Object(q).version, remarks |-> remarks,
                           calm |-> q.object = None /\ (here \/ q.calm)]]
           /\ Search(Asker, q, remarks)

\* The name or the path in any document; the last resort.
RemoteAnswered ==
    /\ Answered("remote")
    /\ Finish(Asker, Calmed, IF Hits = Failed THEN None
                             ELSE IF query[Asker].path = None THEN Anywhere(Hits, Word)
                             ELSE FromHits(query[Asker].path, Hits))
    /\ UNCHANGED <<cache, toServer>>

Next ==
    \/ \E d \in Opened, n \in Texts : Open(d, n)
    \/ \E d \in Opened : Edit(d) \/ Close(d)
    \/ \E d \in Docs : Delete(d) \/ Parse(d)
    \/ \E h \in Hovers, d \in Opened, path \in (Paths \cup {None}) : Ask(h, d, path)
    \/ Answer
    \/ Notified
    \/ Update
    \/ EndParsing
    \/ AtAnswered
    \/ IndexAnswered
    \/ RemoteAnswered

Spec == Init /\ [][Next]_vars

-----------------------------------------------------------------------------
(* Properties.                                                             *)

\* However updates cancel builds between the parse of a document and the
\* listeners of the phase, and whatever requests indexed in between: a server
\* that has caught up has the remarks of the current text of every document, and
\* none of a deleted one.
IndexFollowsTexts ==
    CaughtUp => \A d \in Docs :
        IF state[d] = "none" THEN index[d] = None
        ELSE parsed[d] = content[d] /\ index[d] = content[d]

\* What a word or a cross-reference describes, read off the current texts.
AllRemarks ==
    FlattenSeq([i \in DOMAIN Order |->
                  IF state[Order[i]] = "none" THEN <<>> ELSE Remarks(Order[i], last[Order[i]])])
Described(d, path) ==
    LET bound == IF path = None THEN FirstRemarked(Bound[d], AllRemarks) ELSE None
        own == OfDocument(d, Remarks(d, editor[d].text), path)
    IN  CASE bound # None -> bound
          [] bound = None /\ own # None -> own
          [] OTHER -> IF path = None THEN Anywhere(AllRemarks, Word) ELSE FromHits(path, AllRemarks)

\* A calm query, asked of a server that had caught up and not disturbed, shows
\* what the current texts say, from whatever cache, request or other query it
\* took the remarks; a document that is closed and opened again has no remarks
\* of its former self.
CalmQueriesAreRight ==
    shown # None => shown.description = Described(shown.doc, shown.path)
=============================================================================

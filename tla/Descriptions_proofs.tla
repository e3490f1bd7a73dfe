------------------------- MODULE Descriptions_proofs -------------------------
(***************************************************************************)
(* What the index of the server and the client's cache of it guarantee for *)
(* any set of documents, any texts and any number of edits, openings,      *)
(* deletions, queries and cancelled builds.                                *)
(***************************************************************************)
EXTENDS Descriptions, DataLemmas, TLAPS

-----------------------------------------------------------------------------
(* The index of the server.                                                *)

Updates == [kind : {"change"}, doc : Docs, text : Nat] \cup [kind : {"delete"}, doc : Docs]

\* What goes to the server is a request or makes an update.
ChannelInv ==
    /\ \E M : toServer \in Seq(M)
    /\ \A m \in Elems(toServer) : m.kind = "request" \/ m \in Updates
    /\ writes \in Seq(Updates)

ServerTypes ==
    /\ content \in [Docs -> Nat]
    /\ last \in [Docs -> Nat]
    /\ state \in [Docs -> {"none", "changed", "parsed", "linked"}]
    /\ parsed \in [Docs -> Nat]
    /\ index \in [Docs -> Nat \cup {None}]

\* A change of d is still to be applied.
Waits(d) == \E m \in Elems(writes) : m.kind = "change" /\ m.doc = d

\* A tree is of the current text or a change waits; a linked document has the
\* remarks of its tree in the index, a deleted one none.
IndexInv ==
    \A d \in Docs :
        /\ state[d] \in {"parsed", "linked"} => parsed[d] = content[d] \/ Waits(d)
        /\ state[d] = "linked" => index[d] = parsed[d]
        /\ state[d] = "none" => index[d] = None

ServerInv == ChannelInv /\ ServerTypes /\ IndexInv

\* At the end of a channel joins a message.
LEMMA ChannelAppend ==
    ASSUME NEW q, \E M : q \in Seq(M), NEW m
    PROVE  (\E M : Append(q, m) \in Seq(M)) /\ Elems(Append(q, m)) = Elems(q) \cup {m}
  <1>1. PICK M : q \in Seq(M)
    OBVIOUS
  <1> DEFINE N == M \cup {m}
  <1>2. q \in Seq(N) /\ m \in N
    BY <1>1
  <1> HIDE DEF N
  <1> QED
    BY <1>2, ElemsOfAppend

LEMMA ChannelTail ==
    ASSUME NEW q, \E M : q \in Seq(M), q # <<>>
    PROVE  /\ \E M : Tail(q) \in Seq(M)
           /\ Elems(Tail(q)) \subseteq Elems(q) /\ Head(q) \in Elems(q)
           /\ Elems(q) = Elems(Tail(q)) \cup {Head(q)}
  <1>1. PICK M : q \in Seq(M)
    OBVIOUS
  <1> QED
    BY <1>1, ElemsOfTail

LEMMA InitServer == Init => ServerInv
  <1> SUFFICES ASSUME Init PROVE ServerInv
    OBVIOUS
  <1>1. toServer \in Seq({}) /\ Elems(toServer) = {} /\ writes \in Seq(Updates)
    BY ElemsTyped DEF Init
  <1>2. ChannelInv
    BY <1>1 DEF ChannelInv
  <1>3. ServerTypes /\ IndexInv
    BY DEF Init, ServerTypes, IndexInv
  <1> QED
    BY <1>2, <1>3 DEF ServerInv

\* A step of the client puts at most a request or an update on the channel.
LEMMA ClientServer ==
    ASSUME ServerInv, UNCHANGED server, last' \in [Docs -> Nat],
           \/ UNCHANGED toServer
           \/ \E m : toServer' = Append(toServer, m) /\ (m.kind = "request" \/ m \in Updates)
    PROVE  ServerInv'
  <1>1. ChannelInv'
    <2>1. CASE UNCHANGED toServer
      BY <2>1 DEF ServerInv, ChannelInv, server
    <2>2. ASSUME NEW m, toServer' = Append(toServer, m), m.kind = "request" \/ m \in Updates
          PROVE  ChannelInv'
      <3>1. (\E M : toServer' \in Seq(M)) /\ Elems(toServer') = Elems(toServer) \cup {m}
        BY <2>2, ChannelAppend DEF ServerInv, ChannelInv
      <3>2. \A n \in Elems(toServer') : n.kind = "request" \/ n \in Updates
        BY <2>2, <3>1 DEF ServerInv, ChannelInv
      <3> QED
        BY <3>1, <3>2 DEF ServerInv, ChannelInv, server
    <2> QED
      BY <2>1, <2>2
  <1>2. ServerTypes' /\ IndexInv'
    BY DEF ServerInv, ServerTypes, IndexInv, Waits, server
  <1> QED
    BY <1>1, <1>2 DEF ServerInv

LEMMA OpenServer ==
    ASSUME ServerInv, NEW d \in Opened, NEW n \in Texts, Open(d, n) PROVE ServerInv'
  <1>1. d \in Docs /\ n \in Nat
    BY DescriptionsAssumption DEF Texts
  <1>2. Change(d, n) \in Updates
    BY <1>1 DEF Change, Updates
  <1> QED
    BY <1>1, <1>2, ClientServer DEF Open, ServerInv, ServerTypes

LEMMA EditServer == ASSUME ServerInv, NEW d \in Opened, Edit(d) PROVE ServerInv'
  <1>1. d \in Docs
    BY DescriptionsAssumption
  <1>2. Change(d, last[d] + 1) \in Updates /\ last' \in [Docs -> Nat]
    BY <1>1 DEF Change, Updates, Edit, ServerInv, ServerTypes
  <1> QED
    BY <1>1, <1>2, ClientServer DEF Edit

LEMMA CloseServer == ASSUME ServerInv, NEW d \in Opened, Close(d) PROVE ServerInv'
  BY ClientServer DEF Close, ServerInv, ServerTypes

LEMMA DeleteServer == ASSUME ServerInv, NEW d \in Docs, Delete(d) PROVE ServerInv'
  <1>1. [kind |-> "delete", doc |-> d] \in Updates
    BY DEF Updates
  <1> QED
    BY <1>1, ClientServer DEF Delete, ServerInv, ServerTypes

Asks ==
    \/ UNCHANGED toServer
    \/ \E m : toServer' = Append(toServer, m) /\ m.kind = "request"

\* A search and the question for an index send a request or nothing.
LEMMA SearchSends ==
    ASSUME NEW h, NEW q, NEW remarks, Search(h, q, remarks)
    PROVE  Asks
  BY DEF Search, Request, Asks

LEMMA AskIndexSends ==
    ASSUME NEW h, NEW q, AskIndex(h, q)
    PROVE  Asks
  <1>1. CASE IsCached(q)
    BY <1>1, SearchSends DEF AskIndex
  <1>2. CASE ~IsCached(q)
    BY <1>2 DEF AskIndex, Request, Asks
  <1> QED
    BY <1>1, <1>2

\* A query asks, or takes an answer, and leaves the texts and the server alone.
LEMMA QueryAsks ==
    ASSUME \/ \E h \in Hovers, d \in Opened, path \in (Paths \cup {None}) : Ask(h, d, path)
           \/ AtAnswered \/ IndexAnswered \/ RemoteAnswered
    PROVE  UNCHANGED <<editor, last, server>> /\ Asks
  <1>1. UNCHANGED <<editor, last, server>>
    BY DEF Ask, AtAnswered, IndexAnswered, RemoteAnswered, Answered, client
  <1>2. ASSUME NEW h \in Hovers, NEW d \in Opened, NEW path \in (Paths \cup {None}),
               Ask(h, d, path)
        PROVE  Asks
    <2> DEFINE q == [Idle EXCEPT !.doc = d, !.path = path, !.calm = CaughtUp]
    <2>1. AskIndex(h, q) \/ toServer' = Append(toServer, Request("at", h, d, None))
      BY <1>2 DEF Ask
    <2>2. Request("at", h, d, None).kind = "request"
      BY DEF Request
    <2> HIDE DEF q
    <2> QED
      BY <2>1, <2>2, AskIndexSends DEF Asks
  <1>3. ASSUME AtAnswered PROVE Asks
    <2>1. AskIndex(Asker, Calmed) \/ UNCHANGED toServer
      BY <1>3 DEF AtAnswered
    <2> QED
      BY <2>1, AskIndexSends DEF Asks
  <1>4. ASSUME IndexAnswered PROVE Asks
    BY <1>4, SearchSends DEF IndexAnswered
  <1>5. ASSUME RemoteAnswered PROVE Asks
    BY <1>5 DEF RemoteAnswered, Asks
  <1> QED
    BY <1>1, <1>2, <1>3, <1>4, <1>5

LEMMA QueryServer ==
    ASSUME ServerInv,
           \/ \E h \in Hovers, d \in Opened, path \in (Paths \cup {None}) : Ask(h, d, path)
           \/ AtAnswered \/ IndexAnswered \/ RemoteAnswered
    PROVE  ServerInv'
  <1>1. UNCHANGED <<editor, last, server>> /\ Asks
    BY QueryAsks
  <1> QED
    BY <1>1, ClientServer DEF ServerInv, ServerTypes, Asks

-----------------------------------------------------------------------------
(* The steps of the server.                                                *)

\* A request indexes at most what the listener of the phase would.
LEMMA AnswerServer == ASSUME ServerInv, Answer PROVE ServerInv'
  <1> USE DEF ServerInv
  <1>1. /\ toServer # <<>> /\ toServer' = Tail(toServer)
        /\ UNCHANGED <<last, content, writes, state, parsed>>
        /\ \/ UNCHANGED index
           \/ \E S : index' = [d \in Docs |-> IF d \in S THEN IndexedText(d) ELSE index[d]]
    BY DEF Answer, client
  <1>2. ChannelInv'
    BY <1>1, ChannelTail DEF ChannelInv
  <1>3. ASSUME NEW S, index' = [d \in Docs |-> IF d \in S THEN IndexedText(d) ELSE index[d]]
        PROVE  ServerTypes' /\ IndexInv'
    <2>1. \A d \in Docs : /\ IndexedText(d) \in Nat \cup {None}
                          /\ state[d] = "linked" => IndexedText(d) = parsed[d]
                          /\ state[d] = "none" => IndexedText(d) = None
      BY DescriptionsAssumption DEF IndexedText, ServerTypes, IndexInv
    <2> QED
      BY <1>1, <1>3, <2>1 DEF ServerTypes, IndexInv, Waits
  <1>4. ASSUME UNCHANGED index PROVE ServerTypes' /\ IndexInv'
    BY <1>1, <1>4 DEF ServerTypes, IndexInv, Waits
  <1> QED
    BY <1>1, <1>2, <1>3, <1>4

LEMMA NotifiedServer == ASSUME ServerInv, Notified PROVE ServerInv'
  <1> USE DEF ServerInv
  <1> DEFINE m == Head(toServer)
  <1>1. /\ toServer # <<>> /\ toServer' = Tail(toServer) /\ m.kind \in {"change", "delete"}
        /\ content' = IF m.kind = "change" THEN [content EXCEPT ![m.doc] = m.text] ELSE content
        /\ writes' = Append(writes, m)
        /\ UNCHANGED <<last, state, parsed, index>>
    BY DEF Notified, client
  <1>2. m \in Elems(toServer)
    BY <1>1, ChannelTail DEF ChannelInv
  <1>3. m \in Updates
    BY <1>1, <1>2 DEF ChannelInv
  <1>4. writes' \in Seq(Updates) /\ Elems(writes') = Elems(writes) \cup {m}
    BY <1>1, <1>3, ElemsOfAppend DEF ChannelInv
  <1>5. ChannelInv'
    BY <1>1, <1>4, ChannelTail DEF ChannelInv
  <1>6. m.kind = "change" => m.doc \in Docs /\ m.text \in Nat
    BY <1>3 DEF Updates
  <1> HIDE DEF m
  <1>7. ServerTypes'
    BY <1>1, <1>6 DEF ServerTypes
  <1>8. \A d \in Docs : content'[d] = content[d] \/ (m.kind = "change" /\ m.doc = d)
    BY <1>1, <1>6 DEF ServerTypes
  <1>9. IndexInv'
    BY <1>1, <1>4, <1>8 DEF IndexInv, Waits
  <1> QED
    BY <1>5, <1>7, <1>9

LEMMA UpdateServer == ASSUME ServerInv, Update PROVE ServerInv'
  <1> USE DEF ServerInv
  <1> DEFINE m == Head(writes)
  <1>1. /\ writes # <<>> /\ writes' = Tail(writes)
        /\ IF m.kind = "change"
           THEN state' = [state EXCEPT ![m.doc] = "changed"] /\ UNCHANGED <<parsed, index>>
           ELSE /\ state' = [state EXCEPT ![m.doc] = "none"]
                /\ parsed' = [parsed EXCEPT ![m.doc] = 0]
                /\ index' = [index EXCEPT ![m.doc] = None]
        /\ UNCHANGED <<last, toServer, content>>
    BY DEF Update, DropEntry, client
  <1>2. /\ m \in Updates /\ writes' \in Seq(Updates)
        /\ Elems(writes) = Elems(writes') \cup {m}
    BY <1>1, ElemsOfTail DEF ChannelInv
  <1>3. ChannelInv'
    BY <1>1, <1>2 DEF ChannelInv
  <1>4. m.doc \in Docs
    BY <1>2 DEF Updates
  <1> HIDE DEF m
  <1>5. ServerTypes'
    <2>1. CASE m.kind = "change"
      BY <1>1, <1>4, <2>1 DEF ServerTypes
    <2>2. CASE m.kind # "change"
      <3>1. parsed' \in [Docs -> Nat] /\ index' \in [Docs -> Nat \cup {None}]
        <4>1. /\ parsed' = [parsed EXCEPT ![m.doc] = 0]
              /\ index' = [index EXCEPT ![m.doc] = None]
          BY <1>1, <2>2
        <4>2. parsed \in [Docs -> Nat] /\ index \in [Docs -> Nat \cup {None}]
          BY DEF ServerTypes
        <4> QED
          BY ONLY <4>1, <4>2
      <3>2. state' \in [Docs -> {"none", "changed", "parsed", "linked"}]
        BY <1>1, <1>4, <2>2 DEF ServerTypes
      <3> QED
        BY <1>1, <3>1, <3>2 DEF ServerTypes
    <2> QED
      BY <2>1, <2>2
  <1>6. \A d \in Docs : d # m.doc => (Waits(d) => Waits(d)')
    BY <1>2 DEF Waits
  <1>7. IndexInv'
    <2>1. CASE m.kind = "change"
      BY <1>1, <1>4, <1>6, <2>1 DEF IndexInv, ServerTypes
    <2>2. CASE m.kind # "change"
      BY <1>1, <1>4, <1>6, <2>2 DEF IndexInv, ServerTypes
    <2> QED
      BY <2>1, <2>2
  <1> QED
    BY <1>3, <1>5, <1>7

LEMMA ParseServer == ASSUME ServerInv, NEW d \in Docs, Parse(d) PROVE ServerInv'
  <1> USE DEF ServerInv
  <1>1. /\ state' = [state EXCEPT ![d] = "parsed"]
        /\ parsed' = [parsed EXCEPT ![d] = content[d]]
        /\ UNCHANGED <<last, toServer, content, writes, index>>
    BY DEF Parse, client
  <1>2. ChannelInv' /\ ServerTypes'
    BY <1>1 DEF ChannelInv, ServerTypes
  <1>3. IndexInv'
    BY <1>1 DEF IndexInv, Waits, ServerTypes
  <1> QED
    BY <1>2, <1>3

LEMMA EndParsingServer == ASSUME ServerInv, EndParsing PROVE ServerInv'
  <1> USE DEF ServerInv
  <1>1. /\ index' = [d \in Docs |-> IF state[d] = "parsed" THEN parsed[d] ELSE index[d]]
        /\ state' = [d \in Docs |-> IF state[d] = "parsed" THEN "linked" ELSE state[d]]
        /\ UNCHANGED <<last, toServer, content, writes, parsed>>
    BY DEF EndParsing, client
  <1>2. ChannelInv' /\ ServerTypes'
    BY <1>1 DEF ChannelInv, ServerTypes
  <1>3. IndexInv'
    BY <1>1 DEF IndexInv, Waits, ServerTypes
  <1> QED
    BY <1>2, <1>3

LEMMA NextServer == ServerInv /\ [Next]_vars => ServerInv'
  <1> SUFFICES ASSUME ServerInv, [Next]_vars PROVE ServerInv'
    OBVIOUS
  <1>1. CASE UNCHANGED vars
    BY <1>1, ClientServer DEF vars, client, ServerInv, ServerTypes
  <1>2. CASE \E d \in Docs : Delete(d) \/ Parse(d)
    BY <1>2, DeleteServer, ParseServer
  <1>3. CASE \/ \E d \in Opened, n \in Texts : Open(d, n)
             \/ \E d \in Opened : Edit(d) \/ Close(d)
    BY <1>3, OpenServer, EditServer, CloseServer
  <1>4. CASE Answer \/ Notified \/ Update \/ EndParsing
    BY <1>4, AnswerServer, NotifiedServer, UpdateServer, EndParsingServer
  <1>5. CASE \/ \E h \in Hovers, d \in Opened, path \in (Paths \cup {None}) : Ask(h, d, path)
             \/ AtAnswered \/ IndexAnswered \/ RemoteAnswered
    BY <1>5, QueryServer
  <1> QED
    BY <1>1, <1>2, <1>3, <1>4, <1>5 DEF Next

LEMMA ServerInvariance == Spec => []ServerInv
  BY InitServer, NextServer, PTL DEF Spec

LEMMA CaughtUpIsIndexed == ServerInv => IndexFollowsTexts
  <1> SUFFICES ASSUME ServerInv, CaughtUp, NEW d \in Docs
               PROVE  IF state[d] = "none" THEN index[d] = None
                      ELSE parsed[d] = content[d] /\ index[d] = content[d]
    BY DEF IndexFollowsTexts
  <1>1. ~Waits(d)
    BY ElemsTyped DEF CaughtUp, Waits
  <1> QED
    BY <1>1 DEF CaughtUp, ServerInv, IndexInv

\* However updates cut builds short and whatever requests had indexed before
\* the listeners of a phase were told: a server that has caught up has the
\* remarks of the current text of every document and none of a deleted one.
THEOREM IndexIsCurrent == Spec => []IndexFollowsTexts
  BY ServerInvariance, CaughtUpIsIndexed, PTL

-----------------------------------------------------------------------------
(* Remarks that are in a set.                                              *)

\* The filter of the handlers is the one of sequences in general.
LEMMA FilteredIsSifted == \A q, S : Filtered(q, S) = Sifted(q, S)
  BY DEF Filtered, Sifted, Kept

AnyRemark == [tag : Seq(STRING), doc : Docs, text : Nat]

LEMMA RemarksTyped ==
    ASSUME NEW d \in Docs, NEW n \in Nat
    PROVE  Remarks(d, n) \in Seq(AnyRemark)
  <1> SUFFICES ASSUME NEW ts, ts = Tags[d], NEW k, k = (n % Len(ts)) + 1
               PROVE  Remarks(d, n) \in Seq(AnyRemark)
    OBVIOUS
  <1>1. ts \in Seq(Seq(Seq(STRING))) /\ ts # <<>>
    BY DescriptionsAssumption
  <1>2. k \in 1..Len(ts)
    <2>1. Len(ts) \in Nat \ {0}
      BY <1>1, EmptySeq
    <2>2. \A L \in Nat \ {0} : (n % L) + 1 \in 1..L
      OBVIOUS
    <2>3. (n % Len(ts)) + 1 \in 1..Len(ts)
      BY ONLY <2>1, <2>2
    <2> QED
      BY <2>3
  <1> SUFFICES ASSUME NEW tags, tags = ts[k] PROVE Remarks(d, n) \in Seq(AnyRemark)
    OBVIOUS
  <1>3. tags \in Seq(Seq(STRING))
    BY <1>1, <1>2
  <1>4. DOMAIN tags = 1..Len(tags) /\ Len(tags) \in Nat /\ \A i \in 1..Len(tags) : tags[i] \in Seq(STRING)
    BY <1>3
  <1>5. Remarks(d, n) = [i \in 1..Len(tags) |-> [tag |-> tags[i], doc |-> d, text |-> n]]
    BY <1>4 DEF Remarks
  <1>6. Remarks(d, n) \in [1..Len(tags) -> AnyRemark]
    BY <1>4, <1>5 DEF AnyRemark
  <1> QED
    BY ONLY <1>4, <1>6, IsASeq

\* The remarks of every document, put together from what each contributes.
LEMMA FlattenTyped ==
    ASSUME NEW M, NEW qs \in Seq(Seq(M)) PROVE FlattenSeq(qs) \in Seq(M)
  <1>1. <<>> \in Seq(M)
    OBVIOUS
  <1> QED
    BY <1>1, FlattenAppend

LEMMA AllRemarksTyped ==
    ASSUME last \in [Docs -> Nat] PROVE AllRemarks \in Seq(AnyRemark)
  <1> DEFINE qs == [i \in DOMAIN Order |-> IF state[Order[i]] = "none" THEN <<>>
                                           ELSE Remarks(Order[i], last[Order[i]])]
  <1>1. DOMAIN Order = 1..Len(Order) /\ Len(Order) \in Nat /\ \A i \in DOMAIN Order : Order[i] \in Docs
    BY DescriptionsAssumption
  <1>2. \A i \in DOMAIN Order : qs[i] \in Seq(AnyRemark)
    <2>1. <<>> \in Seq(AnyRemark)
      OBVIOUS
    <2>2. \A i \in DOMAIN Order : Remarks(Order[i], last[Order[i]]) \in Seq(AnyRemark)
      BY <1>1, RemarksTyped
    <2> QED
      BY <2>1, <2>2
  <1>3. qs \in [1..Len(Order) -> Seq(AnyRemark)]
    BY <1>1, <1>2
  <1>4. qs \in Seq(Seq(AnyRemark))
    <2> HIDE DEF qs
    <2> QED
      BY ONLY <1>1, <1>3, IsASeq
  <1>5. AllRemarks = FlattenSeq(qs)
    BY DEF AllRemarks
  <1> HIDE DEF qs
  <1> QED
    BY <1>4, <1>5, FlattenTyped

Matching(q, path) == {r \in Range(q) : TagMatchesPath(r.tag, path)}
Named(q, name) == {r \in Range(q) : Len(r.tag) >= 2 /\ r.tag[2] = name}

\* Matching remarks match, and those of an entity are of that entity.
LEMMA ByPathTwice ==
    ASSUME NEW M, NEW q \in Seq(M), NEW path
    PROVE  ByPath(q, path) \in Seq(M) /\ ByPath(ByPath(q, path), path) = ByPath(q, path)
  <1> SUFFICES ASSUME NEW e, e = Filtered(q, Matching(q, path))
               PROVE  e \in Seq(M) /\ Filtered(e, Matching(e, path)) = e
    BY DEF ByPath, Matching
  <1>1. e \in Seq(M) /\ Elems(e) = Elems(q) \cap Matching(q, path)
    BY FilteredIsSifted, ElemsOfSifted
  <1>2. Range(q) = Elems(q) /\ Range(e) = Elems(e)
    BY <1>1, RangeIsElems
  <1>3. Matching(q, path) \cap Matching(e, path) = Matching(q, path)
    BY <1>1, <1>2 DEF Matching
  <1>4. Filtered(e, Matching(e, path)) = Filtered(q, Matching(q, path) \cap Matching(e, path))
    BY FilteredIsSifted, SiftedTwice
  <1> QED
    BY <1>1, <1>3, <1>4

LEMMA ByEntityNameTwice ==
    ASSUME NEW M, NEW q \in Seq(M), NEW name
    PROVE  /\ ByEntityName(q, name) \in Seq(M)
           /\ ByEntityName(ByEntityName(q, name), name) = ByEntityName(q, name)
           /\ Elems(ByEntityName(q, name)) = Named(q, name) /\ Named(q, name) \subseteq Elems(q)
  <1> SUFFICES ASSUME NEW e, e = Filtered(q, Named(q, name))
               PROVE  /\ e \in Seq(M) /\ Filtered(e, Named(e, name)) = e
                      /\ Elems(e) = Named(q, name) /\ Named(q, name) \subseteq Elems(q)
    BY DEF ByEntityName, Named
  <1>1. e \in Seq(M) /\ Elems(e) = Elems(q) \cap Named(q, name)
    BY FilteredIsSifted, ElemsOfSifted
  <1>2. Range(q) = Elems(q) /\ Range(e) = Elems(e)
    BY <1>1, RangeIsElems
  <1>3. Named(q, name) \cap Named(e, name) = Named(q, name) /\ Named(q, name) \subseteq Elems(q)
    BY <1>1, <1>2 DEF Named
  <1>4. Filtered(e, Named(e, name)) = Filtered(q, Named(q, name) \cap Named(e, name))
    BY FilteredIsSifted, SiftedTwice
  <1> QED
    BY <1>1, <1>3, <1>4

\* A tag that matches the path of an entity names the entity.
LEMMA MatchesNames ==
    ASSUME NEW tag \in Seq(STRING), NEW first \in Seq(STRING), Len(first) >= 2,
           TagMatchesPath(tag, SubSeq(first, 1, 2))
    PROVE  Len(tag) >= 2 /\ tag[2] = first[2]
  <1> SUFFICES ASSUME NEW path, path = SubSeq(first, 1, 2), TagMatchesPath(tag, path)
               PROVE  Len(tag) >= 2 /\ tag[2] = first[2]
    OBVIOUS
  <1>1. path \in Seq(STRING) /\ Len(path) = 2 /\ path[2] = first[2]
    <2>1. \A i \in 1..2 : first[i] \in STRING
      OBVIOUS
    <2>2. /\ path \in Seq(STRING) /\ Len(path) = IF 1 <= 2 THEN 2 - 1 + 1 ELSE 0
          /\ \A i \in 1..(2 - 1 + 1) : path[i] = first[1 + i - 1]
      BY <2>1, SubSeqProperties
    <2> QED
      BY <2>2
  <1>2. CASE tag = path
    BY <1>1, <1>2
  <1>3. CASE IsStrictPrefix(path, tag)
    <2>1. Len(path) <= Len(tag) /\ path = SubSeq(tag, 1, Len(path))
      BY <1>3 DEF IsStrictPrefix, IsPrefix
    <2>2. Len(tag) >= 2 /\ path = SubSeq(tag, 1, 2)
      BY <1>1, <2>1
    <2>3. \A i \in 1..2 : tag[i] \in STRING
      BY <2>2
    <2>4. \A i \in 1..(2 - 1 + 1) : SubSeq(tag, 1, 2)[i] = tag[1 + i - 1]
      BY <2>3, SubSeqProperties
    <2>5. path[2] = tag[2]
      BY <2>2, <2>4
    <2> QED
      BY <1>1, <2>2, <2>5
  <1> QED
    BY <1>2, <1>3 DEF TagMatchesPath

\* The description of an entity is found among the remarks of that name.
LEMMA AnywhereOfNamed ==
    ASSUME NEW q \in Seq(AnyRemark), NEW name
    PROVE  Anywhere(ByEntityName(q, name), name) = Anywhere(q, name)
  <1> SUFFICES ASSUME NEW e, e = ByEntityName(q, name), e # <<>>
               PROVE  FromHits(SubSeq(e[1].tag, 1, 2), e) = FromHits(SubSeq(e[1].tag, 1, 2), q)
    BY ByEntityNameTwice DEF Anywhere
  <1>1. e \in Seq(AnyRemark) /\ Elems(e) = Named(q, name) /\ Named(q, name) \subseteq Elems(q)
    BY ByEntityNameTwice
  <1>2. e[1] \in Elems(e)
    <2>1. 1 \in 1..Len(e)
      BY <1>1, EmptySeq
    <2> QED
      BY <2>1 DEF Elems
  <1> SUFFICES ASSUME NEW first, first = e[1].tag, NEW path, path = SubSeq(first, 1, 2)
               PROVE  FromHits(path, e) = FromHits(path, q)
    OBVIOUS
  <1>3. \A r \in Elems(q) : r.tag \in Seq(STRING)
    <2>1. Elems(q) \subseteq AnyRemark
      BY ElemsTyped
    <2> QED
      BY <2>1 DEF AnyRemark
  <1>4. first \in Seq(STRING) /\ Len(first) >= 2 /\ first[2] = name
    BY <1>1, <1>2, <1>3 DEF Named
  <1>5. \A r \in Elems(q) : TagMatchesPath(r.tag, path) => r \in Elems(e)
    <2> SUFFICES ASSUME NEW r \in Elems(q), TagMatchesPath(r.tag, path) PROVE r \in Elems(e)
      OBVIOUS
    <2>1. Len(r.tag) >= 2 /\ r.tag[2] = name
      BY <1>3, <1>4, MatchesNames
    <2> QED
      BY <1>1, <2>1, RangeIsElems DEF Named
  <1>6. ByPath(e, path) = ByPath(q, path)
    <2>1. Range(q) = Elems(q) /\ Range(e) = Elems(e)
      BY <1>1, RangeIsElems
    <2>2. \A r : r \in Matching(q, path) <=> r \in Named(q, name) \cap Matching(e, path)
      BY <1>1, <1>5, <2>1 DEF Matching
    <2>3. Filtered(Filtered(q, Named(q, name)), Matching(e, path))
            = Filtered(q, Named(q, name) \cap Matching(e, path))
      BY FilteredIsSifted, SiftedTwice
    <2>4. Named(q, name) \cap Matching(e, path) = Matching(q, path)
      BY <2>2
    <2>5. e = Filtered(q, Named(q, name))
      BY DEF ByEntityName, Named
    <2> QED
      BY <2>3, <2>4, <2>5 DEF ByPath, Matching
  <1> QED
    BY <1>6 DEF FromHits

LEMMA FromHitsOfMatching ==
    ASSUME NEW q \in Seq(AnyRemark), NEW path
    PROVE  FromHits(path, ByPath(q, path)) = FromHits(path, q)
  BY ByPathTwice DEF FromHits

-----------------------------------------------------------------------------
(* The texts of the client and the updates on their way.                   *)

\* Changes and deletions of a document; the changes to another text than n.
ChangesOf(d) == {m \in Updates : m.kind = "change" /\ m.doc = d}
DeletionsOf(d) == {m \in Updates : m.kind = "delete" /\ m.doc = d}
OtherTexts(d, n) == {m \in ChangesOf(d) : m.text # n}

\* Whatever is in S is followed by something in G.
Followed(q, S, G) == \A i \in 1..Len(q) : q[i] \in S => \E j \in 1..Len(q) : j > i /\ q[j] \in G
Holds(q, G) == \E m \in Elems(q) : m \in G

\* The last change on its way is to the last text.
LastInv ==
    \A d \in Docs :
        /\ Followed(toServer, OtherTexts(d, last[d]), ChangesOf(d))
        /\ content[d] = last[d] \/ Holds(toServer, ChangesOf(d))

\* A document that is open is there once its changes are applied.
OpenInv ==
    \A d \in Docs : IsOpen(d) =>
        /\ editor[d].version > 0 /\ editor[d].text = last[d]
        /\ Followed(toServer, DeletionsOf(d), ChangesOf(d))
        /\ Followed(writes, DeletionsOf(d), ChangesOf(d)) \/ Holds(toServer, ChangesOf(d))
        /\ state[d] # "none" \/ Holds(writes, ChangesOf(d)) \/ Holds(toServer, ChangesOf(d))

TextDocuments == [version : Nat, text : Nat]
TextInv == editor \in [Docs -> TextDocuments] /\ LastInv /\ OpenInv

\* What joins a queue follows all that was there.
LEMMA FollowedAppend ==
    ASSUME NEW q, \E M : q \in Seq(M), NEW m, NEW S, NEW G, m \notin S
    PROVE  /\ Holds(Append(q, m), G) <=> Holds(q, G) \/ m \in G
           /\ Followed(q, S, G) \/ m \in G => Followed(Append(q, m), S, G)
  <1>1. PICK M : q \in Seq(M) /\ m \in M
    <2>1. PICK L : q \in Seq(L)
      OBVIOUS
    <2> DEFINE N == L \cup {m}
    <2>2. q \in Seq(N) /\ m \in N
      BY <2>1
    <2> HIDE DEF N
    <2> QED
      BY <2>2
  <1> SUFFICES ASSUME NEW r, r = Append(q, m), NEW n, n = Len(q)
               PROVE  /\ Holds(r, G) <=> Holds(q, G) \/ m \in G
                      /\ Followed(q, S, G) \/ m \in G => Followed(r, S, G)
    OBVIOUS
  <1>2. n \in Nat /\ Len(r) = n + 1 /\ (\A i \in 1..n : r[i] = q[i]) /\ r[n + 1] = m
    BY <1>1
  <1>3. Holds(r, G) <=> Holds(q, G) \/ m \in G
    BY <1>1, ElemsOfAppend DEF Holds
  <1>4. ASSUME Followed(q, S, G) \/ m \in G, NEW i \in 1..(n + 1), r[i] \in S
        PROVE  \E j \in 1..(n + 1) : j > i /\ r[j] \in G
    <2>1. i \in 1..n /\ q[i] \in S
      BY <1>2, <1>4
    <2>2. CASE m \in G
      <3>1. n + 1 \in 1..(n + 1) /\ n + 1 > i
        BY <1>2, <2>1
      <3> QED
        BY <1>2, <2>2, <3>1
    <2>3. CASE Followed(q, S, G)
      <3>1. PICK j \in 1..n : j > i /\ q[j] \in G
        BY <2>1, <2>3 DEF Followed
      <3>2. j \in 1..(n + 1) /\ r[j] = q[j]
        BY <1>2
      <3> QED
        BY <3>1, <3>2
    <2> QED
      BY <1>4, <2>2, <2>3
  <1> QED
    BY <1>2, <1>3, <1>4 DEF Followed

\* What follows the head is in the tail.
LEMMA FollowedTail ==
    ASSUME NEW q, \E M : q \in Seq(M), q # <<>>, NEW S, NEW G
    PROVE  /\ Holds(q, G) <=> Holds(Tail(q), G) \/ Head(q) \in G
           /\ Followed(q, S, G) => /\ Followed(Tail(q), S, G)
                                   /\ Head(q) \in S => Holds(Tail(q), G)
  <1>1. PICK M : q \in Seq(M)
    OBVIOUS
  <1> SUFFICES ASSUME NEW r, r = Tail(q), NEW n, n = Len(r), NEW h, h = Head(q)
               PROVE  /\ Holds(q, G) <=> Holds(r, G) \/ h \in G
                      /\ Followed(q, S, G) => Followed(r, S, G) /\ (h \in S => Holds(r, G))
    OBVIOUS
  <1>2. n \in Nat /\ Len(q) = n + 1 /\ (\A i \in 1..n : r[i] = q[i + 1]) /\ h = q[1]
    BY <1>1, EmptySeq, HeadTailProperties
  <1>3. Holds(q, G) <=> Holds(r, G) \/ h \in G
    BY <1>1, ElemsOfTail DEF Holds
  <1>4. ASSUME Followed(q, S, G), NEW i \in 1..(n + 1), q[i] \in S
        PROVE  \E j \in 1..n : j + 1 > i /\ r[j] \in G
    <2>1. PICK k \in 1..(n + 1) : k > i /\ q[k] \in G
      BY <1>2, <1>4 DEF Followed
    <2>2. k - 1 \in 1..n /\ (k - 1) + 1 = k
      BY <1>2, <2>1
    <2> QED
      BY <1>2, <2>1, <2>2
  <1>5. ASSUME Followed(q, S, G), NEW i \in 1..n, r[i] \in S
        PROVE  \E j \in 1..n : j > i /\ r[j] \in G
    <2>1. i + 1 \in 1..(n + 1) /\ q[i + 1] \in S
      BY <1>2, <1>5
    <2>2. PICK j \in 1..n : j + 1 > i + 1 /\ r[j] \in G
      BY <1>4, <1>5, <2>1
    <2>3. j > i
      BY <1>2, <2>2
    <2> QED
      BY <2>2, <2>3
  <1>6. ASSUME Followed(q, S, G), h \in S PROVE Holds(r, G)
    <2>1. 1 \in 1..(n + 1) /\ q[1] \in S
      BY <1>2, <1>6
    <2>2. PICK j \in 1..n : r[j] \in G
      BY <1>4, <1>6, <2>1
    <2> QED
      BY <2>2 DEF Holds, Elems
  <1> QED
    BY <1>3, <1>5, <1>6 DEF Followed

LEMMA FollowedNone == ASSUME NEW S, NEW G PROVE Followed(<<>>, S, G) /\ ~Holds(<<>>, G)
  BY DEF Followed, Holds, Elems

LEMMA InitText == Init => TextInv
  <1> SUFFICES ASSUME Init PROVE TextInv
    OBVIOUS
  <1>1. editor \in [Docs -> TextDocuments] /\ \A d \in Docs : ~IsOpen(d) /\ content[d] = last[d]
    BY DEF Init, Closed, TextDocuments, IsOpen
  <1>2. toServer = <<>>
    BY DEF Init
  <1> QED
    BY <1>1, <1>2, FollowedNone DEF TextInv, LastInv, OpenInv

\* A step that leaves the texts alone and adds or takes at most a request.
LEMMA RequestText ==
    ASSUME ServerInv, TextInv, UNCHANGED <<editor, last, content, writes>>,
           \A d \in Docs : state[d] # "none" => state'[d] # "none",
           \/ Asks
           \/ toServer # <<>> /\ toServer' = Tail(toServer) /\ Head(toServer).kind = "request"
    PROVE  TextInv'
  <1>1. \A m : m.kind = "request" => m \notin Updates
    BY DEF Updates
  <1>2. ASSUME NEW d \in Docs, NEW S \in SUBSET Updates
        PROVE  /\ Holds(toServer, S) <=> Holds(toServer', S)
               /\ \A T \in SUBSET Updates : Followed(toServer, T, S) => Followed(toServer', T, S)
    <2>1. \E M : toServer \in Seq(M)
      BY DEF ServerInv, ChannelInv
    <2>2. CASE UNCHANGED toServer
      BY <2>2
    <2>3. ASSUME NEW m, toServer' = Append(toServer, m), m.kind = "request"
          PROVE  /\ Holds(toServer, S) <=> Holds(toServer', S)
                 /\ \A T \in SUBSET Updates : Followed(toServer, T, S) => Followed(toServer', T, S)
      <3>1. m \notin Updates
        BY <1>1, <2>3
      <3> QED
        BY <2>1, <2>3, <3>1, FollowedAppend
    <2>4. CASE toServer # <<>> /\ toServer' = Tail(toServer) /\ Head(toServer).kind = "request"
      <3>1. Head(toServer) \notin Updates
        BY <1>1, <2>4
      <3> QED
        BY <2>1, <2>4, <3>1, FollowedTail
    <2> QED
      BY <2>2, <2>3, <2>4 DEF Asks
  <1>3. \A d \in Docs : /\ ChangesOf(d) \in SUBSET Updates /\ DeletionsOf(d) \in SUBSET Updates
                        /\ OtherTexts(d, last[d]) \in SUBSET Updates
    BY DEF ChangesOf, DeletionsOf, OtherTexts
  <1>4. LastInv'
    <2> SUFFICES ASSUME NEW d \in Docs
                 PROVE  /\ Followed(toServer', OtherTexts(d, last[d]), ChangesOf(d))
                        /\ content[d] = last[d] \/ Holds(toServer', ChangesOf(d))
      BY DEF LastInv
    <2> QED
      BY <1>2, <1>3 DEF TextInv, LastInv
  <1>5. OpenInv'
    <2> SUFFICES ASSUME NEW d \in Docs, IsOpen(d)
                 PROVE  /\ editor[d].version > 0 /\ editor[d].text = last[d]
                        /\ Followed(toServer', DeletionsOf(d), ChangesOf(d))
                        /\ Followed(writes, DeletionsOf(d), ChangesOf(d)) \/ Holds(toServer', ChangesOf(d))
                        /\ state'[d] # "none" \/ Holds(writes, ChangesOf(d)) \/ Holds(toServer', ChangesOf(d))
      BY DEF OpenInv, IsOpen
    <2> QED
      BY <1>2, <1>3 DEF TextInv, OpenInv
  <1> QED
    BY <1>4, <1>5 DEF TextInv

\* What the client tells the server of d, and only of d.
LEMMA ToldText ==
    ASSUME ServerInv, TextInv, NEW d \in Docs, NEW m \in Updates, m.doc = d,
           toServer' = Append(toServer, m), UNCHANGED <<content, writes, state>>,
           editor' \in [Docs -> TextDocuments],
           \A e \in Docs \ {d} : editor'[e] = editor[e] /\ last'[e] = last[e],
           \/ /\ m.kind = "change" /\ m.text = last'[d]
              /\ editor'[d].version > 0 /\ editor'[d].text = last'[d]
           \/ m.kind = "delete" /\ last'[d] = last[d] /\ editor'[d] = Closed
    PROVE  TextInv'
  <1>1. \E M : toServer \in Seq(M)
    BY DEF ServerInv, ChannelInv
  <1>2. \A e \in Docs : m \notin OtherTexts(e, last'[e]) /\ (e # d => m \notin DeletionsOf(e))
    BY DEF OtherTexts, ChangesOf, DeletionsOf
  <1>3. m.kind = "change" => m \in ChangesOf(d) /\ m \notin DeletionsOf(d)
    BY DEF ChangesOf, DeletionsOf
  <1>4. ASSUME NEW e \in Docs
        PROVE  /\ Holds(toServer, ChangesOf(e)) => Holds(toServer', ChangesOf(e))
               /\ Followed(toServer, OtherTexts(e, last'[e]), ChangesOf(e))
                    => Followed(toServer', OtherTexts(e, last'[e]), ChangesOf(e))
               /\ e # d /\ Followed(toServer, DeletionsOf(e), ChangesOf(e))
                    => Followed(toServer', DeletionsOf(e), ChangesOf(e))
    BY <1>1, <1>2, FollowedAppend
  <1>5. m.kind = "change" =>
          /\ Holds(toServer', ChangesOf(d))
          /\ Followed(toServer', OtherTexts(d, last'[d]), ChangesOf(d))
          /\ Followed(toServer', DeletionsOf(d), ChangesOf(d))
    BY <1>1, <1>2, <1>3, FollowedAppend
  <1>6. LastInv'
    <2> SUFFICES ASSUME NEW e \in Docs
                 PROVE  /\ Followed(toServer', OtherTexts(e, last'[e]), ChangesOf(e))
                        /\ content[e] = last'[e] \/ Holds(toServer', ChangesOf(e))
      BY DEF LastInv
    <2>1. CASE e = d /\ m.kind = "change"
      BY <1>5, <2>1
    <2>2. CASE ~(e = d /\ m.kind = "change")
      BY <1>4, <2>2 DEF TextInv, LastInv
    <2> QED
      BY <2>1, <2>2
  <1>7. OpenInv'
    <2> SUFFICES ASSUME NEW e \in Docs, editor'[e] # Closed
                 PROVE  /\ editor'[e].version > 0 /\ editor'[e].text = last'[e]
                        /\ Followed(toServer', DeletionsOf(e), ChangesOf(e))
                        /\ Followed(writes, DeletionsOf(e), ChangesOf(e)) \/ Holds(toServer', ChangesOf(e))
                        /\ state[e] # "none" \/ Holds(writes, ChangesOf(e)) \/ Holds(toServer', ChangesOf(e))
      BY DEF OpenInv, IsOpen
    <2>1. CASE e = d
      BY <1>5, <2>1
    <2>2. CASE e # d
      BY <1>4, <2>2 DEF TextInv, OpenInv, IsOpen
    <2> QED
      BY <2>1, <2>2
  <1> QED
    BY <1>6, <1>7 DEF TextInv

LEMMA OpenText ==
    ASSUME ServerInv, TextInv, NEW d \in Opened, NEW n \in Texts, Open(d, n) PROVE TextInv'
  <1>1. d \in Docs /\ n \in Nat
    BY DescriptionsAssumption DEF Texts
  <1>2. /\ editor' = [editor EXCEPT ![d] = [version |-> 1, text |-> n]]
        /\ last' = [last EXCEPT ![d] = n]
        /\ toServer' = Append(toServer, Change(d, n))
        /\ UNCHANGED <<content, writes, state>>
    BY DEF Open, server
  <1>3. /\ editor' \in [Docs -> TextDocuments] /\ editor'[d] = [version |-> 1, text |-> n] /\ last'[d] = n
        /\ \A e \in Docs \ {d} : editor'[e] = editor[e] /\ last'[e] = last[e]
    BY <1>1, <1>2 DEF TextInv, TextDocuments, ServerInv, ServerTypes
  <1>4. Change(d, n) \in Updates /\ Change(d, n).doc = d /\ Change(d, n).kind = "change" /\ Change(d, n).text = n
    BY <1>1 DEF Change, Updates
  <1> QED
    BY <1>1, <1>2, <1>3, <1>4, ToldText

LEMMA EditText == ASSUME ServerInv, TextInv, NEW d \in Opened, Edit(d) PROVE TextInv'
  <1>1. d \in Docs
    BY DescriptionsAssumption
  <1> SUFFICES ASSUME NEW n, n = last[d] + 1 PROVE TextInv'
    OBVIOUS
  <1>2. /\ editor' = [editor EXCEPT ![d] = [version |-> editor[d].version + 1, text |-> n]]
        /\ last' = [last EXCEPT ![d] = n]
        /\ toServer' = Append(toServer, Change(d, n))
        /\ UNCHANGED <<content, writes, state>>
    BY <1>1 DEF Edit, server, ServerInv, ServerTypes, TextInv
  <1>3. n \in Nat /\ editor[d].version \in Nat
    BY <1>1 DEF ServerInv, ServerTypes, TextInv, TextDocuments
  <1>4. /\ editor' \in [Docs -> TextDocuments]
        /\ editor'[d].version > 0 /\ editor'[d].text = n /\ last'[d] = n
        /\ \A e \in Docs \ {d} : editor'[e] = editor[e] /\ last'[e] = last[e]
    BY <1>1, <1>2, <1>3 DEF TextInv, TextDocuments, ServerInv, ServerTypes
  <1>5. Change(d, n) \in Updates /\ Change(d, n).doc = d /\ Change(d, n).kind = "change" /\ Change(d, n).text = n
    BY <1>1, <1>3 DEF Change, Updates
  <1> QED
    BY <1>1, <1>2, <1>4, <1>5, ToldText

LEMMA CloseText == ASSUME TextInv, NEW d \in Opened, Close(d) PROVE TextInv'
  <1>1. d \in Docs
    BY DescriptionsAssumption
  <1>2. editor' = [editor EXCEPT ![d] = Closed] /\ UNCHANGED <<last, toServer, content, writes, state>>
    BY DEF Close, server
  <1>3. /\ editor' \in [Docs -> TextDocuments] /\ editor'[d] = Closed
        /\ \A e \in Docs \ {d} : editor'[e] = editor[e]
    BY <1>1, <1>2 DEF TextInv, TextDocuments, Closed
  <1>4. OpenInv'
    BY <1>1, <1>2, <1>3 DEF TextInv, OpenInv, IsOpen
  <1>5. LastInv'
    BY <1>2 DEF TextInv, LastInv
  <1> QED
    BY <1>3, <1>4, <1>5 DEF TextInv

LEMMA DeleteText == ASSUME ServerInv, TextInv, NEW d \in Docs, Delete(d) PROVE TextInv'
  <1> SUFFICES ASSUME NEW m, m = [kind |-> "delete", doc |-> d] PROVE TextInv'
    OBVIOUS
  <1>1. m \in Updates /\ m.doc = d /\ m.kind = "delete"
    BY DEF Updates
  <1>2. toServer' = Append(toServer, m) /\ UNCHANGED <<editor, last, content, writes, state>> /\ editor[d] = Closed
    BY DEF Delete, server, IsOpen
  <1> QED
    BY <1>1, <1>2, ToldText DEF TextInv

LEMMA NotifiedText == ASSUME ServerInv, TextInv, Notified PROVE TextInv'
  <1> SUFFICES ASSUME NEW m, m = Head(toServer) PROVE TextInv'
    OBVIOUS
  <1>1. /\ toServer # <<>> /\ toServer' = Tail(toServer) /\ m.kind \in {"change", "delete"}
        /\ content' = IF m.kind = "change" THEN [content EXCEPT ![m.doc] = m.text] ELSE content
        /\ writes' = Append(writes, m)
        /\ UNCHANGED <<editor, last, state>>
    BY DEF Notified, client
  <1>2. (\E M : toServer \in Seq(M)) /\ (\E M : writes \in Seq(M))
    BY DEF ServerInv, ChannelInv
  <1>3. m \in Updates
    BY <1>1, <1>2, ChannelTail DEF ServerInv, ChannelInv
  <1>4. \A d \in Docs : content'[d] = IF m.kind = "change" /\ m.doc = d THEN m.text ELSE content[d]
    BY <1>1, <1>3 DEF Updates, ServerInv, ServerTypes
  <1>5. ASSUME NEW d \in Docs
        PROVE  /\ m \in ChangesOf(d) <=> m.kind = "change" /\ m.doc = d
               /\ m \in OtherTexts(d, last[d]) <=> m.kind = "change" /\ m.doc = d /\ m.text # last[d]
               /\ m \notin ChangesOf(d) \/ m \notin DeletionsOf(d)
    BY <1>3 DEF ChangesOf, OtherTexts, DeletionsOf
  <1>6. ASSUME NEW d \in Docs
        PROVE  /\ Holds(toServer, ChangesOf(d)) <=> Holds(toServer', ChangesOf(d)) \/ m \in ChangesOf(d)
               /\ \A S : Followed(toServer, S, ChangesOf(d)) =>
                           /\ Followed(toServer', S, ChangesOf(d))
                           /\ m \in S => Holds(toServer', ChangesOf(d))
    BY <1>1, <1>2, FollowedTail
  <1>7. LastInv'
    <2> SUFFICES ASSUME NEW d \in Docs
                 PROVE  /\ Followed(toServer', OtherTexts(d, last[d]), ChangesOf(d))
                        /\ content'[d] = last[d] \/ Holds(toServer', ChangesOf(d))
      BY <1>1 DEF LastInv
    <2> QED
      BY <1>4, <1>5, <1>6 DEF TextInv, LastInv
  <1>8. OpenInv'
    <2> SUFFICES ASSUME NEW d \in Docs, IsOpen(d)
                 PROVE  /\ editor[d].version > 0 /\ editor[d].text = last[d]
                        /\ Followed(toServer', DeletionsOf(d), ChangesOf(d))
                        /\ Followed(writes', DeletionsOf(d), ChangesOf(d)) \/ Holds(toServer', ChangesOf(d))
                        /\ state[d] # "none" \/ Holds(writes', ChangesOf(d)) \/ Holds(toServer', ChangesOf(d))
      BY <1>1 DEF OpenInv, IsOpen
    <2>1. Holds(writes', ChangesOf(d)) <=> Holds(writes, ChangesOf(d)) \/ m \in ChangesOf(d)
      <3>1. m \notin {}
        OBVIOUS
      <3> QED
        BY <1>1, <1>2, <3>1, FollowedAppend, ZenonT(40)
    <2>2. m \notin DeletionsOf(d) /\ (Followed(writes, DeletionsOf(d), ChangesOf(d)) \/ m \in ChangesOf(d))
            => Followed(writes', DeletionsOf(d), ChangesOf(d))
      BY <1>1, <1>2, FollowedAppend
    <2> QED
      BY <1>5, <1>6, <2>1, <2>2 DEF TextInv, OpenInv
  <1> QED
    BY <1>1, <1>7, <1>8 DEF TextInv

LEMMA UpdateText == ASSUME ServerInv, TextInv, Update PROVE TextInv'
  <1> SUFFICES ASSUME NEW m, m = Head(writes) PROVE TextInv'
    OBVIOUS
  <1>1. /\ writes # <<>> /\ writes' = Tail(writes)
        /\ state' = [state EXCEPT ![m.doc] = IF m.kind = "change" THEN "changed" ELSE "none"]
        /\ UNCHANGED <<editor, last, toServer, content>>
    BY DEF Update, client
  <1>2. (\E M : writes \in Seq(M)) /\ m \in Updates
    BY <1>1, ElemsOfTail DEF ServerInv, ChannelInv
  <1>3. ASSUME NEW d \in Docs
        PROVE  /\ state'[d] = IF m.doc = d THEN IF m.kind = "change" THEN "changed" ELSE "none" ELSE state[d]
               /\ m \in ChangesOf(d) <=> m.kind = "change" /\ m.doc = d
               /\ m \in DeletionsOf(d) <=> m.kind # "change" /\ m.doc = d
    <2>1. m.kind \in {"change", "delete"}
      BY <1>2 DEF Updates
    <2> QED
      BY <1>1, <1>2, <2>1 DEF ChangesOf, DeletionsOf, ServerInv, ServerTypes
  <1>4. OpenInv'
    <2> SUFFICES ASSUME NEW d \in Docs, IsOpen(d)
                 PROVE  /\ editor[d].version > 0 /\ editor[d].text = last[d]
                        /\ Followed(toServer, DeletionsOf(d), ChangesOf(d))
                        /\ Followed(writes', DeletionsOf(d), ChangesOf(d)) \/ Holds(toServer, ChangesOf(d))
                        /\ state'[d] # "none" \/ Holds(writes', ChangesOf(d)) \/ Holds(toServer, ChangesOf(d))
      BY <1>1 DEF OpenInv, IsOpen
    <2>1. /\ Holds(writes, ChangesOf(d)) <=> Holds(writes', ChangesOf(d)) \/ m \in ChangesOf(d)
          /\ Followed(writes, DeletionsOf(d), ChangesOf(d)) =>
               /\ Followed(writes', DeletionsOf(d), ChangesOf(d))
               /\ m \in DeletionsOf(d) => Holds(writes', ChangesOf(d))
      BY <1>1, <1>2, FollowedTail
    <2> QED
      BY <1>3, <2>1 DEF TextInv, OpenInv
  <1>5. LastInv'
    BY <1>1 DEF TextInv, LastInv
  <1> QED
    BY <1>1, <1>4, <1>5 DEF TextInv

LEMMA NextText == ServerInv /\ TextInv /\ [Next]_vars => TextInv'
  <1> SUFFICES ASSUME ServerInv, TextInv, [Next]_vars PROVE TextInv'
    OBVIOUS
  <1>1. CASE UNCHANGED vars
    BY <1>1, RequestText DEF vars, client, server, Asks
  <1>2. CASE \E d \in Docs : Delete(d) \/ Parse(d)
    <2>1. ASSUME NEW d \in Docs, Parse(d) PROVE TextInv'
      <3>1. /\ UNCHANGED <<editor, last, toServer, content, writes>>
            /\ state' = [state EXCEPT ![d] = "parsed"]
        BY <2>1 DEF Parse, client
      <3>2. \A e \in Docs : state[e] # "none" => state'[e] # "none"
        BY <3>1 DEF ServerInv, ServerTypes
      <3> QED
        BY <3>1, <3>2, RequestText DEF Asks
    <2> QED
      BY <1>2, <2>1, DeleteText
  <1>3. CASE \/ \E d \in Opened, n \in Texts : Open(d, n)
             \/ \E d \in Opened : Edit(d) \/ Close(d)
    BY <1>3, OpenText, EditText, CloseText
  <1>4. CASE Answer
    BY <1>4, RequestText DEF Answer, client
  <1>5. CASE EndParsing
    BY <1>5, RequestText DEF EndParsing, client, Asks
  <1>6. CASE Notified \/ Update
    BY <1>6, NotifiedText, UpdateText
  <1>7. CASE \/ \E h \in Hovers, d \in Opened, path \in (Paths \cup {None}) : Ask(h, d, path)
             \/ AtAnswered \/ IndexAnswered \/ RemoteAnswered
    <2>1. UNCHANGED <<editor, last, server>> /\ Asks
      BY <1>7, QueryAsks
    <2> QED
      BY <2>1, RequestText DEF server
  <1> QED
    BY <1>1, <1>2, <1>3, <1>4, <1>5, <1>6, <1>7 DEF Next

-----------------------------------------------------------------------------
(* What a query, the messages of it and the cache say.                     *)

Steps == {"idle", "at", "get", "remote", "done"}
Queries == [step : Steps, doc : Docs \cup {None}, path : Paths \cup {None},
            object : TextDocuments \cup {None}, calm : BOOLEAN]
QueryTypes ==
    /\ query \in [Hovers -> Queries]
    /\ cache = [d \in Docs |-> cache[d]]
    /\ \A h \in Hovers : UnderWay(h) => query[h].doc \in Docs

Calm(h) == UnderWay(h) /\ query[h].calm

\* While a query is calm, and while its result is shown, nothing happens.
StillInv == (shown # None \/ \E h \in Hovers : Calm(h)) => CaughtUp

\* What a calm query has excluded so far.
CalmOf(h) ==
    Calm(h) =>
        LET q == query[h]
        IN  /\ q.object = None /\ IsOpen(q.doc)
            /\ q.step = "at" => q.path = None
            /\ q.step # "at" /\ q.path = None => FirstRemarked(Bound[q.doc], AllRemarks) = None
            /\ q.step = "remote" => OfDocument(q.doc, Remarks(q.doc, last[q.doc]), q.path) = None

\* A query under way has one message, the request or the answer of its step.
RequestOf(h) ==
    LET q == query[h]
    IN  IF q.step \in {"at", "get"} THEN Request(q.step, h, q.doc, None)
        ELSE Request(IF q.path = None THEN "entity" ELSE "path", h, q.doc, q.path)
AnswerTo(q) ==
    IF q.step = "at" THEN FirstRemarked(Bound[q.doc], AllRemarks)
    ELSE IF q.step = "get" THEN Remarks(q.doc, last[q.doc])
    ELSE IF q.path = None THEN ByEntityName(AllRemarks, Word)
    ELSE ByPath(AllRemarks, q.path)

Once(q, S) == \A i, j \in 1..Len(q) : q[i] \in S /\ q[j] \in S => i = j
RequestsIn(q, h) == {m \in Elems(q) : m.kind = "request" /\ m.query = h}
AnswersIn(q, h) == {m \in Elems(q) : m.query = h}
MessageOf(h) ==
    /\ \A m \in RequestsIn(toServer, h) : UnderWay(h) /\ m = RequestOf(h)
    /\ \A m \in AnswersIn(toClient, h) :
           UnderWay(h) /\ (Calm(h) => m.hits \in {Failed, AnswerTo(query[h])})
    /\ Once(toServer, RequestsIn(toServer, h)) /\ Once(toClient, AnswersIn(toClient, h))
    /\ RequestsIn(toServer, h) = {} \/ AnswersIn(toClient, h) = {}
MessageTypes ==
    /\ \E M : toClient \in Seq(M)
    /\ \A m \in Elems(toServer) : m.kind = "request" => m.query \in Hovers
    /\ \A m \in Elems(toClient) : m.query \in Hovers

\* An entry cached from the current texts and labelled with the version the
\* document has, holds the remarks of its text.
CacheInv ==
    \A d \in Docs : cache[d] # None /\ cache[d].calm =>
        /\ cache[d].version \in Nat /\ cache[d].version <= editor[d].version
        /\ cache[d].version = editor[d].version => cache[d].remarks = Remarks(d, editor[d].text)

QueryInv ==
    /\ QueryTypes
    /\ StillInv
    /\ \A h \in Hovers : CalmOf(h) /\ MessageOf(h)
    /\ MessageTypes
    /\ CacheInv
    /\ CalmQueriesAreRight

\* A queue that has one message of a kind at most, and one more or less.
LEMMA OnceAppend ==
    ASSUME NEW q, \E M : q \in Seq(M), NEW m, NEW S, Once(q, S), m \notin S \/ Elems(q) \cap S = {}
    PROVE  Once(Append(q, m), S)
  <1>1. PICK M : q \in Seq(M) /\ m \in M
    <2>1. PICK L : q \in Seq(L)
      OBVIOUS
    <2> DEFINE N == L \cup {m}
    <2>2. q \in Seq(N) /\ m \in N
      BY <2>1
    <2> HIDE DEF N
    <2> QED
      BY <2>2
  <1> SUFFICES ASSUME NEW r, r = Append(q, m), NEW n, n = Len(q) PROVE Once(r, S)
    OBVIOUS
  <1>2. n \in Nat /\ Len(r) = n + 1 /\ (\A i \in 1..n : r[i] = q[i]) /\ r[n + 1] = m
    BY <1>1
  <1> SUFFICES ASSUME NEW i \in 1..(n + 1), NEW j \in 1..(n + 1), r[i] \in S, r[j] \in S, i # j
               PROVE  FALSE
    BY <1>2 DEF Once
  <1>3. CASE i \in 1..n /\ j \in 1..n
    BY <1>2, <1>3 DEF Once
  <1>4. CASE i \in 1..n /\ j = n + 1
    BY <1>2, <1>4 DEF Elems
  <1>5. CASE i = n + 1 /\ j \in 1..n
    BY <1>2, <1>5 DEF Elems
  <1> QED
    BY <1>2, <1>3, <1>4, <1>5

LEMMA OnceTail ==
    ASSUME NEW q, \E M : q \in Seq(M), q # <<>>, NEW S, Once(q, S)
    PROVE  Once(Tail(q), S) /\ (Head(q) \in S => Elems(Tail(q)) \cap S = {})
  <1>1. PICK M : q \in Seq(M)
    OBVIOUS
  <1> SUFFICES ASSUME NEW r, r = Tail(q), NEW n, n = Len(r), NEW h, h = Head(q)
               PROVE  Once(r, S) /\ (h \in S => Elems(r) \cap S = {})
    OBVIOUS
  <1>2. n \in Nat /\ Len(q) = n + 1 /\ (\A i \in 1..n : r[i] = q[i + 1]) /\ h = q[1]
    BY <1>1, EmptySeq, HeadTailProperties
  <1>3. ASSUME NEW i \in 1..n, NEW j \in 1..n, r[i] \in S, r[j] \in S PROVE i = j
    <2>1. i + 1 \in 1..(n + 1) /\ j + 1 \in 1..(n + 1) /\ q[i + 1] \in S /\ q[j + 1] \in S
      BY <1>2, <1>3
    <2>2. i + 1 = j + 1
      BY <1>2, <2>1 DEF Once
    <2> QED
      BY <1>2, <2>2
  <1>4. ASSUME h \in S, NEW i \in 1..n, r[i] \in S PROVE FALSE
    <2>1. i + 1 \in 1..(n + 1) /\ 1 \in 1..(n + 1) /\ q[i + 1] \in S /\ q[1] \in S
      BY <1>2, <1>4
    <2>2. i + 1 = 1
      BY <1>2, <2>1 DEF Once
    <2> QED
      BY <1>2, <2>2
  <1> QED
    BY <1>2, <1>3, <1>4 DEF Once, Elems

LEMMA OnceOf ==
    ASSUME NEW q, NEW S, NEW T, Once(q, S), T \cap Elems(q) \subseteq S
    PROVE  Once(q, T)
  BY DEF Once, Elems

\* What a message more or less makes of the requests of a query.
LEMMA RequestsAppend ==
    ASSUME NEW q, \E M : q \in Seq(M), NEW m, NEW h, Once(q, RequestsIn(q, h))
    PROVE  /\ ~(m.kind = "request" /\ m.query = h) =>
                /\ RequestsIn(Append(q, m), h) = RequestsIn(q, h)
                /\ Once(Append(q, m), RequestsIn(Append(q, m), h))
           /\ m.kind = "request" /\ m.query = h /\ RequestsIn(q, h) = {} =>
                /\ RequestsIn(Append(q, m), h) = {m}
                /\ Once(Append(q, m), RequestsIn(Append(q, m), h))
  <1>1. Elems(Append(q, m)) = Elems(q) \cup {m}
    BY ChannelAppend
  <1>2. ASSUME ~(m.kind = "request" /\ m.query = h)
        PROVE  /\ RequestsIn(Append(q, m), h) = RequestsIn(q, h)
               /\ Once(Append(q, m), RequestsIn(q, h))
    <2>1. RequestsIn(Append(q, m), h) = RequestsIn(q, h) /\ m \notin RequestsIn(q, h)
      BY <1>1, <1>2 DEF RequestsIn
    <2> QED
      BY <2>1, OnceAppend
  <1>3. ASSUME m.kind = "request" /\ m.query = h /\ RequestsIn(q, h) = {}
        PROVE  RequestsIn(Append(q, m), h) = {m} /\ Once(Append(q, m), {m})
    <2>1. RequestsIn(Append(q, m), h) = {m} /\ Elems(q) \cap {m} = {}
      BY <1>1, <1>3 DEF RequestsIn
    <2>2. Once(q, {m})
      BY <2>1, OnceOf
    <2> QED
      BY <2>1, <2>2, OnceAppend
  <1> QED
    BY <1>2, <1>3

LEMMA RequestsTail ==
    ASSUME NEW q, \E M : q \in Seq(M), q # <<>>, NEW h, Once(q, RequestsIn(q, h))
    PROVE  /\ Once(Tail(q), RequestsIn(Tail(q), h))
           /\ IF Head(q).kind = "request" /\ Head(q).query = h
              THEN Head(q) \in RequestsIn(q, h) /\ RequestsIn(Tail(q), h) = {}
              ELSE RequestsIn(Tail(q), h) = RequestsIn(q, h)
  <1>1. Elems(q) = Elems(Tail(q)) \cup {Head(q)}
    BY ChannelTail
  <1>2. Once(Tail(q), RequestsIn(q, h))
        /\ (Head(q) \in RequestsIn(q, h) => Elems(Tail(q)) \cap RequestsIn(q, h) = {})
    BY OnceTail
  <1>3. Once(Tail(q), RequestsIn(Tail(q), h))
    <2>1. RequestsIn(Tail(q), h) \cap Elems(Tail(q)) \subseteq RequestsIn(q, h)
      BY <1>1 DEF RequestsIn
    <2> QED
      BY <1>2, <2>1, OnceOf
  <1> QED
    BY <1>1, <1>2, <1>3 DEF RequestsIn

LEMMA AnswersAppend ==
    ASSUME NEW q, \E M : q \in Seq(M), NEW m, NEW h, Once(q, AnswersIn(q, h))
    PROVE  /\ m.query # h =>
                /\ AnswersIn(Append(q, m), h) = AnswersIn(q, h)
                /\ Once(Append(q, m), AnswersIn(Append(q, m), h))
           /\ m.query = h /\ AnswersIn(q, h) = {} =>
                /\ AnswersIn(Append(q, m), h) = {m}
                /\ Once(Append(q, m), AnswersIn(Append(q, m), h))
  <1>1. Elems(Append(q, m)) = Elems(q) \cup {m}
    BY ChannelAppend
  <1>2. ASSUME m.query # h
        PROVE  AnswersIn(Append(q, m), h) = AnswersIn(q, h) /\ Once(Append(q, m), AnswersIn(q, h))
    <2>1. AnswersIn(Append(q, m), h) = AnswersIn(q, h) /\ m \notin AnswersIn(q, h)
      BY <1>1, <1>2 DEF AnswersIn
    <2> QED
      BY <2>1, OnceAppend
  <1>3. ASSUME m.query = h /\ AnswersIn(q, h) = {}
        PROVE  AnswersIn(Append(q, m), h) = {m} /\ Once(Append(q, m), {m})
    <2>1. AnswersIn(Append(q, m), h) = {m} /\ Elems(q) \cap {m} = {}
      BY <1>1, <1>3 DEF AnswersIn
    <2>2. Once(q, {m})
      BY <2>1, OnceOf
    <2> QED
      BY <2>1, <2>2, OnceAppend
  <1> QED
    BY <1>2, <1>3

LEMMA AnswersTail ==
    ASSUME NEW q, \E M : q \in Seq(M), q # <<>>, NEW h, Once(q, AnswersIn(q, h))
    PROVE  /\ Once(Tail(q), AnswersIn(Tail(q), h))
           /\ IF Head(q).query = h
              THEN Head(q) \in AnswersIn(q, h) /\ AnswersIn(Tail(q), h) = {}
              ELSE AnswersIn(Tail(q), h) = AnswersIn(q, h)
  <1>1. Elems(q) = Elems(Tail(q)) \cup {Head(q)}
    BY ChannelTail
  <1>2. Once(Tail(q), AnswersIn(q, h))
        /\ (Head(q) \in AnswersIn(q, h) => Elems(Tail(q)) \cap AnswersIn(q, h) = {})
    BY OnceTail
  <1>3. Once(Tail(q), AnswersIn(Tail(q), h))
    <2>1. AnswersIn(Tail(q), h) \cap Elems(Tail(q)) \subseteq AnswersIn(q, h)
      BY <1>1 DEF AnswersIn
    <2> QED
      BY <1>2, <2>1, OnceOf
  <1> QED
    BY <1>1, <1>2, <1>3 DEF AnswersIn

\* A server that has caught up: its answers are read off the current texts.
LEMMA StillAnswers ==
    ASSUME ServerInv, TextInv, CaughtUp
    PROVE  /\ EveryDocument = AllRemarks
           /\ \A d \in Docs : IsOpen(d) =>
                /\ editor[d].text = last[d]
                /\ Denoted(d) = {Bound[d]}
                /\ AnnotationsOf(d) = Remarks(d, last[d])
  <1>1. ASSUME NEW d \in Docs PROVE ~Holds(toServer, ChangesOf(d)) /\ ~Holds(writes, ChangesOf(d))
    <2>1. \A m \in Elems(toServer) : m.kind = "request"
      <3>1. PICK M : toServer \in Seq(M)
        BY DEF ServerInv, ChannelInv
      <3>2. DOMAIN toServer = 1..Len(toServer)
        BY <3>1, ElemsTyped
      <3> QED
        BY <3>2 DEF CaughtUp, Elems
    <2>2. Elems(writes) = {}
      BY ElemsTyped DEF CaughtUp
    <2> QED
      BY <2>1, <2>2 DEF Holds, ChangesOf
  <1>2. \A d \in Docs : content[d] = last[d] /\ (IsOpen(d) => state[d] # "none" /\ editor[d].text = last[d])
    BY <1>1 DEF TextInv, LastInv, OpenInv
  <1>3. \A d \in Docs : IF state[d] = "none" THEN index[d] = None
                        ELSE state[d] = "linked" /\ parsed[d] = content[d] /\ index[d] = last[d]
    BY <1>2, CaughtUpIsIndexed DEF CaughtUp, IndexFollowsTexts
  <1>4. \A d \in Docs : last[d] # None
    BY DescriptionsAssumption DEF ServerInv, ServerTypes
  <1>5. \A d \in Docs : state[d] # "none" => AnnotationsOf(d) = Remarks(d, last[d])
    BY <1>3, <1>4 DEF AnnotationsOf, IndexedText
  <1>6. EveryDocument = AllRemarks
    <2>1. \A i \in DOMAIN Order : Order[i] \in Docs
      BY DEF Docs
    <2>2. \A i \in DOMAIN Order :
             (IF state[Order[i]] = "none" THEN <<>> ELSE AnnotationsOf(Order[i]))
               = IF state[Order[i]] = "none" THEN <<>> ELSE Remarks(Order[i], last[Order[i]])
      BY <1>5, <2>1
    <2> QED
      BY <2>2 DEF EveryDocument, AllRemarks
  <1>7. \A d \in Docs : state[d] = "linked" /\ parsed[d] = content[d] => Denoted(d) = {Bound[d]}
    BY DEF Denoted
  <1> QED
    BY <1>2, <1>3, <1>5, <1>6, <1>7

LEMMA InitQuery == Init => QueryInv
  <1> SUFFICES ASSUME Init PROVE QueryInv
    OBVIOUS
  <1>1. /\ query = [h \in Hovers |-> Idle] /\ shown = None /\ cache = [d \in Docs |-> None]
        /\ toServer = <<>> /\ toClient = <<>>
    BY DEF Init
  <1>2. \A h \in Hovers : query[h].step = "idle"
    BY <1>1 DEF Idle
  <1>3. \A h \in Hovers : ~UnderWay(h) /\ ~Calm(h)
    BY <1>2 DEF UnderWay, Calm
  <1>4. QueryTypes
    <2>1. Idle \in Queries
      BY DEF Idle, Queries, Steps
    <2> QED
      BY <1>1, <1>3, <2>1 DEF QueryTypes
  <1>5. /\ Elems(<<>>) = {} /\ \A S : Once(<<>>, S)
        /\ \A h : RequestsIn(<<>>, h) = {} /\ AnswersIn(<<>>, h) = {}
    BY DEF Elems, Once, RequestsIn, AnswersIn
  <1>6. \A h \in Hovers : CalmOf(h) /\ MessageOf(h)
    BY <1>1, <1>3, <1>5 DEF CalmOf, MessageOf
  <1>7. MessageTypes
    <2>1. toClient \in Seq({})
      BY <1>1
    <2> QED
      BY <1>1, <1>5, <2>1 DEF MessageTypes
  <1>8. CacheInv /\ StillInv /\ CalmQueriesAreRight
    BY <1>1, <1>3 DEF CacheInv, StillInv, CalmQueriesAreRight
  <1> QED
    BY <1>4, <1>6, <1>7, <1>8 DEF QueryInv

\* A step after which no query is calm, and that moves no request or answer.
LEMMA NoneCalm ==
    ASSUME ServerInv, QueryInv, CacheInv', cache' = [d \in Docs |-> cache'[d]], shown' = None,
           query' \in [Hovers -> Queries], UNCHANGED toClient,
           \A h \in Hovers : /\ ~Calm(h)' /\ query'[h].step = query[h].step
                             /\ query'[h].doc = query[h].doc /\ query'[h].path = query[h].path,
           \/ UNCHANGED toServer
           \/ \E m : toServer' = Append(toServer, m) /\ m.kind # "request"
           \/ toServer # <<>> /\ toServer' = Tail(toServer) /\ Head(toServer).kind # "request"
    PROVE  QueryInv'
  <1>1. \E M : toServer \in Seq(M)
    BY DEF ServerInv, ChannelInv
  <1>2. ASSUME NEW h \in Hovers
        PROVE  UnderWay(h)' = UnderWay(h) /\ RequestOf(h)' = RequestOf(h)
    BY DEF UnderWay, RequestOf
  <1>3. ASSUME NEW h \in Hovers
        PROVE  RequestsIn(toServer', h) = RequestsIn(toServer, h) /\ Once(toServer', RequestsIn(toServer', h))
    <2>1. Once(toServer, RequestsIn(toServer, h))
      BY DEF QueryInv, MessageOf
    <2>2. CASE UNCHANGED toServer
      BY <2>1, <2>2
    <2>3. ASSUME NEW m, toServer' = Append(toServer, m), m.kind # "request"
          PROVE  /\ RequestsIn(toServer', h) = RequestsIn(toServer, h)
                 /\ Once(toServer', RequestsIn(toServer', h))
      <3>1. /\ RequestsIn(Append(toServer, m), h) = RequestsIn(toServer, h)
            /\ Once(Append(toServer, m), RequestsIn(Append(toServer, m), h))
        BY ONLY <1>1, <2>1, <2>3, RequestsAppend
      <3> QED
        BY <2>3, <3>1
    <2>4. CASE toServer # <<>> /\ toServer' = Tail(toServer) /\ Head(toServer).kind # "request"
      BY <1>1, <2>1, <2>4, RequestsTail
    <2> QED
      BY <2>2, <2>3, <2>4
  <1>4. ASSUME NEW h \in Hovers PROVE CalmOf(h)' /\ MessageOf(h)'
    <2>1. CalmOf(h)'
      BY DEF CalmOf
    <2>2. MessageOf(h)
      BY DEF QueryInv
    <2>3. MessageOf(h)'
      BY <1>2, <1>3, <2>2 DEF MessageOf
    <2> QED
      BY <2>1, <2>3
  <1>5. MessageTypes'
    <2>1. \A m : toServer' = Append(toServer, m) => Elems(toServer') = Elems(toServer) \cup {m}
      BY <1>1, ChannelAppend
    <2>2. toServer # <<>> /\ toServer' = Tail(toServer) => Elems(toServer') \subseteq Elems(toServer)
      BY <1>1, ChannelTail
    <2>3. \A m \in Elems(toServer') : m \in Elems(toServer) \/ m.kind # "request"
      BY <2>1, <2>2
    <2> QED
      BY <2>3 DEF QueryInv, MessageTypes
  <1>6. QueryTypes'
    BY <1>2 DEF QueryInv, QueryTypes
  <1>7. StillInv' /\ CalmQueriesAreRight'
    BY DEF StillInv, CalmQueriesAreRight
  <1> QED
    BY <1>4, <1>5, <1>6, <1>7 DEF QueryInv

\* The queries after a change, whatever object they hold.
LEMMA DisturbedQueries ==
    ASSUME QueryInv, NEW h \in Hovers
    PROVE  /\ Disturbed[h] \in Queries /\ Disturbed[h].step = query[h].step
           /\ Disturbed[h].doc = query[h].doc /\ Disturbed[h].path = query[h].path
           /\ UnderWay(h) => Disturbed[h].calm = FALSE
  <1>1. query[h] \in Queries
    BY DEF QueryInv, QueryTypes
  <1>2. Disturbed[h] = IF UnderWay(h) THEN [query[h] EXCEPT !.calm = FALSE] ELSE query[h]
    BY DEF Disturbed
  <1> QED
    BY <1>1, <1>2 DEF Queries

LEMMA NowDisturbed ==
    ASSUME QueryInv, query' = Disturbed
    PROVE  /\ query' \in [Hovers -> Queries]
           /\ \A h \in Hovers : /\ ~Calm(h)' /\ query'[h].step = query[h].step
                                /\ query'[h].doc = query[h].doc /\ query'[h].path = query[h].path
  <1>1. \A h \in Hovers : query'[h] = Disturbed[h]
    OBVIOUS
  <1>2. query' = [h \in Hovers |-> query'[h]]
    BY DEF Disturbed
  <1>3. ASSUME NEW h \in Hovers PROVE ~Calm(h)'
    BY <1>1, DisturbedQueries DEF Calm, UnderWay
  <1> QED
    BY <1>1, <1>2, <1>3, DisturbedQueries

LEMMA OpenQuery ==
    ASSUME ServerInv, TextInv, QueryInv, NEW d \in Opened, NEW n \in Texts, Open(d, n) PROVE QueryInv'
  <1>1. d \in Docs /\ editor[d] = Closed /\ Closed.version = 0
    BY DescriptionsAssumption DEF Open, IsOpen, Closed
  <1>2. /\ editor' = [editor EXCEPT ![d] = [version |-> 1, text |-> n]]
        /\ toServer' = Append(toServer, Change(d, n))
        /\ query' = Disturbed /\ shown' = None /\ UNCHANGED <<cache, toClient>>
    BY DEF Open
  <1>3. /\ \A e \in Docs \ {d} : editor'[e] = editor[e]
        /\ editor'[d].version = 1
    BY <1>1, <1>2 DEF TextInv
  <1>4. CacheInv'
    BY <1>1, <1>2, <1>3 DEF QueryInv, CacheInv
  <1>5. Change(d, n).kind # "request"
    BY DEF Change
  <1> QED
    BY <1>2, <1>4, <1>5, NowDisturbed, NoneCalm DEF QueryInv, QueryTypes

LEMMA EditQuery ==
    ASSUME ServerInv, TextInv, QueryInv, NEW d \in Opened, Edit(d) PROVE QueryInv'
  <1>1. d \in Docs /\ editor[d].version \in Nat
    BY DescriptionsAssumption DEF TextInv, TextDocuments
  <1>2. /\ editor' = [editor EXCEPT ![d] = [version |-> editor[d].version + 1, text |-> last[d] + 1]]
        /\ toServer' = Append(toServer, Change(d, last[d] + 1))
        /\ query' = Disturbed /\ shown' = None /\ UNCHANGED <<cache, toClient>>
    BY <1>1 DEF Edit, TextInv
  <1>3. /\ \A e \in Docs \ {d} : editor'[e] = editor[e]
        /\ editor'[d].version = editor[d].version + 1
    BY <1>1, <1>2 DEF TextInv
  <1>4. CacheInv'
    BY <1>1, <1>2, <1>3 DEF QueryInv, CacheInv
  <1>5. Change(d, last[d] + 1).kind # "request"
    BY DEF Change
  <1> QED
    BY <1>2, <1>4, <1>5, NowDisturbed, NoneCalm DEF QueryInv, QueryTypes

LEMMA CloseQuery ==
    ASSUME ServerInv, TextInv, QueryInv, NEW d \in Opened, Close(d) PROVE QueryInv'
  <1>1. d \in Docs /\ editor[d] \in TextDocuments
    BY DescriptionsAssumption DEF TextInv
  <1>2. /\ editor' = [editor EXCEPT ![d] = Closed]
        /\ cache' = [cache EXCEPT ![d] = None]
        /\ query' = [h \in Hovers |->
                        IF UnderWay(h) /\ query[h].doc = d /\ query[h].object = None
                        THEN [Disturbed[h] EXCEPT !.object = editor[d]] ELSE Disturbed[h]]
        /\ shown' = None /\ UNCHANGED <<toServer, toClient>>
    BY DEF Close, DropCached
  <1>3. /\ \A e \in Docs \ {d} : editor'[e] = editor[e] /\ cache'[e] = cache[e]
        /\ cache'[d] = None /\ cache' = [e \in Docs |-> cache'[e]]
    BY <1>1, <1>2 DEF TextInv, QueryInv, QueryTypes
  <1>4. CacheInv'
    BY <1>1, <1>3 DEF QueryInv, CacheInv
  <1>5. ASSUME NEW h \in Hovers
        PROVE  /\ query'[h] \in Queries /\ ~Calm(h)' /\ query'[h].step = query[h].step
               /\ query'[h].doc = query[h].doc /\ query'[h].path = query[h].path
    <2>1. query'[h] = Disturbed[h] \/ query'[h] = [Disturbed[h] EXCEPT !.object = editor[d]]
      BY <1>2
    <2>2. /\ Disturbed[h] \in Queries /\ Disturbed[h].step = query[h].step
          /\ Disturbed[h].doc = query[h].doc /\ Disturbed[h].path = query[h].path
          /\ UnderWay(h) => Disturbed[h].calm = FALSE
      BY DisturbedQueries
    <2>3. /\ query'[h] \in Queries /\ query'[h].step = Disturbed[h].step
          /\ query'[h].doc = Disturbed[h].doc /\ query'[h].path = Disturbed[h].path
          /\ query'[h].calm = Disturbed[h].calm
      BY <1>1, <2>1, <2>2 DEF Queries
    <2> QED
      BY <2>2, <2>3 DEF Calm, UnderWay
  <1>6. query' \in [Hovers -> Queries]
    BY <1>2, <1>5
  <1> QED
    BY <1>2, <1>3, <1>4, <1>5, <1>6, NoneCalm

LEMMA DeleteQuery ==
    ASSUME ServerInv, QueryInv, NEW d \in Docs, Delete(d) PROVE QueryInv'
  <1>1. /\ toServer' = Append(toServer, [kind |-> "delete", doc |-> d])
        /\ query' = Disturbed /\ shown' = None /\ UNCHANGED <<editor, cache, toClient>>
    BY DEF Delete
  <1>2. CacheInv'
    BY <1>1 DEF QueryInv, CacheInv
  <1> QED
    BY <1>1, <1>2, NowDisturbed, NoneCalm DEF QueryInv, QueryTypes

\* A step of a server that has not caught up.
LEMMA LateQuery ==
    ASSUME ServerInv, QueryInv, Notified \/ Update \/ EndParsing \/ \E d \in Docs : Parse(d)
    PROVE  QueryInv'
  <1>1. UNCHANGED <<editor, cache, query, shown, toClient>>
    BY DEF Notified, Update, EndParsing, Parse, client
  <1>2. \/ UNCHANGED toServer
        \/ toServer # <<>> /\ toServer' = Tail(toServer) /\ Head(toServer).kind # "request"
    BY DEF Notified, Update, EndParsing, Parse
  <1>3. ~CaughtUp
    <2>1. CASE Notified
      <3>1. PICK M : toServer \in Seq(M)
        BY DEF ServerInv, ChannelInv
      <3>2. 1 \in DOMAIN toServer /\ toServer[1].kind # "request"
        <4>1. toServer # <<>> /\ Head(toServer).kind # "request"
          BY <2>1 DEF Notified
        <4> QED
          BY <3>1, <4>1, EmptySeq
      <3> QED
        BY <3>2 DEF CaughtUp
    <2>2. CASE Update \/ EndParsing \/ \E d \in Docs : Parse(d)
      BY <2>2 DEF CaughtUp, Update, EndParsing, Parse
    <2> QED
      BY <2>1, <2>2
  <1>4. shown = None /\ \A h \in Hovers : ~Calm(h)
    BY <1>3 DEF QueryInv, StillInv
  <1>5. \A h \in Hovers : Calm(h)' = Calm(h)
    BY <1>1 DEF Calm, UnderWay
  <1>6. CacheInv'
    BY <1>1 DEF QueryInv, CacheInv
  <1> QED
    BY <1>1, <1>2, <1>4, <1>5, <1>6, NoneCalm DEF QueryInv, QueryTypes

\* What a query knows when it comes to the remarks of its document.
Knows(q) ==
    /\ q \in Queries /\ q.doc \in Docs
    /\ q.calm => /\ CaughtUp /\ q.object = None /\ IsOpen(q.doc)
                 /\ q.path = None => FirstRemarked(Bound[q.doc], AllRemarks) = None

\* A step of one query: what it asks, shows and is afterwards.
Goes(h) ==
    /\ query' = [query EXCEPT ![h] = query'[h]]
    /\ query'[h] \in Queries /\ (UnderWay(h)' => query'[h].doc \in Docs)
    /\ \/ UNCHANGED toServer
       \/ \E m : toServer' = Append(toServer, m) /\ m.kind = "request" /\ m.query = h
    /\ CalmOf(h)' /\ MessageOf(h)' /\ (Calm(h)' => CaughtUp)
    /\ \/ UNCHANGED shown
       \/ shown' # None => CaughtUp /\ shown'.description = Described(shown'.doc, shown'.path)

LEMMA SameTexts ==
    ASSUME UNCHANGED <<last, state>> PROVE AllRemarks' = AllRemarks
  BY DEF AllRemarks

\* A query that is done has no message.
LEMMA FinishStep ==
    ASSUME QueryInv, NEW h \in Hovers, NEW q, NEW description, Finish(h, q, description),
           RequestsIn(toServer, h) = {}, AnswersIn(toClient', h) = {}, UNCHANGED toServer,
           q.calm => CaughtUp /\ description = Described(q.doc, q.path)
    PROVE  Goes(h)
  <1>1. /\ query' = [query EXCEPT ![h] = [Idle EXCEPT !.step = "done"]]
        /\ shown' = IF q.calm THEN [doc |-> q.doc, path |-> q.path, description |-> description] ELSE None
    BY DEF Finish
  <1>2. query'[h] = [Idle EXCEPT !.step = "done"] /\ query' = [query EXCEPT ![h] = query'[h]]
    BY <1>1 DEF QueryInv, QueryTypes
  <1>3. query'[h] \in Queries /\ query'[h].step = "done"
    BY <1>2 DEF Idle, Queries, Steps
  <1>4. ~UnderWay(h)' /\ ~Calm(h)'
    BY <1>3 DEF UnderWay, Calm
  <1>5. CalmOf(h)' /\ MessageOf(h)'
    BY <1>4 DEF CalmOf, MessageOf, Once
  <1>6. shown' # None => CaughtUp /\ shown'.description = Described(shown'.doc, shown'.path)
    BY <1>1
  <1> QED
    BY <1>2, <1>3, <1>4, <1>5, <1>6 DEF Goes

\* A query that goes on has the request of its step.
LEMMA RequestStep ==
    ASSUME ServerInv, QueryInv, NEW h \in Hovers, NEW q \in Queries, NEW m,
           query' = [query EXCEPT ![h] = q], UnderWay(h)', q.doc \in Docs,
           toServer' = Append(toServer, m), m.kind = "request", m.query = h, m = RequestOf(h)',
           RequestsIn(toServer, h) = {}, AnswersIn(toClient', h) = {},
           UNCHANGED shown, CalmOf(h)', q.calm => CaughtUp
    PROVE  Goes(h)
  <1>1. query'[h] = q /\ query' = [query EXCEPT ![h] = query'[h]]
    BY DEF QueryInv, QueryTypes
  <1>2. Once(toServer, RequestsIn(toServer, h)) /\ \E M : toServer \in Seq(M)
    BY DEF QueryInv, MessageOf, ServerInv, ChannelInv
  <1>3. RequestsIn(toServer', h) = {m} /\ Once(toServer', RequestsIn(toServer', h))
    <2>1. /\ RequestsIn(Append(toServer, m), h) = {m}
          /\ Once(Append(toServer, m), RequestsIn(Append(toServer, m), h))
      <3>1. m.kind = "request" /\ m.query = h /\ RequestsIn(toServer, h) = {}
        OBVIOUS
      <3> QED
        BY ONLY <1>2, <3>1, RequestsAppend, ZenonT(40)
    <2> QED
      BY <2>1
  <1>4. MessageOf(h)'
    BY <1>3 DEF MessageOf, Once
  <1> QED
    BY <1>1, <1>4 DEF Goes, Calm

LEMMA SearchStep ==
    ASSUME ServerInv, TextInv, QueryInv, NEW h \in Hovers, NEW q, NEW remarks, Knows(q),
           q.calm => remarks = Remarks(q.doc, editor[q.doc].text),
           RequestsIn(toServer, h) = {}, AnswersIn(toClient', h) = {},
           UNCHANGED <<editor, last, state>>, Search(h, q, remarks)
    PROVE  Goes(h)
  <1> SUFFICES ASSUME NEW own, own = OfDocument(q.doc, remarks, q.path) PROVE Goes(h)
    OBVIOUS
  <1>1. CASE own # None
    <2>1. Finish(h, q, own) /\ UNCHANGED toServer
      BY <1>1 DEF Search
    <2>2. q.calm => CaughtUp /\ own = Described(q.doc, q.path)
      BY <1>1 DEF Described, Knows
    <2> QED
      BY <2>1, <2>2, FinishStep
  <1>2. CASE own = None
    <2> SUFFICES ASSUME NEW r, r = [q EXCEPT !.step = "remote"],
                        NEW m, m = Request(IF q.path = None THEN "entity" ELSE "path", h, q.doc, q.path)
                 PROVE  Goes(h)
      OBVIOUS
    <2>1. query' = [query EXCEPT ![h] = r] /\ toServer' = Append(toServer, m) /\ UNCHANGED shown
      BY <1>2 DEF Search
    <2>2. /\ r \in Queries /\ r.step = "remote" /\ r.doc = q.doc /\ r.path = q.path
          /\ r.object = q.object /\ r.calm = q.calm
      BY DEF Knows, Queries, Steps
    <2>3. query'[h] = r
      BY <2>1 DEF QueryInv, QueryTypes
    <2>4. UnderWay(h)' /\ m = RequestOf(h)' /\ m.kind = "request" /\ m.query = h
      BY <2>2, <2>3 DEF UnderWay, RequestOf, Request
    <2>5. CalmOf(h)'
      <3>1. AllRemarks' = AllRemarks
        BY SameTexts
      <3>2. q.calm => OfDocument(q.doc, Remarks(q.doc, last[q.doc]), q.path) = None
        BY <1>2 DEF Knows, TextInv, OpenInv
      <3> QED
        BY <2>2, <2>3, <3>1, <3>2 DEF CalmOf, Calm, Knows, IsOpen
    <2> QED
      BY <2>1, <2>2, <2>4, <2>5, RequestStep DEF Knows
  <1> QED
    BY <1>1, <1>2

LEMMA AskIndexStep ==
    ASSUME ServerInv, TextInv, QueryInv, NEW h \in Hovers, NEW q, Knows(q),
           RequestsIn(toServer, h) = {}, AnswersIn(toClient', h) = {},
           UNCHANGED <<editor, last, state>>, AskIndex(h, q)
    PROVE  Goes(h)
  <1>1. CASE IsCached(q)
    <2> SUFFICES ASSUME NEW r, r = [q EXCEPT !.calm = @ /\ cache[q.doc].calm] PROVE Goes(h)
      OBVIOUS
    <2>1. Search(h, r, cache[q.doc].remarks)
      BY <1>1 DEF AskIndex
    <2>2. /\ r \in Queries /\ r.doc = q.doc /\ r.path = q.path /\ r.object = q.object
          /\ r.calm => q.calm /\ cache[q.doc].calm
      BY DEF Knows, Queries
    <2>3. Knows(r)
      BY <2>2 DEF Knows
    <2>4. r.calm => cache[q.doc].remarks = Remarks(r.doc, editor[r.doc].text)
      BY <1>1, <2>2 DEF Knows, IsCached, Object, QueryInv, CacheInv
    <2> QED
      BY <2>1, <2>3, <2>4, SearchStep
  <1>2. CASE ~IsCached(q)
    <2> SUFFICES ASSUME NEW r, r = [q EXCEPT !.step = "get"],
                        NEW m, m = Request("get", h, q.doc, None)
                 PROVE  Goes(h)
      OBVIOUS
    <2>1. query' = [query EXCEPT ![h] = r] /\ toServer' = Append(toServer, m) /\ UNCHANGED shown
      BY <1>2 DEF AskIndex
    <2>2. /\ r \in Queries /\ r.step = "get" /\ r.doc = q.doc /\ r.path = q.path
          /\ r.object = q.object /\ r.calm = q.calm
      BY DEF Knows, Queries, Steps
    <2>3. query'[h] = r
      BY <2>1 DEF QueryInv, QueryTypes
    <2>4. UnderWay(h)' /\ m = RequestOf(h)' /\ m.kind = "request" /\ m.query = h
      BY <2>2, <2>3 DEF UnderWay, RequestOf, Request
    <2>5. CalmOf(h)'
      <3>1. AllRemarks' = AllRemarks
        BY SameTexts
      <3> QED
        BY <2>2, <2>3, <3>1 DEF CalmOf, Calm, Knows, IsOpen
    <2> QED
      BY <2>1, <2>2, <2>4, <2>5, RequestStep DEF Knows
  <1> QED
    BY <1>1, <1>2

\* A query goes a step, and the others stay as they are.
LEMMA OneQuery ==
    ASSUME ServerInv, QueryInv, NEW h \in Hovers, Goes(h), UNCHANGED <<editor, last, server>>,
           CacheInv', cache' = [d \in Docs |-> cache'[d]],
           UNCHANGED toClient \/ (toClient # <<>> /\ toClient' = Tail(toClient) /\ Head(toClient).query = h)
    PROVE  QueryInv'
  <1>1. \E M : toServer \in Seq(M)
    BY DEF ServerInv, ChannelInv
  <1>2. UNCHANGED <<editor, last, content, writes, state>>
    BY DEF server
  <1>3. AllRemarks' = AllRemarks
    BY <1>2, SameTexts
  <1>4. \A g \in Hovers \ {h} : query'[g] = query[g]
    BY DEF Goes, QueryInv, QueryTypes
  <1>5. CaughtUp => CaughtUp'
    <2>1. ASSUME NEW m, toServer' = Append(toServer, m), m.kind = "request", CaughtUp PROVE CaughtUp'
      <3>1. Elems(toServer') = Elems(toServer) \cup {m} /\ \E M : toServer' \in Seq(M)
        BY <1>1, <2>1, ChannelAppend
      <3>2. DOMAIN toServer = 1..Len(toServer) /\ DOMAIN toServer' = 1..Len(toServer')
        BY <1>1, <3>1, ElemsTyped
      <3>3. \A n \in Elems(toServer') : n.kind = "request"
        BY <2>1, <3>1, <3>2 DEF CaughtUp, Elems
      <3> QED
        BY <1>2, <2>1, <3>2, <3>3 DEF CaughtUp, Elems
    <2>2. UNCHANGED toServer /\ CaughtUp => CaughtUp'
      BY <1>2 DEF CaughtUp
    <2> QED
      BY <2>1, <2>2 DEF Goes
  <1>6. ASSUME NEW g \in Hovers \ {h}
        PROVE  /\ RequestsIn(toServer', g) = RequestsIn(toServer, g) /\ Once(toServer', RequestsIn(toServer', g))
               /\ AnswersIn(toClient', g) = AnswersIn(toClient, g) /\ Once(toClient', AnswersIn(toClient', g))
    <2>1. Once(toServer, RequestsIn(toServer, g)) /\ Once(toClient, AnswersIn(toClient, g))
      BY DEF QueryInv, MessageOf
    <2>2. ASSUME NEW m, toServer' = Append(toServer, m), m.kind = "request", m.query = h
          PROVE  /\ RequestsIn(toServer', g) = RequestsIn(toServer, g)
                 /\ Once(toServer', RequestsIn(toServer', g))
      <3>1. m.query # g
        BY <2>2
      <3>2. /\ RequestsIn(Append(toServer, m), g) = RequestsIn(toServer, g)
            /\ Once(Append(toServer, m), RequestsIn(Append(toServer, m), g))
        BY ONLY <1>1, <2>1, <3>1, RequestsAppend
      <3> QED
        BY <2>2, <3>2
    <2>3. RequestsIn(toServer', g) = RequestsIn(toServer, g) /\ Once(toServer', RequestsIn(toServer', g))
      BY <2>1, <2>2 DEF Goes
    <2>4. AnswersIn(toClient', g) = AnswersIn(toClient, g) /\ Once(toClient', AnswersIn(toClient', g))
      <3>1. \E M : toClient \in Seq(M)
        BY DEF QueryInv, MessageTypes
      <3>2. CASE UNCHANGED toClient
        BY <2>1, <3>2
      <3>3. CASE toClient # <<>> /\ toClient' = Tail(toClient) /\ Head(toClient).query = h
        BY <2>1, <3>1, <3>3, AnswersTail
      <3> QED
        BY <3>2, <3>3
    <2> QED
      BY <2>3, <2>4
  <1>7. ASSUME NEW g \in Hovers PROVE CalmOf(g)' /\ MessageOf(g)' /\ (Calm(g)' => CaughtUp)
    <2>1. CASE g = h
      BY <2>1 DEF Goes
    <2>2. CASE g # h
      <3>1. query'[g] = query[g] /\ UnderWay(g)' = UnderWay(g) /\ Calm(g)' = Calm(g)
        BY <1>4, <2>2 DEF UnderWay, Calm
      <3>2. RequestOf(g)' = RequestOf(g) /\ AnswerTo(query[g])' = AnswerTo(query[g])
        BY <1>2, <1>3, <3>1 DEF RequestOf, AnswerTo
      <3>3. MessageOf(g) /\ CalmOf(g) /\ (Calm(g) => CaughtUp)
        BY DEF QueryInv, StillInv
      <3>4. MessageOf(g)'
        BY <1>6, <2>2, <3>1, <3>2, <3>3 DEF MessageOf
      <3>5. CalmOf(g)'
        BY <1>2, <1>3, <3>1, <3>3 DEF CalmOf, IsOpen
      <3> QED
        BY <3>1, <3>3, <3>4, <3>5
    <2> QED
      BY <2>1, <2>2
  <1>8. QueryTypes'
    <2>1. query' \in [Hovers -> Queries]
      BY DEF Goes, QueryInv, QueryTypes
    <2>2. \A g \in Hovers : UnderWay(g)' => query'[g].doc \in Docs
      BY <1>4 DEF Goes, QueryInv, QueryTypes, UnderWay
    <2> QED
      BY <2>1, <2>2 DEF QueryTypes
  <1>9. MessageTypes'
    <2>1. \A m : toServer' = Append(toServer, m) => Elems(toServer') = Elems(toServer) \cup {m}
      BY <1>1, ChannelAppend
    <2>2. \A m \in Elems(toServer') : m \in Elems(toServer) \/ m.query = h
      BY <2>1 DEF Goes
    <2>3. (\E M : toClient' \in Seq(M)) /\ Elems(toClient') \subseteq Elems(toClient)
      <3>1. \E M : toClient \in Seq(M)
        BY DEF QueryInv, MessageTypes
      <3>2. toClient # <<>> => (\E M : Tail(toClient) \in Seq(M)) /\ Elems(Tail(toClient)) \subseteq Elems(toClient)
        BY <3>1, ChannelTail
      <3> QED
        BY <3>1, <3>2
    <2> QED
      BY <2>2, <2>3 DEF QueryInv, MessageTypes
  <1>10. CalmQueriesAreRight' /\ (shown' # None => CaughtUp)
    <2>1. CASE UNCHANGED shown
      BY <1>2, <1>3, <2>1 DEF QueryInv, StillInv, CalmQueriesAreRight, Described
    <2>2. CASE shown' # None => CaughtUp /\ shown'.description = Described(shown'.doc, shown'.path)
      BY <1>2, <1>3, <2>2 DEF CalmQueriesAreRight, Described
    <2> QED
      BY <2>1, <2>2 DEF Goes
  <1>11. StillInv'
    BY <1>5, <1>7, <1>10 DEF StillInv
  <1> QED
    BY <1>7, <1>8, <1>9, <1>10, <1>11 DEF QueryInv

LEMMA AskQuery ==
    ASSUME ServerInv, TextInv, QueryInv, NEW h \in Hovers, NEW d \in Opened,
           NEW path \in Paths \cup {None}, Ask(h, d, path)
    PROVE  QueryInv'
  <1>1. UNCHANGED <<editor, last, cache, toClient, server, state>>
    BY DEF Ask, client, server
  <1>2. query[h].step = "idle" /\ ~UnderWay(h) /\ IsOpen(d) /\ d \in Docs
    BY DescriptionsAssumption DEF Ask, UnderWay
  <1>3. RequestsIn(toServer, h) = {} /\ AnswersIn(toClient', h) = {}
    BY <1>1, <1>2 DEF QueryInv, MessageOf
  <1> SUFFICES ASSUME NEW q, q = [Idle EXCEPT !.doc = d, !.path = path, !.calm = CaughtUp]
               PROVE  QueryInv'
    OBVIOUS
  <1>4. /\ q \in Queries /\ q.doc = d /\ q.path = path /\ q.object = None /\ q.calm = CaughtUp
    BY <1>2 DEF Idle, Queries, Steps, CaughtUp
  <1>5. Goes(h)
    <2>1. CASE path = None
      <3> SUFFICES ASSUME NEW r, r = [q EXCEPT !.step = "at"], NEW m, m = Request("at", h, d, None)
                   PROVE  Goes(h)
        OBVIOUS
      <3>1. query' = [query EXCEPT ![h] = r] /\ toServer' = Append(toServer, m) /\ UNCHANGED shown
        BY <2>1 DEF Ask
      <3>2. /\ r \in Queries /\ r.step = "at" /\ r.doc = d /\ r.path = None /\ r.object = None
            /\ r.calm = CaughtUp
        BY <1>4, <2>1 DEF Queries, Steps
      <3>3. query'[h] = r
        BY <3>1 DEF QueryInv, QueryTypes
      <3>4. UnderWay(h)' /\ m = RequestOf(h)' /\ m.kind = "request" /\ m.query = h
        BY <3>2, <3>3 DEF UnderWay, RequestOf, Request
      <3>5. CalmOf(h)'
        BY <1>1, <1>2, <3>2, <3>3 DEF CalmOf, Calm, IsOpen
      <3> QED
        BY <1>2, <1>3, <3>1, <3>2, <3>4, <3>5, RequestStep
    <2>2. CASE path # None
      <3>1. Knows(q)
        BY <1>2, <1>4, <2>2 DEF Knows
      <3>2. AskIndex(h, q)
        BY <2>2 DEF Ask
      <3> QED
        BY <1>1, <1>3, <3>1, <3>2, AskIndexStep
    <2> QED
      BY <2>1, <2>2
  <1>6. CacheInv' /\ cache' = [e \in Docs |-> cache'[e]]
    BY <1>1 DEF QueryInv, QueryTypes, CacheInv
  <1> QED
    BY <1>1, <1>5, <1>6, OneQuery

\* The query of an answer, and what it knows then.
LEMMA AnsweredQuery ==
    ASSUME QueryInv, NEW s \in {"at", "get", "remote"}, Answered(s)
    PROVE  /\ Asker \in Hovers /\ query[Asker].step = s
           /\ UNCHANGED <<editor, last, server, state>>
           /\ toClient # <<>> /\ toClient' = Tail(toClient)
           /\ RequestsIn(toServer, Asker) = {} /\ AnswersIn(toClient', Asker) = {}
           /\ Calmed \in Queries /\ Calmed.doc \in Docs
           /\ Calmed.doc = query[Asker].doc /\ Calmed.path = query[Asker].path
           /\ Calmed.object = query[Asker].object
           /\ Calmed.calm => /\ CaughtUp /\ Calm(Asker) /\ CalmOf(Asker)
                             /\ Hits # Failed /\ Hits = AnswerTo(query[Asker])
  <1>1. /\ toClient # <<>> /\ query[Asker].step = s /\ toClient' = Tail(toClient)
        /\ UNCHANGED <<editor, last, server, state>>
    BY DEF Answered, Asker, server
  <1>2. \E M : toClient \in Seq(M)
    BY DEF QueryInv, MessageTypes
  <1>3. Head(toClient) \in Elems(toClient) /\ Asker \in Hovers
    BY <1>1, <1>2, ChannelTail DEF QueryInv, MessageTypes, Asker
  <1>4. UnderWay(Asker) /\ query[Asker] \in Queries /\ query[Asker].doc \in Docs
    BY <1>1, <1>3 DEF UnderWay, QueryInv, QueryTypes
  <1>5. MessageOf(Asker) /\ CalmOf(Asker)
    BY <1>3 DEF QueryInv
  <1>6. Head(toClient) \in AnswersIn(toClient, Asker) /\ AnswersIn(toClient', Asker) = {}
    <2>1. Once(toClient, AnswersIn(toClient, Asker))
      BY <1>5 DEF MessageOf
    <2>2. Head(toClient).query = Asker
      BY DEF Asker
    <2>3. Head(toClient) \in AnswersIn(toClient, Asker) /\ AnswersIn(Tail(toClient), Asker) = {}
      BY ONLY <1>1, <1>2, <2>1, <2>2, AnswersTail
    <2> QED
      BY <1>1, <2>3
  <1>7. RequestsIn(toServer, Asker) = {}
    BY <1>5, <1>6 DEF MessageOf
  <1>8. /\ Calmed \in Queries /\ Calmed.doc = query[Asker].doc /\ Calmed.path = query[Asker].path
        /\ Calmed.object = query[Asker].object
        /\ Calmed.calm => query[Asker].calm /\ Hits # Failed
    BY <1>4 DEF Calmed, Queries
  <1>9. Calmed.calm => CaughtUp /\ Calm(Asker) /\ Hits = AnswerTo(query[Asker])
    <2>1. Calmed.calm => Calm(Asker)
      BY <1>4, <1>8 DEF Calm
    <2>2. Calm(Asker) => CaughtUp
      BY <1>3 DEF QueryInv, StillInv
    <2>3. Calm(Asker) => Hits \in {Failed, AnswerTo(query[Asker])}
      BY <1>5, <1>6 DEF MessageOf, Hits
    <2> QED
      BY <1>8, <2>1, <2>2, <2>3
  <1> QED
    BY <1>1, <1>3, <1>4, <1>5, <1>6, <1>7, <1>8, <1>9

LEMMA AtAnsweredQuery == ASSUME ServerInv, TextInv, QueryInv, AtAnswered PROVE QueryInv'
  <1> SUFFICES ASSUME NEW h, h = Asker, NEW q, q = Calmed, NEW hits, hits = Hits PROVE QueryInv'
    OBVIOUS
  <1>1. Answered("at") /\ UNCHANGED cache
    BY DEF AtAnswered
  <1>2. /\ h \in Hovers /\ query[h].step = "at"
        /\ UNCHANGED <<editor, last, server, state>>
        /\ toClient # <<>> /\ toClient' = Tail(toClient) /\ Head(toClient).query = h
        /\ RequestsIn(toServer, h) = {} /\ AnswersIn(toClient', h) = {}
        /\ q \in Queries /\ q.doc \in Docs /\ q.doc = query[h].doc /\ q.path = query[h].path
        /\ q.object = query[h].object
        /\ q.calm => /\ CaughtUp /\ Calm(h) /\ CalmOf(h)
                     /\ hits # Failed /\ hits = AnswerTo(query[h])
    BY <1>1, AnsweredQuery, "at" \in {"at", "get", "remote"} DEF Asker
  <1>3. q.calm => /\ q.path = None /\ hits = FirstRemarked(Bound[q.doc], AllRemarks)
                  /\ q.object = None /\ IsOpen(q.doc)
    BY <1>2 DEF CalmOf, AnswerTo
  <1>4. Goes(h)
    <2>1. CASE hits \in {None, Failed}
      <3>1. AskIndex(h, q)
        BY <2>1 DEF AtAnswered
      <3>2. q.calm => hits = None
        BY <1>2, <2>1
      <3>3. Knows(q)
        BY <1>2, <1>3, <3>2 DEF Knows
      <3> QED
        BY <1>2, <3>1, <3>3, AskIndexStep
    <2>2. CASE hits \notin {None, Failed}
      <3>1. Finish(h, q, hits) /\ UNCHANGED toServer
        BY <2>2 DEF AtAnswered
      <3>2. q.calm => CaughtUp /\ hits = Described(q.doc, q.path)
        BY <1>2, <1>3, <2>2 DEF Described
      <3> QED
        BY <1>2, <3>1, <3>2, FinishStep
    <2> QED
      BY <2>1, <2>2
  <1>5. CacheInv' /\ cache' = [e \in Docs |-> cache'[e]]
    BY <1>1, <1>2 DEF QueryInv, QueryTypes, CacheInv
  <1> QED
    BY <1>2, <1>4, <1>5, OneQuery

LEMMA IndexAnsweredQuery == ASSUME ServerInv, TextInv, QueryInv, IndexAnswered PROVE QueryInv'
  <1> SUFFICES ASSUME NEW h, h = Asker, NEW q, q = Calmed, NEW hits, hits = Hits,
                      NEW here, here = (hits = Failed \/ hits = <<>>),
                      NEW fresh, fresh = (q.object = None /\ (here \/ q.calm)), NEW remarks,
                      remarks = IF here THEN Remarks(q.doc, Object(q).text) ELSE hits
               PROVE  QueryInv'
    OBVIOUS
  <1>1. /\ Answered("get")
        /\ cache' = [cache EXCEPT ![q.doc] = [version |-> Object(q).version, remarks |-> remarks,
                                              calm |-> fresh]]
        /\ Search(h, q, remarks)
    BY DEF IndexAnswered
  <1>2. /\ h \in Hovers /\ query[h].step = "get"
        /\ UNCHANGED <<editor, last, server, state>>
        /\ toClient # <<>> /\ toClient' = Tail(toClient) /\ Head(toClient).query = h
        /\ RequestsIn(toServer, h) = {} /\ AnswersIn(toClient', h) = {}
        /\ q \in Queries /\ q.doc \in Docs /\ q.doc = query[h].doc /\ q.path = query[h].path
        /\ q.object = query[h].object
        /\ q.calm => /\ CaughtUp /\ Calm(h) /\ CalmOf(h)
                     /\ hits # Failed /\ hits = AnswerTo(query[h])
    BY <1>1, AnsweredQuery, "get" \in {"at", "get", "remote"} DEF Asker
  <1>3. q.calm => /\ hits = Remarks(q.doc, last[q.doc]) /\ q.object = None /\ IsOpen(q.doc)
                  /\ q.path = None => FirstRemarked(Bound[q.doc], AllRemarks) = None
    BY <1>2 DEF CalmOf, AnswerTo
  <1>4. Knows(q)
    BY <1>2, <1>3 DEF Knows
  <1>5. q.object = None => Object(q) = editor[q.doc]
    BY DEF Object
  <1>6. q.object = None /\ (here \/ q.calm) => remarks = Remarks(q.doc, editor[q.doc].text)
    <2>1. q.calm => editor[q.doc].text = last[q.doc]
      BY <1>2, <1>3 DEF TextInv, OpenInv
    <2> QED
      BY <1>3, <1>5, <2>1
  <1>7. Goes(h)
    <2>1. q.calm => remarks = Remarks(q.doc, editor[q.doc].text)
      BY <1>3, <1>6
    <2> QED
      BY <1>1, <1>2, <1>4, <2>1, SearchStep
  <1>8. cache' = [e \in Docs |-> cache'[e]]
    BY <1>1 DEF QueryInv, QueryTypes
  <1>9. CacheInv'
    <2> SUFFICES ASSUME NEW d \in Docs, cache'[d] # None, cache'[d].calm
                 PROVE  /\ cache'[d].version \in Nat /\ cache'[d].version <= editor[d].version
                        /\ cache'[d].version = editor[d].version =>
                             cache'[d].remarks = Remarks(d, editor[d].text)
      BY <1>2 DEF CacheInv
    <2>1. CASE d = q.doc
      <3>1. cache'[d] = [version |-> Object(q).version, remarks |-> remarks,
                         calm |-> fresh]
        BY <1>1, <1>2, <2>1 DEF QueryInv, QueryTypes
      <3>5. cache'[d].calm = fresh
        BY ONLY <3>1
      <3>2. q.object = None /\ (here \/ q.calm)
        BY <3>5
      <3>3. cache'[d].version = editor[d].version /\ cache'[d].remarks = Remarks(d, editor[d].text)
        BY <1>5, <1>6, <2>1, <3>1, <3>2
      <3>4. editor[d].version \in Nat
        BY DEF TextInv, TextDocuments
      <3> QED
        BY <3>3, <3>4
    <2>2. CASE d # q.doc
      BY <1>1, <2>2 DEF QueryInv, QueryTypes, CacheInv
    <2> QED
      BY <2>1, <2>2
  <1> QED
    BY <1>2, <1>7, <1>8, <1>9, OneQuery

LEMMA RemoteAnsweredQuery == ASSUME ServerInv, TextInv, QueryInv, RemoteAnswered PROVE QueryInv'
  <1> SUFFICES ASSUME NEW h, h = Asker, NEW q, q = Calmed, NEW hits, hits = Hits, NEW description,
                      description = IF hits = Failed THEN None
                                    ELSE IF query[h].path = None THEN Anywhere(hits, Word)
                                    ELSE FromHits(query[h].path, hits)
               PROVE  QueryInv'
    OBVIOUS
  <1>1. Answered("remote") /\ Finish(h, q, description) /\ UNCHANGED <<cache, toServer>>
    BY DEF RemoteAnswered
  <1>2. /\ h \in Hovers /\ query[h].step = "remote"
        /\ UNCHANGED <<editor, last, server, state>>
        /\ toClient # <<>> /\ toClient' = Tail(toClient) /\ Head(toClient).query = h
        /\ RequestsIn(toServer, h) = {} /\ AnswersIn(toClient', h) = {}
        /\ q \in Queries /\ q.doc \in Docs /\ q.doc = query[h].doc /\ q.path = query[h].path
        /\ q.object = query[h].object
        /\ q.calm => /\ CaughtUp /\ Calm(h) /\ CalmOf(h)
                     /\ hits # Failed /\ hits = AnswerTo(query[h])
    BY <1>1, AnsweredQuery, "remote" \in {"at", "get", "remote"} DEF Asker
  <1>3. ASSUME q.calm PROVE description = Described(q.doc, q.path)
    <2>1. /\ IsOpen(q.doc) /\ hits # Failed
          /\ hits = IF q.path = None THEN ByEntityName(AllRemarks, Word) ELSE ByPath(AllRemarks, q.path)
          /\ q.path = None => FirstRemarked(Bound[q.doc], AllRemarks) = None
          /\ OfDocument(q.doc, Remarks(q.doc, last[q.doc]), q.path) = None
      BY <1>2, <1>3 DEF CalmOf, AnswerTo
    <2>2. OfDocument(q.doc, Remarks(q.doc, editor[q.doc].text), q.path) = None
      BY <1>2, <2>1 DEF TextInv, OpenInv
    <2>3. AllRemarks \in Seq(AnyRemark)
      BY AllRemarksTyped DEF ServerInv, ServerTypes
    <2>4. description = IF q.path = None THEN Anywhere(AllRemarks, Word) ELSE FromHits(q.path, AllRemarks)
      BY <1>2, <2>1, <2>3, AnywhereOfNamed, FromHitsOfMatching
    <2> QED
      BY <2>1, <2>2, <2>4 DEF Described
  <1>4. Goes(h)
    BY <1>1, <1>2, <1>3, FinishStep
  <1>5. CacheInv' /\ cache' = [e \in Docs |-> cache'[e]]
    BY <1>1, <1>2 DEF QueryInv, QueryTypes, CacheInv
  <1> QED
    BY <1>2, <1>4, <1>5, OneQuery

\* The server answers what it is asked.
LEMMA AnswersRight ==
    ASSUME ServerInv, TextInv, QueryInv, NEW h \in Hovers, Calm(h), NEW paths \in Denoted(query[h].doc)
    PROVE  AnswerFor(RequestOf(h), paths) = AnswerTo(query[h])
  <1>1. CaughtUp
    BY DEF QueryInv, StillInv
  <1>2. CalmOf(h) /\ query[h] \in Queries /\ query[h].doc \in Docs /\ query[h].step \in {"at", "get", "remote"}
    BY DEF QueryInv, QueryTypes, Calm, UnderWay, Queries, Steps
  <1>3. EveryDocument = AllRemarks /\ Denoted(query[h].doc) = {Bound[query[h].doc]}
        /\ AnnotationsOf(query[h].doc) = Remarks(query[h].doc, last[query[h].doc])
    BY <1>1, <1>2, StillAnswers DEF CalmOf
  <1>4. CASE query[h].step = "at"
    BY <1>3, <1>4 DEF RequestOf, Request, AnswerFor, AnswerTo
  <1>5. CASE query[h].step = "get"
    BY <1>3, <1>5 DEF RequestOf, Request, AnswerFor, AnswerTo
  <1>6. CASE query[h].step = "remote" /\ query[h].path = None
    BY <1>3, <1>6 DEF RequestOf, Request, AnswerFor, AnswerTo
  <1>7. CASE query[h].step = "remote" /\ query[h].path # None
    BY <1>3, <1>7 DEF RequestOf, Request, AnswerFor, AnswerTo
  <1> QED
    BY <1>2, <1>4, <1>5, <1>6, <1>7

LEMMA AnswerQuery == ASSUME ServerInv, TextInv, QueryInv, Answer PROVE QueryInv'
  <1> SUFFICES ASSUME NEW m, m = Head(toServer), NEW h, h = m.query PROVE QueryInv'
    OBVIOUS
  <1>1. /\ toServer # <<>> /\ toServer' = Tail(toServer) /\ m.kind = "request"
        /\ UNCHANGED <<editor, last, cache, query, shown, content, writes, state>>
    BY DEF Answer, client
  <1>2. PICK hits : /\ hits = Failed \/ \E paths \in Denoted(m.doc) : hits = AnswerFor(m, paths)
                    /\ toClient' = Append(toClient, [query |-> h, hits |-> hits])
    BY DEF Answer
  <1> SUFFICES ASSUME NEW a, a = [query |-> h, hits |-> hits] PROVE QueryInv'
    OBVIOUS
  <1>3. toClient' = Append(toClient, a) /\ a.query = h /\ a.hits = hits
    BY <1>2
  <1>4. (\E M : toServer \in Seq(M)) /\ (\E M : toClient \in Seq(M))
    BY DEF ServerInv, ChannelInv, QueryInv, MessageTypes
  <1>5. /\ m \in Elems(toServer) /\ Elems(toServer') \subseteq Elems(toServer)
        /\ \E M : toServer' \in Seq(M)
    BY <1>1, <1>4, ChannelTail
  <1>6. h \in Hovers
    BY <1>1, <1>5 DEF QueryInv, MessageTypes
  <1>7. \A g \in Hovers : /\ UnderWay(g)' = UnderWay(g) /\ Calm(g)' = Calm(g)
                          /\ RequestOf(g)' = RequestOf(g) /\ CalmOf(g)' = CalmOf(g)
                          /\ AnswerTo(query[g])' = AnswerTo(query[g])
    BY <1>1, SameTexts DEF UnderWay, Calm, RequestOf, CalmOf, AnswerTo, IsOpen
  <1>8. ASSUME NEW g \in Hovers PROVE MessageOf(g)'
    <2>1. MessageOf(g)
      BY DEF QueryInv
    <2>2. Once(toServer, RequestsIn(toServer, g)) /\ Once(toClient, AnswersIn(toClient, g))
      BY <2>1 DEF MessageOf
    <2>3. CASE g # h
      <3>1. RequestsIn(toServer', g) = RequestsIn(toServer, g) /\ Once(toServer', RequestsIn(toServer', g))
        <4>1. Head(toServer).query # g
          BY <2>3
        <4>2. /\ RequestsIn(Tail(toServer), g) = RequestsIn(toServer, g)
              /\ Once(Tail(toServer), RequestsIn(Tail(toServer), g))
          BY ONLY <1>1, <1>4, <2>2, <4>1, RequestsTail
        <4> QED
          BY <1>1, <4>2
      <3>2. AnswersIn(toClient', g) = AnswersIn(toClient, g) /\ Once(toClient', AnswersIn(toClient', g))
        <4>1. a.query # g
          BY <1>3, <2>3
        <4>2. /\ AnswersIn(Append(toClient, a), g) = AnswersIn(toClient, g)
              /\ Once(Append(toClient, a), AnswersIn(Append(toClient, a), g))
          BY ONLY <1>4, <2>2, <4>1, AnswersAppend
        <4> QED
          BY <1>3, <4>2
      <3> QED
        BY <1>7, <2>1, <3>1, <3>2 DEF MessageOf
    <2>4. CASE g = h
      <3>1. /\ m \in RequestsIn(toServer, g) /\ RequestsIn(toServer', g) = {}
            /\ Once(toServer', RequestsIn(toServer', g))
        <4>1. Head(toServer).kind = "request" /\ Head(toServer).query = g
          BY <1>1, <2>4
        <4>2. /\ Head(toServer) \in RequestsIn(toServer, g) /\ RequestsIn(Tail(toServer), g) = {}
              /\ Once(Tail(toServer), RequestsIn(Tail(toServer), g))
          BY ONLY <1>1, <1>4, <2>2, <4>1, RequestsTail
        <4> QED
          BY <1>1, <4>2
      <3>2. UnderWay(g) /\ m = RequestOf(g) /\ AnswersIn(toClient, g) = {}
        BY <2>1, <3>1 DEF MessageOf
      <3>3. AnswersIn(toClient', g) = {a} /\ Once(toClient', AnswersIn(toClient', g))
        <4>1. a.query = g /\ AnswersIn(toClient, g) = {}
          BY <1>3, <2>4, <3>2
        <4>2. AnswersIn(Append(toClient, a), g) = {a} /\ Once(Append(toClient, a), AnswersIn(Append(toClient, a), g))
          BY ONLY <1>4, <2>2, <4>1, AnswersAppend
        <4> QED
          BY <1>3, <4>2
      <3>4. Calm(g) => a.hits \in {Failed, AnswerTo(query[g])}
        <4>1. m.doc = query[g].doc
          BY <3>2 DEF RequestOf, Request
        <4> QED
          BY <1>2, <1>3, <3>2, <4>1, AnswersRight
      <3> QED
        BY <1>7, <3>1, <3>2, <3>3, <3>4 DEF MessageOf
    <2> QED
      BY <2>3, <2>4
  <1>9. CaughtUp => CaughtUp'
    <2>1. DOMAIN toServer = 1..Len(toServer) /\ DOMAIN toServer' = 1..Len(toServer')
      BY <1>4, <1>5, ElemsTyped
    <2>2. CaughtUp => \A n \in Elems(toServer') : n.kind = "request"
      BY <1>5, <2>1 DEF CaughtUp, Elems
    <2> QED
      BY <1>1, <2>1, <2>2 DEF CaughtUp, Elems
  <1>10. MessageTypes'
    <2>1. (\E M : toClient' \in Seq(M)) /\ Elems(toClient') = Elems(toClient) \cup {a}
      BY <1>3, <1>4, ChannelAppend
    <2> QED
      BY <1>3, <1>5, <1>6, <2>1 DEF QueryInv, MessageTypes
  <1>11. QueryTypes' /\ CacheInv'
    BY <1>1, <1>7 DEF QueryInv, QueryTypes, CacheInv
  <1>12. StillInv'
    BY <1>1, <1>7, <1>9 DEF QueryInv, StillInv
  <1>13. CalmQueriesAreRight'
    BY <1>1, SameTexts DEF QueryInv, CalmQueriesAreRight, Described
  <1> QED
    BY <1>7, <1>8, <1>10, <1>11, <1>12, <1>13 DEF QueryInv

LEMMA NextQuery == ServerInv /\ TextInv /\ QueryInv /\ [Next]_vars => QueryInv'
  <1> SUFFICES ASSUME ServerInv, TextInv, QueryInv, [Next]_vars PROVE QueryInv'
    OBVIOUS
  <1>1. CASE UNCHANGED vars
    <2>1. UNCHANGED <<editor, last, cache, query, shown, toServer, toClient, writes, state>>
      BY <1>1 DEF vars, client, server
    <2>2. \A h \in Hovers : /\ UnderWay(h)' = UnderWay(h) /\ Calm(h)' = Calm(h)
                            /\ CalmOf(h)' = CalmOf(h) /\ MessageOf(h)' = MessageOf(h)
      BY <2>1, SameTexts DEF UnderWay, Calm, CalmOf, IsOpen, MessageOf, RequestOf, AnswerTo
    <2>3. CalmQueriesAreRight'
      BY <2>1, SameTexts DEF QueryInv, CalmQueriesAreRight, Described
    <2> QED
      BY <2>1, <2>2, <2>3 DEF QueryInv, QueryTypes, StillInv, CaughtUp, MessageTypes, CacheInv
  <1>2. CASE \E d \in Docs : Delete(d) \/ Parse(d)
    BY <1>2, DeleteQuery, LateQuery
  <1>3. CASE \/ \E d \in Opened, n \in Texts : Open(d, n)
             \/ \E d \in Opened : Edit(d) \/ Close(d)
    BY <1>3, OpenQuery, EditQuery, CloseQuery
  <1>4. CASE Answer
    BY <1>4, AnswerQuery
  <1>5. CASE Notified \/ Update \/ EndParsing
    BY <1>5, LateQuery
  <1>6. CASE \E h \in Hovers, d \in Opened, path \in (Paths \cup {None}) : Ask(h, d, path)
    BY <1>6, AskQuery
  <1>7. CASE AtAnswered \/ IndexAnswered \/ RemoteAnswered
    BY <1>7, AtAnsweredQuery, IndexAnsweredQuery, RemoteAnsweredQuery
  <1> QED
    BY <1>1, <1>2, <1>3, <1>4, <1>5, <1>6, <1>7 DEF Next

LEMMA QueryInvariance == Spec => [](TextInv /\ QueryInv)
  BY InitText, NextText, InitQuery, NextQuery, ServerInvariance, PTL DEF Spec

\* Whatever the queries, caches, requests and texts, and however many of them: a
\* query that was asked of a server that had caught up, and that no change, no
\* failure and no entry of another text disturbed, shows the description that
\* the current texts give the word or the path - read from the cache, taken from
\* the answer of the server or parsed in the client.
THEOREM CalmAnswersAreRight == Spec => []CalmQueriesAreRight
  <1>1. QueryInv => CalmQueriesAreRight
    BY DEF QueryInv
  <1> QED
    BY <1>1, QueryInvariance, PTL

=============================================================================

------------------------ MODULE MathPlayground_proofs ------------------------
(***************************************************************************)
(* What the AsciiMath playground guarantees for any texts and any number   *)
(* of edits, panels and renders.                                           *)
(***************************************************************************)
EXTENDS MathPlayground, DataLemmas, TLAPS

-----------------------------------------------------------------------------
(* The values of the variables.                                            *)

Exprs == Seq(Tokens)
Results == [ok : BOOLEAN, of : Exprs]

HostMessages ==
    [kind : {"renderMath"}, id : Nat, expr : Exprs]
        \cup {Log}
        \cup [kind : {"insert"}, text : Exprs, fits : BOOLEAN]
ViewMessages ==
    [kind : {"setSource"}, text : Texts]
        \cup [kind : {"mathRendered"}, id : Nat, result : Results]

Jobs ==
    {NoJob} \cup [kind : {"single", "mixed"}, raw : Texts, first : Nat, exprs : Seq(Exprs),
                  got : UNION {[D -> Results] : D \in SUBSET Nat}]

ValuesInv ==
    /\ TypeOK
    /\ acts \in Nat
    /\ toHost \in Seq(HostMessages)
    /\ toView \in Seq(ViewMessages)
    /\ job \in Jobs
    /\ render \in Seq([panel : Nat, id : Nat, expr : Exprs])
    /\ answer \in [Renders -> {<<>>, <<"mathml">>, <<"error">>}]

-----------------------------------------------------------------------------
(* The invariant.                                                          *)

\* A page that is closed, or whose script has not run, has nothing of its own.
PageInv ==
    /\ panel = 0 => ~started /\ toView = <<>>
    /\ ~started => generation = 0 /\ nextId = 1 /\ toHost = <<>> /\ ~timer

\* The expression of the latest job that an id stands for.
ExprOf(id) == job.exprs[id - job.first + 1]
IdsOfJob == job.first..(nextId - 1)

\* The latest generation has a job, with the last ids that were given.
JobInv ==
    /\ job.kind = "none" <=> generation = 0
    /\ generation = 0 => nextId = 1 /\ status # "rendering"
    /\ job.kind # "none" =>
          /\ job.kind = IF IsSingle(job.raw) THEN "single" ELSE "mixed"
          /\ job.exprs = Expressions(job.raw)
          /\ job.first >= 1
          /\ job.first + Len(job.exprs) = nextId

\* Ids in flight for the latest generation are its own; of a mixed job each id
\* is in flight or answered.
InflightInv ==
    /\ \A id \in DOMAIN inflight : inflight[id] = generation => id \in IdsOfJob
    /\ job.kind = "mixed" =>
          \A id \in IdsOfJob : \/ id \in DOMAIN job.got
                               \/ id \in DOMAIN inflight /\ inflight[id] = generation

\* The expression is that of the id, if the id is one of the latest job.
OfJob(id, expr) == id \in 1..(nextId - 1) /\ (id >= job.first => expr = ExprOf(id))

\* The expression was rendered for the panel.
Rendered(expr) ==
    \E r \in asked : render[r].panel = panel /\ render[r].expr = expr /\ answer[r] = <<"mathml">>

IsRendered(result) == result.ok => Rendered(result.of)

\* What is asked, being rendered, answered and collected is of the latest job
\* where the id is; what is marked as rendered was.
HostInv == \A m \in Elems(toHost) : m.kind = "renderMath" => OfJob(m.id, m.expr)
PanelsSoFar == 1..opened
RenderInv ==
    /\ \A r \in asked : /\ render[r].panel \in PanelsSoFar
                        /\ render[r].panel = panel => OfJob(render[r].id, render[r].expr)
    /\ \A r \in Renders \ asked : answer[r] = <<>>
    /\ asked \subseteq Renders
ViewInv ==
    \A m \in Elems(toView) : m.kind = "mathRendered" => OfJob(m.id, m.result.of) /\ IsRendered(m.result)
GotInv ==
    \A id \in DOMAIN job.got : /\ id \in IdsOfJob
                               /\ job.got[id].of = ExprOf(id)
                               /\ IsRendered(job.got[id])

\* WaitsForWhatComes, with the messages as sets.
Coming(id) ==
    \/ \E m \in Elems(toHost) : m.kind = "renderMath" /\ m.id = id
    \/ \E r \in asked : render[r].panel = panel /\ render[r].id = id /\ answer[r] = <<>>
    \/ \E m \in Elems(toView) : m.kind = "mathRendered" /\ m.id = id
    \/ ExprOf(id) = <<>>
WaitInv ==
    /\ status = "rendering" => \E id \in DOMAIN inflight : inflight[id] = generation
    /\ \A id \in DOMAIN inflight : inflight[id] = generation => Coming(id)

IInv ==
    /\ ValuesInv
    /\ PageInv
    /\ JobInv
    /\ InflightInv
    /\ HostInv
    /\ RenderInv
    /\ ViewInv
    /\ GotInv
    /\ WaitInv

-----------------------------------------------------------------------------
(* The expressions of a text.                                              *)

\* FindSegments returns a sequence of expressions, for every text: what it does
\* at a token depends on what it does further on only.  First a function that
\* does the same at the last k tokens is shown to exist for every k, which makes
\* the recursive definition one; then its values are typed in the same order.
LEMMA SegmentsTyped ==
    ASSUME NEW t \in Seq(Tokens)
    PROVE  FindSegments(t) \in Seq(Exprs)
  <1> DEFINE N == Len(t)
             D == 1..(N + 1)
             Closed(i) == t[i] \in Wrappers /\ Closings(t, i) # {}
             Body(g, i) == IF i > N THEN <<>>
                           ELSE IF Closed(i)
                           THEN <<SubSeq(t, i + 1, Least(Closings(t, i)) - 1)>>
                                   \o g[Least(Closings(t, i)) + 1]
                           ELSE g[i + 1]
             F == CHOOSE g : g = [i \in D |-> Body(g, i)]
  <1>1. N \in Nat
    OBVIOUS
  <1>2. ASSUME NEW i \in D, ~(i > N), Closed(i)
        PROVE  /\ Least(Closings(t, i)) \in (i + 1)..N
               /\ SubSeq(t, i + 1, Least(Closings(t, i)) - 1) \in Exprs
    <2>1. Closings(t, i) \in SUBSET ((i + 1)..N) /\ Closings(t, i) \in SUBSET Nat
      BY <1>1 DEF Closings
    <2>2. Least(Closings(t, i)) \in Closings(t, i)
      BY <1>2, <2>1, LeastNatural DEF Least
    <2>3. Least(Closings(t, i)) \in (i + 1)..N
      BY <2>1, <2>2
    <2> HIDE DEF N
    <2>4. i + 1 \in 1..(N + 1) /\ Least(Closings(t, i)) - 1 \in 0..N
      BY <1>1, <2>3
    <2> QED
      BY <2>3, <2>4, SubSeqProperties DEF Exprs, N
  <1>3. FindSegments(t) = F[1]
    BY DEF FindSegments
  <1>4. ASSUME NEW g, NEW h, NEW i \in D, \A j \in D : j > i => g[j] = h[j]
        PROVE  Body(g, i) = Body(h, i)
    <2>1. CASE i > N
      BY <2>1
    <2>2. CASE ~(i > N) /\ Closed(i)
      <3>1. Least(Closings(t, i)) + 1 \in D /\ Least(Closings(t, i)) + 1 > i
        <4> HIDE DEF N, Closed
        <4> QED
          BY <1>1, <1>2, <2>2
      <3>2. g[Least(Closings(t, i)) + 1] = h[Least(Closings(t, i)) + 1]
        BY <1>4, <3>1
      <3> QED
        BY <2>2, <3>2
    <2>3. CASE ~(i > N) /\ ~Closed(i)
      <3>1. i + 1 \in D /\ i + 1 > i
        <4> HIDE DEF N, Closed
        <4> QED
          BY <1>1, <2>3
      <3>2. g[i + 1] = h[i + 1]
        BY <1>4, <3>1
      <3> QED
        BY <2>3, <3>2
    <2> QED
      BY <2>1, <2>2, <2>3
  <1>5. ASSUME NEW g, NEW i \in D, \A j \in D : j > i => g[j] \in Seq(Exprs)
        PROVE  Body(g, i) \in Seq(Exprs)
    <2>1. CASE i > N
      BY <2>1
    <2>2. CASE ~(i > N) /\ Closed(i)
      <3>1. Least(Closings(t, i)) + 1 \in D /\ Least(Closings(t, i)) + 1 > i
        <4> HIDE DEF N, Closed
        <4> QED
          BY <1>1, <1>2, <2>2
      <3>2. /\ g[Least(Closings(t, i)) + 1] \in Seq(Exprs)
            /\ <<SubSeq(t, i + 1, Least(Closings(t, i)) - 1)>> \in Seq(Exprs)
        BY <1>2, <1>5, <2>2, <3>1
      <3>3. \A r \in Seq(Exprs), s \in Seq(Exprs) : r \o s \in Seq(Exprs)
        OBVIOUS
      <3> QED
        BY <2>2, <3>2, <3>3
    <2>3. CASE ~(i > N) /\ ~Closed(i)
      <3>1. i + 1 \in D /\ i + 1 > i
        <4> HIDE DEF N, Closed
        <4> QED
          BY <1>1, <2>3
      <3> QED
        BY <1>5, <2>3, <3>1
    <2> QED
      BY <2>1, <2>2, <2>3
  <1> HIDE DEF Body, N
  <1>6. \E g : g = [i \in D |-> Body(g, i)]
    <2> DEFINE UpTo(g, k) == /\ g = [i \in D |-> g[i]]
                             /\ \A i \in D : i > N + 1 - k => g[i] = Body(g, i)
               Defined == {k \in Nat : \E g : UpTo(g, k)}
    <2>1. 0 \in Defined
      <3>1. [i \in D |-> <<>>] = [i \in D |-> [j \in D |-> <<>>][i]]
        OBVIOUS
      <3>2. \A i \in D : ~(i > N + 1 - 0)
        BY <1>1
      <3> QED
        BY <3>1, <3>2
    <2>2. ASSUME NEW k \in Nat, k \in Defined PROVE k + 1 \in Defined
      <3>1. PICK g : g = [i \in D |-> g[i]] /\ \A i \in D : i > N + 1 - k => g[i] = Body(g, i)
        BY <2>2
      <3> DEFINE h == [i \in D |-> IF i = N + 1 - k THEN Body(g, i) ELSE g[i]]
      <3>2. h = [i \in D |-> h[i]]
        OBVIOUS
      <3>3. ASSUME NEW i \in D, i > N + 1 - (k + 1) PROVE h[i] = Body(h, i)
        <4>1. \A j \in D : j > i => h[j] = g[j]
          BY <1>1, <3>3
        <4>2. Body(h, i) = Body(g, i)
          <5> HIDE DEF h
          <5> QED
            BY <1>4, <4>1
        <4>3. h[i] = Body(g, i)
          <5>1. CASE i = N + 1 - k
            BY <5>1
          <5>2. CASE i # N + 1 - k
            <6>1. i > N + 1 - k
              BY <1>1, <3>3, <5>2
            <6>2. h[i] = g[i]
              BY <5>2
            <6> QED
              BY <3>1, <6>1, <6>2
          <5> QED
            BY <5>1, <5>2
        <4> QED
          BY <4>2, <4>3
      <3>4. UpTo(h, k + 1)
        BY <3>2, <3>3
      <3> QED
        <4> HIDE DEF h, UpTo
        <4> QED
          BY <3>4
    <2>3. N + 1 \in Defined
      <3> HIDE DEF Defined
      <3> QED
        BY <1>1, <2>1, <2>2, SetInduction
    <2>4. PICK g : g = [i \in D |-> g[i]] /\ \A i \in D : i > N + 1 - (N + 1) => g[i] = Body(g, i)
      BY <2>3
    <2>5. \A i \in D : g[i] = Body(g, i)
      BY <1>1, <2>4
    <2> QED
      BY <2>4, <2>5
  <1>7. F = [i \in D |-> Body(F, i)]
    <2> DEFINE Fixed(g) == g = [i \in D |-> Body(g, i)]
    <2>1. \E g : Fixed(g)
      BY <1>6
    <2>2. F = CHOOSE g : Fixed(g)
      OBVIOUS
    <2> HIDE DEF Fixed, F
    <2>3. Fixed(F)
      BY <2>1, <2>2, Zenon
    <2> QED
      BY <2>3 DEF Fixed
  <1> HIDE DEF F
  <1>8. \A i \in D : F[i] \in Seq(Exprs)
    <2> DEFINE Typed == {k \in Nat : \A i \in D : i > N + 1 - k => F[i] \in Seq(Exprs)}
    <2>1. 0 \in Typed
      BY <1>1
    <2>2. ASSUME NEW k \in Nat, k \in Typed PROVE k + 1 \in Typed
      <3> SUFFICES ASSUME NEW i \in D, i > N + 1 - (k + 1) PROVE F[i] \in Seq(Exprs)
        OBVIOUS
      <3>1. \A j \in D : j > i => F[j] \in Seq(Exprs)
        BY <1>1, <2>2
      <3>2. F[i] = Body(F, i)
        BY <1>7
      <3> QED
        BY <1>5, <3>1, <3>2
    <2>3. N + 1 \in Typed
      <3> HIDE DEF Typed
      <3> QED
        BY <1>1, <2>1, <2>2, SetInduction
    <2> QED
      BY <1>1, <2>3
  <1> QED
    BY <1>1, <1>3, <1>8

\* A text is one expression, or has at least one segment; what is inserted of it
\* is a sequence of tokens.
LEMMA ExpressionsTyped ==
    ASSUME NEW text \in Texts
    PROVE  /\ Expressions(text) \in Seq(Exprs)
           /\ Len(Expressions(text)) \in Nat \ {0}
           /\ IsSingle(text) => Expressions(text) = <<text.tokens>>
           /\ Payload(text) \in Exprs
  <1>1. text.tokens \in Exprs
    BY PlaygroundAssumption DEF Exprs
  <1>2. SegmentsOf[text] \in Seq(Exprs)
    BY <1>1, SegmentsTyped DEF SegmentsOf, Exprs
  <1>3. SegmentsOf[text] # <<>> => Len(SegmentsOf[text]) \in Nat \ {0}
    BY <1>2, EmptySeq
  <1>4. <<text.tokens>> \in Seq(Exprs) /\ Len(<<text.tokens>>) = 1
    BY <1>1
  <1>5. Payload(text) \in Exprs
    <2>1. <<"stem:[">> \in Seq(Tokens) /\ <<"]">> \in Seq(Tokens)
      <3>1. "stem:[" \in Tokens /\ "]" \in Tokens
        BY PlaygroundAssumption DEF Opening, Wrappers
      <3>2. \A x \in Tokens : <<x>> \in Seq(Tokens)
        OBVIOUS
      <3> QED
        BY <3>1, <3>2
    <2>2. \A q, r \in Seq(Tokens) : q \o r \in Seq(Tokens)
      OBVIOUS
    <2> QED
      BY <1>1, <2>1, <2>2 DEF Payload, Exprs
  <1> QED
    BY <1>2, <1>3, <1>4, <1>5 DEF Expressions, IsSingle

-----------------------------------------------------------------------------
(* Steps that move messages only.                                          *)

\* The numbers of the state are numbers.
LEMMA NumbersTyped ==
    ASSUME ValuesInv
    PROVE  /\ job.first \in Nat /\ nextId \in Nat /\ generation \in Nat
           /\ opened \in Nat /\ acts \in Nat /\ panel \in Nat
           /\ opened \in 0..acts /\ opened \in 0..(acts + 1) /\ opened + 1 \in 0..(acts + 1)
           /\ \A id \in IdsOfJob : id \in Nat /\ id >= job.first /\ id < nextId
  <1>1. job.first \in Nat
    <2>1. CASE job = NoJob
      BY <2>1 DEF NoJob
    <2>2. CASE job # NoJob
      BY <2>2 DEF ValuesInv, Jobs
    <2> QED
      BY <2>1, <2>2
  <1>2. nextId \in Nat /\ generation \in Nat /\ acts \in Nat /\ opened \in 0..acts
        /\ panel \in {0, opened}
    BY DEF ValuesInv, TypeOK
  <1> QED
    BY <1>1, <1>2 DEF IdsOfJob

\* What the invariant needs of a step that takes messages off the queues or puts
\* there such as carry neither a render nor its answer.
LEMMA QueuesOnly ==
    ASSUME IInv, ValuesInv', PageInv',
           UNCHANGED <<panel, opened, started, output, status, generation, nextId, job, inflight,
                       render, asked, answer>>,
           \A m \in Elems(toHost') : m.kind = "renderMath" => m \in Elems(toHost),
           \A m \in Elems(toView') : m.kind = "mathRendered" => m \in Elems(toView),
           \A m \in Elems(toHost) :
                m.kind = "renderMath" => m \in Elems(toHost') \/ m.expr = <<>>,
           \A m \in Elems(toView) : m.kind = "mathRendered" => m \in Elems(toView')
    PROVE  IInv'
  <1> USE DEF IInv
  <1>1. JobInv' /\ InflightInv' /\ GotInv'
    BY DEF JobInv, InflightInv, IdsOfJob, GotInv, ExprOf, IsRendered, Rendered
  <1>2. HostInv' /\ RenderInv' /\ ViewInv'
    BY DEF HostInv, RenderInv, PanelsSoFar, ViewInv, OfJob, ExprOf, IsRendered, Rendered
  <1>3. ASSUME NEW id \in DOMAIN inflight, inflight[id] = generation PROVE Coming(id)'
    <2>1. Coming(id) /\ id \in IdsOfJob /\ id >= job.first
      BY <1>3, NumbersTyped DEF WaitInv, InflightInv
    <2>2. ASSUME NEW m \in Elems(toHost), m.kind = "renderMath", m.id = id PROVE Coming(id)'
      <3>1. CASE m \in Elems(toHost')
        BY <2>2, <3>1 DEF Coming
      <3>2. CASE m.expr = <<>>
        BY <2>1, <2>2, <3>2 DEF Coming, HostInv, OfJob, ExprOf
      <3> QED
        BY <2>2, <3>1, <3>2
    <2> QED
      BY <2>1, <2>2 DEF Coming, ExprOf
  <1>4. WaitInv'
    BY <1>3 DEF WaitInv
  <1> QED
    BY <1>1, <1>2, <1>4

\* The user types.
LEMMA TypeStep == ASSUME IInv, NEW text \in Texts, Type(text) PROVE IInv'
  <1>1. /\ panel # 0 /\ acts' = acts + 1 /\ source' = text /\ timer' = started
        /\ UNCHANGED <<panel, opened, seed, started, output, status, generation, nextId, job,
                       inflight, toHost, toView, render, asked, answer, inserted>>
    BY DEF Type, service
  <1>2. TypeOK'
    BY <1>1, NumbersTyped DEF IInv, ValuesInv, TypeOK
  <1>3. ValuesInv' /\ PageInv'
    BY <1>1, <1>2 DEF IInv, ValuesInv, PageInv
  <1> QED
    BY <1>1, <1>3, QueuesOnly

\* A text is sent to the open panel.
LEMMA SendToPanelStep == ASSUME IInv, NEW text \in Texts, SendToPanel(text) PROVE IInv'
  <1> DEFINE m == [kind |-> "setSource", text |-> text]
  <1>1. /\ panel # 0 /\ acts' = acts + 1 /\ toView' = Append(toView, m)
        /\ UNCHANGED <<panel, opened, seed, started, source, timer, output, status, generation,
                       nextId, job, inflight, toHost, render, asked, answer, inserted>>
    BY DEF SendToPanel, page, service
  <1>2. m \in ViewMessages /\ m.kind # "mathRendered"
    BY DEF ViewMessages
  <1>3. toView' \in Seq(ViewMessages) /\ Elems(toView') = Elems(toView) \cup {m}
    BY <1>1, <1>2, ElemsOfAppend DEF IInv, ValuesInv
  <1>4. TypeOK'
    BY <1>1, NumbersTyped DEF IInv, ValuesInv, TypeOK
  <1>5. ValuesInv' /\ PageInv'
    BY <1>1, <1>3, <1>4 DEF IInv, ValuesInv, PageInv
  <1> QED
    BY <1>1, <1>2, <1>3, <1>5, QueuesOnly

\* The web view discards a message that comes before the script listens.
LEMMA MessageMissedStep == ASSUME IInv, MessageMissed PROVE IInv'
  <1>1. /\ ~started /\ toView # <<>> /\ toView' = Tail(toView)
        /\ UNCHANGED <<panel, opened, seed, started, source, timer, output, status, generation,
                       nextId, job, inflight, toHost, render, asked, answer, inserted, acts>>
    BY DEF MessageMissed, page, service, user
  <1>2. toView' \in Seq(ViewMessages) /\ Elems(toView) = Elems(toView') \cup {Head(toView)}
    BY <1>1, ElemsOfTail DEF IInv, ValuesInv
  <1>3. Head(toView).kind # "mathRendered"
    <2>1. nextId = 1
      BY <1>1 DEF IInv, PageInv
    <2> QED
      BY <1>2, <2>1 DEF IInv, ViewInv, OfJob
  <1>4. TypeOK'
    BY <1>1, NumbersTyped DEF IInv, ValuesInv, TypeOK
  <1>5. ValuesInv' /\ PageInv'
    BY <1>1, <1>2, <1>4 DEF IInv, ValuesInv, PageInv
  <1> QED
    BY <1>1, <1>2, <1>3, <1>5, QueuesOnly

\* The button posts what it inserts, or a warning.
LEMMA InsertStep == ASSUME IInv, Insert PROVE IInv'
  <1> DEFINE m == IF source.size \in {"long", "huge"} THEN Log
                  ELSE [kind |-> "insert", text |-> Payload(source),
                        fits |-> ~(source.size = "edge" /\ IsSingle(source))]
  <1>1. /\ started /\ acts' = acts + 1 /\ toHost' = Append(toHost, m)
        /\ UNCHANGED <<panel, opened, seed, started, source, timer, output, status, generation,
                       nextId, job, inflight, toView, render, asked, answer, inserted>>
    BY DEF Insert, page, service
  <1>2. m \in HostMessages /\ m.kind # "renderMath"
    <2>1. Payload(source) \in Exprs
      BY ExpressionsTyped DEF IInv, ValuesInv, TypeOK
    <2> QED
      BY <2>1 DEF HostMessages, Log
  <1> HIDE DEF m
  <1>3. toHost' \in Seq(HostMessages) /\ Elems(toHost') = Elems(toHost) \cup {m}
    BY <1>1, <1>2, ElemsOfAppend DEF IInv, ValuesInv
  <1>4. TypeOK'
    BY <1>1, NumbersTyped DEF IInv, ValuesInv, TypeOK
  <1>5. ValuesInv' /\ PageInv'
    BY <1>1, <1>3, <1>4 DEF IInv, ValuesInv, PageInv
  <1> QED
    BY <1>1, <1>2, <1>3, <1>5, QueuesOnly

\* The host takes a message that is not a render, or refuses one.
LEMMA OtherMessageSteps ==
    ASSUME IInv, LogReceived \/ InsertReceived \/ MessageRefused
    PROVE  IInv'
  <1>1. /\ toHost # <<>> /\ toHost' = Tail(toHost)
        /\ UNCHANGED <<panel, opened, started, source, timer, output, status, generation, nextId,
                       job, inflight, render, asked, answer, acts>>
    BY DEF LogReceived, InsertReceived, MessageRefused, Taken, page, service, user
  <1>2. Posted \in HostMessages /\ toHost' \in Seq(HostMessages)
        /\ Elems(toHost) = Elems(toHost') \cup {Posted}
    BY <1>1, ElemsOfTail DEF IInv, ValuesInv, Posted
  <1>3. Posted.kind = "renderMath" => Posted.expr = <<>>
    BY DEF LogReceived, InsertReceived, MessageRefused, Accepts
  <1>4. /\ seed' \in {seed, None} /\ toView' \in Seq(ViewMessages)
        /\ \A m \in Elems(toView') : m.kind = "mathRendered" => m \in Elems(toView)
        /\ Elems(toView) \subseteq Elems(toView')
        /\ panel = 0 => toView' = <<>>
    <2>1. CASE UNCHANGED <<seed, toView>>
      BY <2>1 DEF IInv, ValuesInv, PageInv
    <2>2. CASE LogReceived /\ seed # None
      <3> DEFINE m == [kind |-> "setSource", text |-> seed]
      <3>1. seed' = None /\ toView' = Append(toView, m)
        BY <2>2 DEF LogReceived
      <3>2. m \in ViewMessages /\ m.kind # "mathRendered"
        BY <2>2 DEF ViewMessages, IInv, ValuesInv, TypeOK
      <3>3. toView' \in Seq(ViewMessages) /\ Elems(toView') = Elems(toView) \cup {m}
        BY <3>1, <3>2, ElemsOfAppend DEF IInv, ValuesInv
      <3>4. panel # 0
        BY <1>1 DEF IInv, PageInv
      <3> QED
        BY <3>1, <3>2, <3>3, <3>4
    <2>3. CASE LogReceived /\ seed = None
      BY <2>3 DEF LogReceived, IInv, ValuesInv, PageInv
    <2> QED
      BY <2>1, <2>2, <2>3 DEF InsertReceived, MessageRefused
  <1>5. TypeOK'
    BY <1>1, <1>4 DEF IInv, ValuesInv, TypeOK
  <1>6. ValuesInv' /\ PageInv'
    BY <1>1, <1>2, <1>4, <1>5 DEF IInv, ValuesInv, PageInv
  <1> QED
    BY <1>1, <1>2, <1>3, <1>4, <1>6, QueuesOnly

-----------------------------------------------------------------------------
(* Steps of panels.                                                        *)

\* A page without a job has collected nothing.
LEMMA NoJobIsEmpty ==
    /\ NoJob \in Jobs /\ NoJob.kind = "none" /\ DOMAIN NoJob.got = {}
    /\ \A j \in Jobs : j.kind = "none" => j = NoJob
  BY DEF NoJob, Jobs

\* A panel is opened: no render was asked for it.
LEMMA OpenPanelStep == ASSUME IInv, NEW text \in Texts \cup {None}, OpenPanel(text) PROVE IInv'
  <1> USE DEF IInv
  <1>1. /\ panel = 0 /\ acts' = acts + 1 /\ panel' = opened + 1 /\ opened' = opened + 1
        /\ seed' = text
        /\ UNCHANGED <<started, source, timer, output, status, generation, nextId, job, inflight,
                       toHost, toView, render, asked, answer, inserted>>
    BY DEF OpenPanel, page, service
  <1>2. /\ ~started /\ toView = <<>> /\ toHost = <<>> /\ generation = 0 /\ nextId = 1
        /\ job = NoJob /\ DOMAIN job.got = {} /\ DOMAIN inflight = {}
    <2>1. /\ ~started /\ toView = <<>> /\ toHost = <<>> /\ generation = 0 /\ nextId = 1
          /\ job.kind = "none" /\ job \in Jobs
      BY <1>1 DEF PageInv, JobInv, ValuesInv
    <2>2. DOMAIN inflight \subseteq 1..0
      <3>1. DOMAIN inflight \subseteq 1..(nextId - 1)
        BY DEF ValuesInv, TypeOK
      <3> QED
        BY <2>1, <3>1
    <2>3. job = NoJob /\ DOMAIN job.got = {}
      BY <2>1, NoJobIsEmpty
    <2>4. DOMAIN inflight = {}
      <3>1. 1..0 = {}
        OBVIOUS
      <3> QED
        BY <2>2, <3>1
    <2> QED
      BY <2>1, <2>3, <2>4
  <1>3. TypeOK'
    <2>1. opened' \in 0..acts'
      BY <1>1, NumbersTyped
    <2> QED
      BY <1>1, <2>1 DEF ValuesInv, TypeOK
  <1>4. ValuesInv' /\ PageInv'
    BY <1>1, <1>2, <1>3 DEF ValuesInv, PageInv
  <1>5. JobInv' /\ InflightInv'
    BY <1>1 DEF JobInv, InflightInv, IdsOfJob
  <1>6. HostInv' /\ ViewInv' /\ GotInv'
    BY <1>1, <1>2, ElemsTyped DEF HostInv, ViewInv, GotInv
  <1>7. RenderInv'
    <2>1. ASSUME NEW r \in asked PROVE render[r].panel \in PanelsSoFar' /\ render[r].panel # panel'
      <3>1. render[r].panel \in 1..opened /\ opened \in Nat
        BY NumbersTyped DEF RenderInv, PanelsSoFar
      <3> QED
        BY <1>1, <3>1 DEF PanelsSoFar
    <2> QED
      BY <1>1, <2>1 DEF RenderInv
  <1>8. WaitInv'
    BY <1>1, <1>2 DEF WaitInv, JobInv
  <1> QED
    BY <1>4, <1>5, <1>6, <1>7, <1>8

\* A panel is closed: what is being rendered for it is of no panel that is open.
LEMMA ClosePanelStep == ASSUME IInv, ClosePanel PROVE IInv'
  <1> USE DEF IInv
  <1>1. /\ panel' = 0 /\ seed' = None /\ started' = FALSE /\ source' = Placeholder
        /\ timer' = FALSE /\ status' = "" /\ generation' = 0 /\ nextId' = 1 /\ job' = NoJob
        /\ inflight' = <<>> /\ toHost' = <<>> /\ toView' = <<>>
        /\ UNCHANGED <<opened, render, asked, answer, inserted, acts>>
    BY DEF ClosePanel, service, user
  <1>2. DOMAIN inflight' = {} /\ Elems(toHost') = {} /\ Elems(toView') = {}
    BY <1>1, ElemsTyped
  <1>3. TypeOK'
    <2>1. Placeholder \in Texts
      BY PlaygroundAssumption
    <2> QED
      BY <1>1, <1>2, <2>1 DEF ValuesInv, TypeOK
  <1>4. ValuesInv' /\ PageInv'
    <2>1. toHost' \in Seq(HostMessages) /\ toView' \in Seq(ViewMessages)
      BY <1>1, ElemsTyped
    <2> QED
      BY <1>1, <1>3, <2>1, NoJobIsEmpty DEF ValuesInv, PageInv
  <1>5. JobInv' /\ InflightInv' /\ HostInv' /\ ViewInv' /\ GotInv'
    BY <1>1, <1>2, NoJobIsEmpty DEF JobInv, InflightInv, HostInv, ViewInv, GotInv
  <1>6. RenderInv'
    <2>1. ASSUME NEW r \in asked PROVE render[r].panel # panel'
      <3>1. render[r].panel \in 1..opened /\ opened \in Nat
        BY NumbersTyped DEF RenderInv, PanelsSoFar
      <3>2. render[r].panel # 0
        BY <3>1
      <3> QED
        BY <1>1, <3>2
    <2> QED
      BY <1>1, <2>1 DEF RenderInv, PanelsSoFar
  <1>7. WaitInv'
    BY <1>1, <1>2 DEF WaitInv
  <1> QED
    BY <1>4, <1>5, <1>6, <1>7

-----------------------------------------------------------------------------
(* Generations.                                                            *)

\* What the page posts for a text: one request for each expression, in order.
LEMMA RequestsOf ==
    ASSUME NEW es \in Seq(Exprs), NEW first \in Nat
    PROVE  LET posts == [i \in DOMAIN es |-> RenderMath(first + i - 1, es[i])]
           IN  /\ posts \in Seq(HostMessages)
               /\ Elems(posts) = {RenderMath(first + i - 1, es[i]) : i \in 1..Len(es)}
  <1> DEFINE posts == [i \in DOMAIN es |-> RenderMath(first + i - 1, es[i])]
  <1>1. Len(es) \in Nat /\ DOMAIN es = 1..Len(es) /\ \A i \in 1..Len(es) : es[i] \in Exprs
    OBVIOUS
  <1>2. ASSUME NEW i \in 1..Len(es) PROVE RenderMath(first + i - 1, es[i]) \in HostMessages
    <2>1. first + i - 1 \in Nat
      BY <1>1
    <2> QED
      BY <1>1, <2>1 DEF RenderMath, HostMessages
  <1>3. posts \in Seq(HostMessages) /\ Len(posts) = Len(es)
    BY <1>1, <1>2
  <1>4. \A i \in 1..Len(es) : posts[i] = RenderMath(first + i - 1, es[i])
    BY <1>1
  <1> HIDE DEF posts
  <1>5. Elems(posts) = {RenderMath(first + i - 1, es[i]) : i \in 1..Len(es)}
    BY <1>3, <1>4 DEF Elems
  <1> QED
    BY <1>3, <1>5 DEF posts

\* requestRender starts a generation of its own, or shows a notice and leaves the
\* latest one alone.
LEMMA RequestRenderStep ==
    ASSUME IInv, NEW text \in Texts, NEW after \in {<<>>, <<Log>>}, RequestRender(text, after),
           panel # 0, started', source' \in Texts, timer' \in BOOLEAN,
           toView' \in Seq(ViewMessages), Elems(toView') \subseteq Elems(toView),
           \A m \in Elems(toView) : m.kind = "mathRendered" => m \in Elems(toView'),
           UNCHANGED <<panel, opened, seed, render, asked, answer, acts>>
    PROVE  IInv'
  <1> USE DEF IInv
  <1>1. after \in Seq(HostMessages) /\ \A m \in Elems(after) : m.kind # "renderMath"
    <2>1. CASE after = <<>>
      BY <2>1, ElemsTyped
    <2>2. CASE after = <<Log>>
      <3>1. Log \in HostMessages /\ Log.kind # "renderMath"
        BY DEF HostMessages, Log
      <3>2. after \in Seq(HostMessages) /\ Len(after) = 1 /\ after[1] = Log
        BY <2>2, <3>1
      <3> QED
        BY <3>1, <3>2 DEF Elems
    <2> QED
      BY <2>1, <2>2
  <1>2. started' = TRUE
    BY DEF RequestRender
  <1>3. CASE text.size \in {"empty", "huge"}
    <2>1. /\ status' \in {"", "rejected"} /\ toHost' = toHost \o after
          /\ UNCHANGED <<generation, nextId, job, inflight>>
      BY <1>3, Zenon DEF RequestRender
    <2>2. toHost' \in Seq(HostMessages) /\ Elems(toHost') = Elems(toHost) \cup Elems(after)
      <3>1. toHost \in Seq(HostMessages)
        BY DEF ValuesInv
      <3>2. /\ toHost \o after \in Seq(HostMessages)
            /\ Elems(toHost \o after) = Elems(toHost) \cup Elems(after)
        BY ONLY <1>1, <3>1, ElemsOfConcat
      <3> QED
        BY <2>1, <3>2
    <2>3. TypeOK'
      BY <1>2, <2>1 DEF ValuesInv, TypeOK
    <2>4. ValuesInv' /\ PageInv'
      BY <1>2, <2>1, <2>2, <2>3 DEF ValuesInv, PageInv
    <2>5. JobInv' /\ InflightInv' /\ GotInv'
      BY <2>1 DEF JobInv, InflightInv, IdsOfJob, GotInv, ExprOf, IsRendered, Rendered
    <2>6. HostInv' /\ RenderInv' /\ ViewInv'
      BY <1>1, <2>1, <2>2 DEF HostInv, RenderInv, PanelsSoFar, ViewInv, OfJob, ExprOf, IsRendered, Rendered
    <2>7. ASSUME NEW id \in DOMAIN inflight, inflight[id] = generation PROVE Coming(id)'
      <3>1. Coming(id)
        BY <2>7 DEF WaitInv
      <3> QED
        BY <2>1, <2>2, <3>1 DEF Coming, ExprOf
    <2>8. WaitInv'
      BY <2>1, <2>7 DEF WaitInv
    <2> QED
      BY <2>4, <2>5, <2>6, <2>8
  <1>4. CASE text.size \notin {"empty", "huge"}
    <2> DEFINE es == Expressions(text)
               n == Len(es)
               ids == nextId..(nextId + n - 1)
               posts == [i \in DOMAIN es |-> RenderMath(nextId + i - 1, es[i])]
    <2>1. es \in Seq(Exprs) /\ n \in Nat \ {0} /\ nextId \in Nat /\ generation \in Nat /\ nextId >= 1
      <3>1. nextId >= 1
        BY NumbersTyped DEF JobInv
      <3> QED
        BY <3>1, ExpressionsTyped, NumbersTyped
    <2>2. /\ generation' = generation + 1
          /\ nextId' = nextId + n
          /\ job' = [kind |-> IF IsSingle(text) THEN "single" ELSE "mixed", raw |-> text,
                     first |-> nextId, exprs |-> es, got |-> <<>>]
          /\ inflight' = [i \in DOMAIN inflight \cup ids |->
                              IF i \in ids THEN generation + 1 ELSE inflight[i]]
          /\ status' = "rendering"
          /\ toHost' = toHost \o posts \o after
      BY <1>4 DEF RequestRender
    <2>3. posts \in Seq(HostMessages)
          /\ Elems(posts) = {RenderMath(nextId + i - 1, es[i]) : i \in 1..n}
      BY <2>1, RequestsOf
    <2> HIDE DEF es, posts
    <2>4. toHost' \in Seq(HostMessages)
          /\ Elems(toHost') = Elems(toHost) \cup Elems(posts) \cup Elems(after)
      <3>1. toHost \o posts \in Seq(HostMessages)
            /\ Elems(toHost \o posts) = Elems(toHost) \cup Elems(posts)
        <4>1. toHost \in Seq(HostMessages)
          BY DEF ValuesInv
        <4> QED
          BY <2>3, <4>1, ElemsOfConcat
      <3> DEFINE both == toHost \o posts
      <3>2. toHost' = both \o after
        BY <2>2
      <3> HIDE DEF both
      <3>3. /\ both \o after \in Seq(HostMessages)
            /\ Elems(both \o after) = Elems(both) \cup Elems(after)
        <4>1. both \in Seq(HostMessages)
          BY <3>1 DEF both
        <4> QED
          BY ONLY <1>1, <4>1, ElemsOfConcat
      <3> QED
        BY <3>1, <3>2, <3>3 DEF both
    <2>5. /\ job'.first = nextId /\ job'.exprs = es /\ DOMAIN job'.got = {}
          /\ job'.raw = text /\ job'.kind = IF IsSingle(text) THEN "single" ELSE "mixed"
          /\ job' \in Jobs
      <3>1. <<>> \in [{} -> Results] /\ {} \in SUBSET Nat
        OBVIOUS
      <3> QED
        BY <2>1, <2>2, <3>1 DEF Jobs
    <2>6. /\ DOMAIN inflight' = DOMAIN inflight \cup ids
          /\ \A i \in ids : inflight'[i] = generation'
          /\ \A i \in DOMAIN inflight \ ids : inflight'[i] = inflight[i] /\ inflight'[i] # generation'
          /\ DOMAIN inflight \subseteq 1..(nextId - 1)
          /\ \A i \in DOMAIN inflight : inflight[i] \in 1..generation
      <3>1. /\ DOMAIN inflight \subseteq 1..(nextId - 1)
            /\ \A i \in DOMAIN inflight : inflight[i] \in 1..generation
        BY DEF ValuesInv, TypeOK
      <3>2. /\ DOMAIN inflight' = DOMAIN inflight \cup ids
            /\ \A i \in ids : inflight'[i] = generation'
            /\ \A i \in DOMAIN inflight \ ids : inflight'[i] = inflight[i]
        <4> HIDE DEF ids
        <4> QED
          BY <2>2
      <3>3. \A i \in DOMAIN inflight : inflight[i] # generation'
        BY <2>1, <2>2, <3>1
      <3> QED
        BY <3>1, <3>2, <3>3
    <2>7. TypeOK'
      <3>1. DOMAIN inflight' \subseteq 1..(nextId' - 1)
        BY <2>1, <2>2, <2>6
      <3>2. \A i \in DOMAIN inflight' : inflight'[i] \in 1..generation'
        BY <2>1, <2>2, <2>6
      <3>3. generation' \in Nat /\ nextId' \in Nat /\ status' = "rendering"
        BY <2>1, <2>2
      <3> HIDE DEF n, ids
      <3> QED
        BY <1>2, <3>1, <3>2, <3>3 DEF ValuesInv, TypeOK
    <2>8. ValuesInv' /\ PageInv'
      BY <1>2, <2>4, <2>5, <2>7 DEF ValuesInv, PageInv
    <2>9. JobInv'
      BY <2>1, <2>2, <2>5 DEF JobInv, es
    <2>10. IdsOfJob' = ids /\ InflightInv'
      BY <2>1, <2>2, <2>5, <2>6 DEF InflightInv, IdsOfJob
    <2>11. GotInv'
      BY <2>5 DEF GotInv
    <2>12. ASSUME NEW id, NEW expr, OfJob(id, expr) PROVE OfJob(id, expr)'
      BY <2>1, <2>2, <2>5, <2>12 DEF OfJob
    <2>13. HostInv'
      <3>1. ASSUME NEW m \in Elems(toHost'), m.kind = "renderMath" PROVE OfJob(m.id, m.expr)'
        <4>1. CASE m \in Elems(toHost)
          BY <2>12, <3>1, <4>1 DEF HostInv
        <4>2. CASE m \in Elems(posts)
          <5>1. PICK i \in 1..n : m = RenderMath(nextId + i - 1, es[i])
            BY <2>3, <4>2
          <5>2. m.id = nextId + i - 1 /\ m.expr = es[i]
            BY <5>1 DEF RenderMath
          <5>3. m.id \in 1..(nextId' - 1) /\ m.id - nextId + 1 = i
            BY <2>1, <2>2, <5>2
          <5> QED
            BY <2>5, <5>2, <5>3 DEF OfJob, ExprOf
        <4> QED
          BY <1>1, <2>4, <3>1, <4>1, <4>2
      <3> QED
        BY <3>1 DEF HostInv
    <2>14. RenderInv'
      BY <2>12 DEF RenderInv, PanelsSoFar
    <2>15. ViewInv'
      BY <2>12 DEF ViewInv, IsRendered, Rendered
    <2>16. WaitInv'
      <3>1. nextId \in ids
        BY <2>1
      <3>2. ASSUME NEW id \in DOMAIN inflight', inflight'[id] = generation' PROVE Coming(id)'
        <4>1. id \in ids
          BY <2>6, <3>2
        <4>2. id - nextId + 1 \in 1..n /\ id = nextId + (id - nextId + 1) - 1
          BY <2>1, <4>1
        <4> DEFINE m == RenderMath(id, es[id - nextId + 1])
        <4>3. m \in Elems(posts) /\ m.kind = "renderMath" /\ m.id = id
          BY <2>3, <4>2 DEF RenderMath
        <4> QED
          BY <2>4, <4>3 DEF Coming
      <3> QED
        BY <2>6, <3>1, <3>2 DEF WaitInv
    <2> QED
      BY <2>8, <2>9, <2>10, <2>11, <2>13, <2>14, <2>15, <2>16
  <1> QED
    BY <1>3, <1>4

-----------------------------------------------------------------------------
(* Renders and their answers.                                              *)

\* A request of the page becomes one of the renderer, with its panel.
LEMMA RenderReceivedStep == ASSUME IInv, RenderReceived PROVE IInv'
  <1> USE DEF IInv
  <1> DEFINE k == Len(render) + 1
             rec == [panel |-> panel, id |-> Posted.id, expr |-> Posted.expr]
  <1>1. /\ toHost # <<>> /\ toHost' = Tail(toHost)
        /\ Posted.kind = "renderMath" /\ Len(render) < MaxRenders
        /\ asked' = asked \cup {k} /\ answer' = answer /\ render' = Append(render, rec)
        /\ UNCHANGED <<panel, opened, seed, started, source, timer, output, status, generation,
                       nextId, job, inflight, toView, inserted, acts>>
    BY DEF RenderReceived, Taken, Renderer!Ask, page, user
  <1>2. /\ Posted \in HostMessages /\ toHost' \in Seq(HostMessages)
        /\ Elems(toHost) = Elems(toHost') \cup {Posted}
    BY <1>1, ElemsOfTail DEF ValuesInv, Posted
  <1>3. Posted.id \in Nat /\ Posted.expr \in Exprs /\ OfJob(Posted.id, Posted.expr)
    BY <1>1, <1>2 DEF HostInv, HostMessages, Log
  <1>4. panel # 0 /\ panel \in Nat /\ panel \in PanelsSoFar
    <2>1. panel # 0
      BY <1>1 DEF PageInv
    <2>2. panel = opened /\ opened \in Nat
      BY <2>1, NumbersTyped DEF ValuesInv, TypeOK
    <2> QED
      BY <2>1, <2>2 DEF PanelsSoFar
  <1>5. /\ render' \in Seq([panel : Nat, id : Nat, expr : Exprs])
        /\ asked = 1..Len(render) /\ asked' = 1..Len(render')
        /\ k \in Renders /\ k \notin asked /\ render'[k] = rec
        /\ \A r \in asked : render'[r] = render[r]
    <2>1. /\ render \in Seq([panel : Nat, id : Nat, expr : Exprs]) /\ asked = 1..Len(render)
          /\ MaxRenders \in Nat
      BY PlaygroundAssumption DEF ValuesInv, TypeOK
    <2>2. rec \in [panel : Nat, id : Nat, expr : Exprs]
      BY <1>3, <1>4
    <2> HIDE DEF rec
    <2>3. ASSUME NEW M, NEW q \in Seq(M), NEW x \in M
          PROVE  /\ Append(q, x) \in Seq(M) /\ Len(q) \in Nat
                 /\ 1..Len(Append(q, x)) = 1..Len(q) \cup {Len(q) + 1}
                 /\ Append(q, x)[Len(q) + 1] = x
                 /\ \A i \in 1..Len(q) : Append(q, x)[i] = q[i]
      OBVIOUS
    <2>4. /\ render' \in Seq([panel : Nat, id : Nat, expr : Exprs])
          /\ Len(render) \in Nat
          /\ 1..Len(render') = 1..Len(render) \cup {k}
          /\ render'[k] = rec
          /\ \A i \in 1..Len(render) : render'[i] = render[i]
      BY <1>1, <2>1, <2>2, <2>3
    <2> QED
      BY <1>1, <2>1, <2>4 DEF Renders
  <1>6. TypeOK'
    BY <1>1, <1>5 DEF ValuesInv, TypeOK
  <1>7. ValuesInv' /\ PageInv'
    <2>1. started
      BY <1>1 DEF PageInv
    <2> QED
      BY <1>1, <1>2, <1>5, <1>6, <2>1 DEF ValuesInv, PageInv
  <1> HIDE DEF k, rec
  <1>8. \A expr : Rendered(expr) => Rendered(expr)'
    BY <1>1, <1>5 DEF Rendered
  <1>9. JobInv' /\ InflightInv'
    BY <1>1 DEF JobInv, InflightInv, IdsOfJob
  <1>10. HostInv' /\ ViewInv' /\ GotInv'
    BY <1>1, <1>2, <1>8 DEF HostInv, ViewInv, GotInv, OfJob, ExprOf, IsRendered, IdsOfJob
  <1>11. RenderInv'
    <2>1. PanelsSoFar' = PanelsSoFar /\ \A id, expr : OfJob(id, expr)' <=> OfJob(id, expr)
      BY <1>1 DEF PanelsSoFar, OfJob, ExprOf
    <2>2. render'[k].panel \in PanelsSoFar /\ OfJob(render'[k].id, render'[k].expr)
      BY <1>3, <1>4, <1>5 DEF rec
    <2>3. ASSUME NEW r \in asked
          PROVE  /\ render'[r].panel \in PanelsSoFar
                 /\ render'[r].panel = panel => OfJob(render'[r].id, render'[r].expr)
      BY <1>5 DEF RenderInv
    <2>4. /\ \A r \in Renders \ asked' : answer'[r] = <<>>
          /\ asked' \subseteq Renders
      BY <1>1, <1>5 DEF RenderInv
    <2> QED
      BY <1>1, <2>1, <2>2, <2>3, <2>4 DEF RenderInv
  <1>12. WaitInv'
    <2>1. ASSUME NEW id \in DOMAIN inflight, inflight[id] = generation PROVE Coming(id)'
      <3>1. Coming(id)
        BY <2>1 DEF WaitInv
      <3>2. CASE Posted.id = id
        <4>1. k \in asked' /\ render'[k].panel = panel' /\ render'[k].id = id /\ answer'[k] = <<>>
          BY <1>1, <1>5, <3>2 DEF RenderInv, rec
        <4> QED
          BY <4>1 DEF Coming
      <3>3. CASE Posted.id # id
        BY <1>1, <1>2, <1>5, <3>1, <3>3 DEF Coming, ExprOf
      <3> QED
        BY <3>2, <3>3
    <2> QED
      BY <1>1, <2>1 DEF WaitInv
  <1> QED
    BY <1>7, <1>9, <1>10, <1>11, <1>12

\* The renderer answers; the answer goes to the panel that asked, if it is open.
LEMMA AnsweredStep ==
    ASSUME IInv, NEW r \in Renders, NEW o \in {"mathml", "error"}, Answered(r, o)
    PROVE  IInv'
  <1> USE DEF IInv
  <1>0. PICK m : m = [kind |-> "mathRendered", id |-> render[r].id,
                      result |-> [ok |-> o = "mathml", of |-> render[r].expr]]
    OBVIOUS
  <1>1. /\ r \in asked /\ answer[r] = <<>>
        /\ answer' = [q \in Renders |-> IF q \in {r} THEN <<o>> ELSE answer[q]]
        /\ toView' = IF ~Reaches(r) THEN toView ELSE Append(toView, m)
        /\ UNCHANGED <<panel, opened, seed, started, source, timer, output, status, generation,
                       nextId, job, inflight, toHost, render, asked, inserted, acts>>
    BY <1>0 DEF Answered, Renderer!Answer, page, user
  <1>2. render[r] \in [panel : Nat, id : Nat, expr : Exprs]
    <2>1. r \in 1..Len(render) /\ render \in Seq([panel : Nat, id : Nat, expr : Exprs])
      BY <1>1 DEF ValuesInv, TypeOK
    <2> QED
      BY <2>1, ElementOfSeq
  <1>3. /\ answer'[r] = <<o>> /\ \A q \in Renders \ {r} : answer'[q] = answer[q]
        /\ answer' \in [Renders -> {<<>>, <<"mathml">>, <<"error">>}]
    BY <1>1 DEF ValuesInv
  <1>4. \A expr : Rendered(expr) => Rendered(expr)'
    <2>1. <<"mathml">> # <<>>
      OBVIOUS
    <2> QED
      BY <1>1, <1>3, <2>1 DEF Rendered, RenderInv
  <1>5. m \in ViewMessages /\ m.kind = "mathRendered" /\ m.id = render[r].id
        /\ m.result.of = render[r].expr /\ (m.result.ok <=> o = "mathml")
    BY <1>0, <1>2 DEF ViewMessages, Results
  <1>6. /\ toView' \in Seq(ViewMessages) /\ Elems(toView) \subseteq Elems(toView')
        /\ Reaches(r) => Elems(toView') = Elems(toView) \cup {m}
        /\ ~Reaches(r) => Elems(toView') = Elems(toView)
    BY <1>1, <1>5, ElemsOfAppend DEF ValuesInv
  <1>7. Reaches(r) => panel # 0 /\ OfJob(render[r].id, render[r].expr)
    <2>1. ASSUME Reaches(r) PROVE panel # 0 /\ OfJob(render[r].id, render[r].expr)
      <3>1. render[r].panel \in 1..opened /\ render[r].panel = panel
        BY <1>1, <2>1 DEF RenderInv, PanelsSoFar, Reaches
      <3> QED
        BY <1>1, <3>1, NumbersTyped DEF RenderInv
    <2> QED
      BY <2>1
  <1>8. TypeOK'
    BY <1>1 DEF ValuesInv, TypeOK
  <1>9. ValuesInv' /\ PageInv'
    BY <1>1, <1>3, <1>6, <1>7, <1>8 DEF ValuesInv, PageInv
  <1>10. JobInv' /\ InflightInv' /\ HostInv' /\ GotInv'
    BY <1>1, <1>4 DEF JobInv, InflightInv, IdsOfJob, HostInv, OfJob, ExprOf, GotInv, IsRendered
  <1>11. /\ PanelsSoFar' = PanelsSoFar
         /\ \A id, expr : OfJob(id, expr)' <=> OfJob(id, expr)
    BY <1>1 DEF PanelsSoFar, OfJob, ExprOf
  <1>12. RenderInv'
    BY <1>1, <1>3, <1>11 DEF RenderInv
  <1>13. ViewInv'
    <2>1. ASSUME NEW n \in Elems(toView), n.kind = "mathRendered"
          PROVE  OfJob(n.id, n.result.of) /\ IsRendered(n.result)'
      BY <1>4, <2>1 DEF ViewInv, IsRendered
    <2>2. ASSUME Reaches(r) PROVE OfJob(m.id, m.result.of) /\ IsRendered(m.result)'
      <3>1. o = "mathml" => Rendered(render[r].expr)'
        BY <1>1, <1>3, <2>2 DEF Rendered, Reaches
      <3>2. m.result.ok => Rendered(m.result.of)'
        BY <1>1, <1>5, <3>1
      <3> QED
        BY <1>5, <1>7, <2>2, <3>2 DEF IsRendered
    <2>3. \A n \in Elems(toView') : n \in Elems(toView) \/ (Reaches(r) /\ n = m)
      BY <1>6
    <2> QED
      BY <1>11, <2>1, <2>2, <2>3 DEF ViewInv
  <1>14. WaitInv'
    <2>1. ASSUME NEW id \in DOMAIN inflight, inflight[id] = generation PROVE Coming(id)'
      <3>1. Coming(id)
        BY <2>1 DEF WaitInv
      <3>2. CASE render[r].panel = panel /\ render[r].id = id
        BY <1>5, <1>6, <3>2 DEF Coming, Reaches
      <3>3. CASE ~(render[r].panel = panel /\ render[r].id = id)
        BY <1>1, <1>3, <1>6, <3>1, <3>3 DEF Coming, ExprOf, RenderInv
      <3> QED
        BY <3>2, <3>3
    <2> QED
      BY <1>1, <2>1 DEF WaitInv
  <1> QED
    BY <1>9, <1>10, <1>12, <1>13, <1>14

-----------------------------------------------------------------------------
(* Answers in the page.                                                    *)

\* An answer leaves the queue and the maps; every other id still waits for what
\* comes.
LEMMA AnswerTaken ==
    ASSUME IInv, Received, Message.kind = "mathRendered", Forget(Message.id),
           job' \in Jobs, job'.first = job.first, job'.exprs = job.exprs,
           job'.kind = job.kind, job'.raw = job.raw,
           status' \in {"", "rejected", "rendering", "rendered", "error"},
           status' = "rendering" => status = "rendering",
           UNCHANGED <<panel, opened, seed, started, source, timer, generation, nextId, toHost,
                       render, asked, answer, inserted, acts>>
    PROVE  /\ Message.id \in Nat /\ Message.result \in Results
           /\ OfJob(Message.id, Message.result.of) /\ IsRendered(Message.result)
           /\ ValuesInv' /\ PageInv' /\ JobInv' /\ HostInv' /\ RenderInv' /\ ViewInv'
           /\ IdsOfJob' = IdsOfJob
           /\ DOMAIN inflight' = DOMAIN inflight \ {Message.id}
           /\ \A i \in DOMAIN inflight' : inflight'[i] = inflight[i]
           /\ \A i \in DOMAIN inflight' : inflight'[i] = generation => i \in IdsOfJob /\ Coming(i)'
           /\ \A expr : Rendered(expr) => Rendered(expr)'
  <1> USE DEF IInv
  <1>1. toView # <<>> /\ toView' = Tail(toView) /\ started
    BY DEF Received
  <1>2. /\ Message \in ViewMessages /\ toView' \in Seq(ViewMessages)
        /\ Elems(toView) = Elems(toView') \cup {Message}
    BY <1>1, ElemsOfTail DEF ValuesInv, Message
  <1>3. Message.id \in Nat /\ Message.result \in Results
    BY <1>2 DEF ViewMessages
  <1>4. OfJob(Message.id, Message.result.of) /\ IsRendered(Message.result)
    BY <1>2 DEF ViewInv
  <1>5. /\ DOMAIN inflight' = DOMAIN inflight \ {Message.id}
        /\ \A i \in DOMAIN inflight' : inflight'[i] = inflight[i]
    BY DEF Forget
  <1>6. TypeOK'
    BY <1>5 DEF ValuesInv, TypeOK
  <1>7. ValuesInv' /\ PageInv'
    BY <1>1, <1>2, <1>6 DEF ValuesInv, PageInv
  <1>8. JobInv' /\ IdsOfJob' = IdsOfJob
    BY DEF JobInv, IdsOfJob
  <1>9. HostInv' /\ RenderInv'
    BY DEF HostInv, RenderInv, PanelsSoFar, OfJob, ExprOf
  <1>10. \A expr : Rendered(expr) => Rendered(expr)'
    BY DEF Rendered
  <1>11. ViewInv'
    BY <1>2, <1>10 DEF ViewInv, OfJob, ExprOf, IsRendered
  <1>12. ASSUME NEW i \in DOMAIN inflight', inflight'[i] = generation
         PROVE  i \in IdsOfJob /\ Coming(i)'
    <2>1. i \in DOMAIN inflight /\ inflight[i] = generation /\ i # Message.id
      BY <1>5, <1>12
    <2>2. Coming(i) /\ i \in IdsOfJob
      BY <2>1 DEF WaitInv, InflightInv
    <2> QED
      BY <1>2, <2>1, <2>2 DEF Coming, ExprOf
  <1> QED
    BY <1>3, <1>4, <1>5, <1>7, <1>8, <1>9, <1>10, <1>11, <1>12

\* A job has an expression for each of its ids.
LEMMA IdsAreCounted ==
    ASSUME IInv, job.kind # "none"
    PROVE  /\ IsFiniteSet(IdsOfJob) /\ Cardinality(IdsOfJob) = Len(job.exprs)
           /\ job.exprs \in Seq(Exprs) /\ Len(job.exprs) \in Nat /\ DOMAIN job.exprs = 1..Len(job.exprs)
           /\ \A i \in DOMAIN job.exprs : job.first + i - 1 \in IdsOfJob /\ ExprOf(job.first + i - 1) = job.exprs[i]
  <1>1. job.exprs \in Seq(Exprs) /\ job.first \in Nat /\ nextId = job.first + Len(job.exprs)
    BY NumbersTyped, NoJobIsEmpty DEF IInv, ValuesInv, JobInv, Jobs
  <1>2. Len(job.exprs) \in Nat /\ DOMAIN job.exprs = 1..Len(job.exprs)
    BY <1>1
  <1>3. IsFiniteSet(IdsOfJob) /\ Cardinality(IdsOfJob) = Len(job.exprs)
    <2>1. job.first \in Int /\ nextId - 1 \in Int /\ (nextId - 1) - job.first + 1 = Len(job.exprs)
      BY <1>1, <1>2
    <2>2. job.first > nextId - 1 => Len(job.exprs) = 0
      BY <1>1, <1>2
    <2> QED
      BY <2>1, <2>2, FS_Interval DEF IdsOfJob
  <1>4. ASSUME NEW i \in 1..Len(job.exprs)
        PROVE  job.first + i - 1 \in IdsOfJob /\ (job.first + i - 1) - job.first + 1 = i
    BY <1>1, <1>2 DEF IdsOfJob
  <1> QED
    BY <1>1, <1>2, <1>3, <1>4 DEF ExprOf

\* An answer that is no longer asked for.
LEMMA AnswerIgnoredStep == ASSUME IInv, AnswerIgnored PROVE IInv'
  <1> USE DEF IInv
  <1>1. /\ Received /\ Message.kind = "mathRendered" /\ Forget(Message.id)
        /\ ~CurrentAnswer(Message.id) /\ job' = job /\ status' = status
        /\ UNCHANGED <<panel, opened, seed, started, source, timer, generation, nextId, toHost,
                       render, asked, answer, inserted, acts>>
    BY DEF AnswerIgnored, service, user
  <1>2. job' \in Jobs /\ status' \in {"", "rejected", "rendering", "rendered", "error"}
    BY <1>1 DEF ValuesInv, TypeOK
  <1>3. /\ ValuesInv' /\ PageInv' /\ JobInv' /\ HostInv' /\ RenderInv' /\ ViewInv'
        /\ IdsOfJob' = IdsOfJob
        /\ DOMAIN inflight' = DOMAIN inflight \ {Message.id}
        /\ \A i \in DOMAIN inflight' : inflight'[i] = inflight[i]
        /\ \A i \in DOMAIN inflight' : inflight'[i] = generation => i \in IdsOfJob /\ Coming(i)'
        /\ \A expr : Rendered(expr) => Rendered(expr)'
    BY <1>1, <1>2, AnswerTaken
  <1>4. \A i \in DOMAIN inflight :
            inflight[i] = generation => i \in DOMAIN inflight' /\ inflight'[i] = generation
    BY <1>1, <1>3 DEF CurrentAnswer
  <1>5. InflightInv' /\ WaitInv'
    BY <1>1, <1>3, <1>4 DEF InflightInv, WaitInv
  <1>6. GotInv'
    BY <1>1, <1>3 DEF GotInv, ExprOf, IsRendered
  <1> QED
    BY <1>3, <1>5, <1>6

\* The answer of a single expression is shown: nothing is waited for.
LEMMA AnswerShownStep == ASSUME IInv, AnswerShown PROVE IInv'
  <1> USE DEF IInv
  <1>1. /\ Received /\ Message.kind = "mathRendered" /\ Forget(Message.id)
        /\ job.kind = "single" /\ job' = job /\ status' \in {"rendered", "error"}
        /\ UNCHANGED <<panel, opened, seed, started, source, timer, generation, nextId, toHost,
                       render, asked, answer, inserted, acts>>
    BY DEF AnswerShown, service, user
  <1>2. job' \in Jobs /\ status' \in {"", "rejected", "rendering", "rendered", "error"}
    BY <1>1 DEF ValuesInv
  <1>3. /\ ValuesInv' /\ PageInv' /\ JobInv' /\ HostInv' /\ RenderInv' /\ ViewInv'
        /\ IdsOfJob' = IdsOfJob
        /\ \A i \in DOMAIN inflight' : inflight'[i] = generation => i \in IdsOfJob /\ Coming(i)'
        /\ \A expr : Rendered(expr) => Rendered(expr)'
    BY <1>1, <1>2, AnswerTaken
  <1>4. InflightInv' /\ WaitInv'
    BY <1>1, <1>3 DEF InflightInv, WaitInv
  <1>5. GotInv'
    BY <1>1, <1>3 DEF GotInv, ExprOf, IsRendered
  <1> QED
    BY <1>3, <1>4, <1>5

\* What AnswerCollected makes of the answers collected so far.
Collected ==
    [i \in DOMAIN job.got \cup {Message.id} |-> IF i = Message.id THEN Message.result ELSE job.got[i]]

\* An answer of the latest job joins the collected ones: each is of the expression
\* of its id, and when all ids have one the job is done.
LEMMA CollectedIsOfJob ==
    ASSUME IInv, AnswerCollected
    PROVE  /\ Message.id \in IdsOfJob /\ Message.result \in Results
           /\ DOMAIN Collected = DOMAIN job.got \cup {Message.id} /\ DOMAIN Collected \subseteq IdsOfJob
           /\ Collected \in UNION {[D -> Results] : D \in SUBSET Nat}
           /\ \A id \in DOMAIN Collected : /\ Collected[id].of = ExprOf(id)
                                           /\ IsRendered(Collected[id])
           /\ Cardinality(DOMAIN Collected) = Len(job.exprs) <=> DOMAIN Collected = IdsOfJob
  <1> USE DEF IInv
  <1>1. /\ toView # <<>> /\ Message.kind = "mathRendered" /\ job.kind = "mixed"
        /\ Message.id \in DOMAIN inflight /\ inflight[Message.id] = generation
    BY DEF AnswerCollected, Received, CurrentAnswer
  <1>2. Message \in ViewMessages /\ Message \in Elems(toView)
    BY <1>1, ElemsOfTail DEF ValuesInv, Message
  <1>3. Message.id \in Nat /\ Message.result \in Results
    BY <1>1, <1>2 DEF ViewMessages
  <1>4. Message.id \in IdsOfJob /\ Message.id >= job.first
    BY <1>1, NumbersTyped DEF InflightInv
  <1>5. Message.result.of = ExprOf(Message.id) /\ IsRendered(Message.result)
    BY <1>1, <1>2, <1>4 DEF ViewInv, OfJob
  <1>6. job.got \in UNION {[D -> Results] : D \in SUBSET Nat}
    BY <1>1, NoJobIsEmpty DEF ValuesInv, Jobs
  <1>7. /\ DOMAIN Collected = DOMAIN job.got \cup {Message.id}
        /\ Collected[Message.id] = Message.result
        /\ \A id \in DOMAIN job.got \ {Message.id} : Collected[id] = job.got[id]
    BY DEF Collected
  <1>8. Collected \in UNION {[D -> Results] : D \in SUBSET Nat}
    <2>1. DOMAIN job.got \cup {Message.id} \in SUBSET Nat
      BY <1>3, <1>6
    <2>2. \A id \in DOMAIN job.got : job.got[id] \in Results
      BY <1>6
    <2>3. Collected \in [DOMAIN job.got \cup {Message.id} -> Results]
      BY <1>3, <2>2 DEF Collected
    <2> QED
      BY <2>1, <2>3
  <1>9. \A id \in DOMAIN Collected : /\ id \in IdsOfJob
                                     /\ Collected[id].of = ExprOf(id)
                                     /\ IsRendered(Collected[id])
    BY <1>4, <1>5, <1>7 DEF GotInv
  <1>10. Cardinality(DOMAIN Collected) = Len(job.exprs) <=> DOMAIN Collected = IdsOfJob
    <2>1. IsFiniteSet(IdsOfJob) /\ Cardinality(IdsOfJob) = Len(job.exprs)
      BY <1>1, IdsAreCounted
    <2> QED
      BY <1>9, <2>1, FS_Subset
  <1> QED
    BY <1>3, <1>4, <1>7, <1>8, <1>9, <1>10

\* A mixed job collects an answer.
LEMMA AnswerCollectedStep == ASSUME IInv, AnswerCollected PROVE IInv'
  <1> USE DEF IInv
  <1>1. /\ Received /\ Message.kind = "mathRendered" /\ Forget(Message.id)
        /\ job.kind = "mixed" /\ job' = [job EXCEPT !.got = Collected]
        /\ status' = IF Cardinality(DOMAIN Collected) = Len(job.exprs) THEN "rendered" ELSE status
        /\ UNCHANGED <<panel, opened, seed, started, source, timer, generation, nextId, toHost,
                       render, asked, answer, inserted, acts>>
    BY DEF AnswerCollected, Collected, service, user
  <1>2. /\ job' \in Jobs /\ job'.got = Collected /\ job'.first = job.first
        /\ job'.exprs = job.exprs /\ job'.kind = job.kind /\ job'.raw = job.raw
    <2>1. job \in [kind : {"single", "mixed"}, raw : Texts, first : Nat, exprs : Seq(Exprs),
                   got : UNION {[D -> Results] : D \in SUBSET Nat}]
      BY <1>1, NoJobIsEmpty DEF ValuesInv, Jobs
    <2>2. Collected \in UNION {[D -> Results] : D \in SUBSET Nat}
      BY CollectedIsOfJob
    <2> HIDE DEF IInv
    <2> QED
      BY <1>1, <2>1, <2>2 DEF Jobs
  <1>3. /\ status' \in {"", "rejected", "rendering", "rendered", "error"}
        /\ status' = "rendering" => /\ status = "rendering"
                                    /\ Cardinality(DOMAIN Collected) # Len(job.exprs)
    BY <1>1 DEF ValuesInv, TypeOK
  <1>4. /\ ValuesInv' /\ PageInv' /\ JobInv' /\ HostInv' /\ RenderInv' /\ ViewInv'
        /\ IdsOfJob' = IdsOfJob
        /\ DOMAIN inflight' = DOMAIN inflight \ {Message.id}
        /\ \A i \in DOMAIN inflight' : inflight'[i] = inflight[i]
        /\ \A i \in DOMAIN inflight' : inflight'[i] = generation => i \in IdsOfJob /\ Coming(i)'
        /\ \A expr : Rendered(expr) => Rendered(expr)'
    BY <1>1, <1>2, <1>3, AnswerTaken
  <1>5. InflightInv'
    BY <1>1, <1>2, <1>4, CollectedIsOfJob DEF InflightInv
  <1>6. GotInv'
    <2>1. PICK got : got = Collected
      OBVIOUS
    <2>2. ASSUME NEW id \in DOMAIN got
          PROVE  /\ id \in IdsOfJob' /\ got[id].of = ExprOf(id)'
                 /\ got[id].ok => Rendered(got[id].of)'
      <3>1. id \in IdsOfJob /\ got[id].of = ExprOf(id) /\ IsRendered(got[id])
        BY <2>1, <2>2, CollectedIsOfJob
      <3>2. ExprOf(id)' = ExprOf(id)
        BY <1>1, <1>2 DEF ExprOf
      <3> QED
        BY <1>4, <3>1, <3>2 DEF IsRendered
    <2>3. job'.got = got
      BY <1>2, <2>1
    <2> QED
      BY <2>2, <2>3 DEF GotInv, IsRendered
  <1>7. WaitInv'
    <2>1. ASSUME status' = "rendering" PROVE \E id \in DOMAIN inflight' : inflight'[id] = generation'
      <3>1. PICK id \in IdsOfJob : id \notin DOMAIN Collected
        BY <1>3, <2>1, CollectedIsOfJob
      <3> QED
        BY <1>1, <1>2, <1>4, <1>5, <3>1 DEF InflightInv
    <2> QED
      BY <1>1, <1>4, <2>1 DEF WaitInv
  <1> QED
    BY <1>4, <1>5, <1>6, <1>7

-----------------------------------------------------------------------------
(* The theorems.                                                           *)

\* A panel and its page start without anything.
LEMMA InitInv == Init => IInv
  <1> SUFFICES ASSUME Init PROVE IInv
    OBVIOUS
  <1>1. /\ DOMAIN inflight = {} /\ Elems(toHost) = {} /\ Elems(toView) = {}
        /\ toHost \in Seq(HostMessages) /\ toView \in Seq(ViewMessages)
        /\ render \in Seq([panel : Nat, id : Nat, expr : Exprs])
        /\ asked = {} /\ asked = 1..Len(render)
        /\ answer = [r \in Renders |-> <<>>]
    <2>1. render = <<>> /\ toHost = <<>> /\ toView = <<>> /\ inflight = <<>>
      BY DEF Init
    <2>2. asked = {} /\ answer = [r \in Renders |-> <<>>]
      BY DEF Init, Renderer!Init
    <2>3. 1..Len(render) = {}
      <3>1. Len(<<>>) = 0 /\ 1..0 = {}
        OBVIOUS
      <3> QED
        BY <2>1, <3>1
    <2> QED
      BY <2>1, <2>2, <2>3, ElemsTyped
  <1>2. TypeOK
    <2>1. Placeholder \in Texts
      BY PlaygroundAssumption
    <2>2. seed = None /\ started = FALSE /\ timer = FALSE /\ source = Placeholder /\ status = ""
      BY DEF Init
    <2>3. panel = 0 /\ opened = 0 /\ acts = 0 /\ generation = 0 /\ nextId = 1
      BY DEF Init
    <2>4. DOMAIN inflight \subseteq 1..(nextId - 1) /\ \A i \in DOMAIN inflight : inflight[i] \in 1..generation
      BY <1>1
    <2> QED
      <3>1. opened \in 0..acts /\ panel \in {0, opened} /\ generation \in Nat /\ nextId \in Nat
        BY <2>3
      <3>2. asked = 1..Len(render)
        BY <1>1
      <3> QED
        BY ONLY <2>1, <2>2, <2>4, <3>1, <3>2 DEF TypeOK
  <1>3. ValuesInv /\ PageInv
    BY <1>1, <1>2, NoJobIsEmpty DEF Init, ValuesInv, PageInv
  <1>4. JobInv /\ InflightInv /\ GotInv
    BY <1>1, NoJobIsEmpty DEF Init, JobInv, InflightInv, GotInv
  <1>5. HostInv /\ RenderInv /\ ViewInv /\ WaitInv
    BY <1>1 DEF HostInv, RenderInv, ViewInv, WaitInv, Init
  <1> QED
    BY <1>3, <1>4, <1>5 DEF IInv

\* The script runs, the timer fires, or a text sent to the page comes in.
LEMMA RenderingSteps == ASSUME IInv, Start \/ DebounceFires \/ SourceReceived PROVE IInv'
  <1>1. source \in Texts /\ timer \in BOOLEAN /\ toView \in Seq(ViewMessages)
    BY DEF IInv, ValuesInv, TypeOK
  <1>2. CASE Start
    <2>1. /\ panel # 0 /\ started' /\ RequestRender(source, <<Log>>)
          /\ UNCHANGED <<panel, opened, seed, source, timer, toView, render, asked, answer, acts>>
      BY <1>2 DEF Start, service, user
    <2> QED
      BY <1>1, <2>1, RequestRenderStep
  <1>3. CASE DebounceFires
    <2>1. /\ timer /\ timer' = FALSE /\ RequestRender(source, <<>>)
          /\ UNCHANGED <<panel, opened, seed, started, source, toView, render, asked, answer, acts>>
      BY <1>3 DEF DebounceFires, service, user
    <2>2. panel # 0 /\ started'
      BY <2>1 DEF IInv, PageInv
    <2> QED
      BY <1>1, <2>1, <2>2, RequestRenderStep
  <1>4. CASE SourceReceived
    <2>1. /\ started /\ toView # <<>> /\ toView' = Tail(toView)
          /\ Message.kind = "setSource" /\ source' = Message.text
          /\ RequestRender(Message.text, <<>>)
          /\ UNCHANGED <<panel, opened, seed, started, timer, render, asked, answer, acts>>
      BY <1>4 DEF SourceReceived, Received, service, user
    <2>2. /\ Message \in ViewMessages /\ toView' \in Seq(ViewMessages)
          /\ Elems(toView) = Elems(toView') \cup {Message}
      BY <1>1, <2>1, ElemsOfTail DEF Message
    <2>3. Message.text \in Texts /\ panel # 0 /\ started'
      BY <2>1, <2>2 DEF ViewMessages, IInv, PageInv
    <2> QED
      BY <1>1, <2>1, <2>2, <2>3, RequestRenderStep
  <1> QED
    BY <1>2, <1>3, <1>4

\* No step breaks the invariant.
LEMMA NextInv == IInv /\ [Next]_vars => IInv'
  <1> SUFFICES ASSUME IInv, [Next]_vars PROVE IInv'
    OBVIOUS
  <1>1. CASE \E text \in Texts : Type(text)
    BY <1>1, TypeStep
  <1>2. CASE \E text \in (Texts \cup {None}) : OpenPanel(text)
    BY <1>2, OpenPanelStep
  <1>3. CASE \E text \in Texts : SendToPanel(text)
    BY <1>3, SendToPanelStep
  <1>4. CASE ClosePanel
    BY <1>4, ClosePanelStep
  <1>5. CASE Insert
    BY <1>5, InsertStep
  <1>6. CASE Start \/ DebounceFires \/ SourceReceived
    BY <1>6, RenderingSteps
  <1>7. CASE MessageMissed
    BY <1>7, MessageMissedStep
  <1>8. CASE AnswerIgnored \/ AnswerShown \/ AnswerCollected
    BY <1>8, AnswerIgnoredStep, AnswerShownStep, AnswerCollectedStep
  <1>9. CASE LogReceived \/ InsertReceived \/ MessageRefused
    BY <1>9, OtherMessageSteps
  <1>10. CASE RenderReceived
    BY <1>10, RenderReceivedStep
  <1>11. CASE \E r \in Renders : RenderAnswered(r)
    BY <1>11, AnsweredStep DEF RenderAnswered
  <1>12. CASE UNCHANGED vars
    <2>1. UNCHANGED <<panel, opened, seed, started, source, timer, output, status, generation,
                      nextId, job, inflight, toHost, toView, render, asked, answer, inserted, acts>>
      BY <1>12 DEF vars, page, service, user
    <2>2. TypeOK'
      BY <2>1 DEF IInv, ValuesInv, TypeOK
    <2>3. ValuesInv' /\ PageInv'
      BY <2>1, <2>2 DEF IInv, ValuesInv, PageInv
    <2> QED
      BY <2>1, <2>3, QueuesOnly
  <1> QED
    BY <1>1, <1>2, <1>3, <1>4, <1>5, <1>6, <1>7, <1>8, <1>9, <1>10, <1>11, <1>12
       DEF Next, ViewReceives, HostReceives

\* The invariant holds in every state.
LEMMA Invariance == Spec => []IInv
  BY InitInv, NextInv, PTL DEF Spec

\* The variables keep to their values: ids in flight were given, the renders
\* asked are those that have a record.
THEOREM TypesAreKept == Spec => []TypeOK
  <1>1. IInv => TypeOK
    BY DEF IInv, ValuesInv
  <1> QED
    BY <1>1, Invariance, PTL

\* An answer the page waits for is on its way, whatever the user does and in
\* whichever order messages and renders come.
THEOREM AwaitedAnswersCome == Spec => []WaitsForWhatComes
  <1>1. IInv => WaitsForWhatComes
    <2> SUFFICES ASSUME IInv PROVE WaitsForWhatComes
      OBVIOUS
    <2>1. toHost \in Seq(HostMessages) /\ toView \in Seq(ViewMessages)
      BY DEF IInv, ValuesInv
    <2>2. /\ \A m \in Elems(toHost) : \E i \in DOMAIN toHost : toHost[i] = m
          /\ \A m \in Elems(toView) : \E i \in DOMAIN toView : toView[i] = m
      BY <2>1, ElemsTyped DEF Elems
    <2> QED
      BY <2>2 DEF IInv, WaitInv, WaitsForWhatComes, Coming, ExprOf
  <1> QED
    BY <1>1, Invariance, PTL

\* The one expression of a text without segments, when its answer is shown.
LEMMA ShownIsRender == ASSUME IInv, AnswerShown PROVE IsRenderOf(output', job.raw)
  <1> USE DEF IInv
  <1>1. /\ toView # <<>> /\ Message.kind = "mathRendered" /\ job.kind = "single"
        /\ Message.id \in DOMAIN inflight /\ inflight[Message.id] = generation
        /\ output' = [kind |-> "single", parts |-> <<Message.result>>]
    BY DEF AnswerShown, Received, CurrentAnswer
  <1>2. Message \in ViewMessages /\ Message \in Elems(toView)
    BY <1>1, ElemsOfTail DEF ValuesInv, Message
  <1>3. Message.id \in IdsOfJob /\ Message.id >= job.first
    BY <1>1, NumbersTyped DEF InflightInv
  <1>4. Message.result.of = ExprOf(Message.id) /\ IsRendered(Message.result)
    BY <1>1, <1>2, <1>3 DEF ViewInv, OfJob
  <1>5. IsSingle(job.raw) /\ job.exprs = Expressions(job.raw) /\ job.raw \in Texts
    BY <1>1, NoJobIsEmpty DEF JobInv, ValuesInv, Jobs
  <1>6. job.exprs = <<job.raw.tokens>>
    BY <1>5, ExpressionsTyped
  <1>7. Message.id = job.first
    <2>1. Len(job.exprs) = 1
      BY <1>6
    <2>2. nextId = job.first + 1
      BY <1>1, <2>1 DEF JobInv
    <2> QED
      BY <1>3, <2>2, NumbersTyped
  <1>8. Message.result.of = job.raw.tokens
    BY <1>4, <1>6, <1>7, NumbersTyped DEF ExprOf
  <1>9. [i \in DOMAIN output'.parts |-> output'.parts[i].of] = <<Message.result.of>>
    BY <1>1
  <1>10. \A i \in DOMAIN output'.parts : output'.parts[i] = Message.result
    BY <1>1
  <1> QED
    BY <1>1, <1>4, <1>5, <1>6, <1>8, <1>9, <1>10 DEF IsRenderOf, IsRendered, Rendered

\* The segments of a text, when the last of its answers is in.
LEMMA CollectedIsRender ==
    ASSUME IInv, AnswerCollected, output' # output
    PROVE  IsRenderOf(output', job.raw)
  <1> USE DEF IInv
  <1> DEFINE part(i) == IF Collected[job.first + i - 1].ok THEN Collected[job.first + i - 1]
                        ELSE [ok |-> FALSE, of |-> job.exprs[i]]
             parts == [i \in DOMAIN job.exprs |-> part(i)]
  <1>1. /\ job.kind = "mixed"
        /\ Cardinality(DOMAIN Collected) = Len(job.exprs)
        /\ output' = [kind |-> "mixed", raw |-> job.raw, parts |-> parts]
    BY DEF AnswerCollected, Collected, Parts
  <1>2. ~IsSingle(job.raw) /\ job.exprs = Expressions(job.raw)
    BY <1>1 DEF JobInv
  <1>3. ASSUME NEW i \in DOMAIN job.exprs
        PROVE  part(i).of = job.exprs[i] /\ (part(i).ok => Rendered(part(i).of))
    <2> DEFINE id == job.first + i - 1
    <2>1. id \in IdsOfJob /\ ExprOf(id) = job.exprs[i]
      BY <1>1, IdsAreCounted
    <2>2. Collected[id].of = job.exprs[i] /\ (Collected[id].ok => Rendered(job.exprs[i]))
      BY <1>1, <2>1, CollectedIsOfJob DEF IsRendered
    <2> HIDE DEF id
    <2>3. CASE Collected[id].ok
      BY <2>2, <2>3 DEF id
    <2>4. CASE ~Collected[id].ok
      BY <2>2, <2>4 DEF id
    <2> QED
      BY <2>3, <2>4
  <1> HIDE DEF part
  <1>4. [i \in DOMAIN parts |-> parts[i].of] = job.exprs
    <2>1. job.exprs = [i \in DOMAIN job.exprs |-> job.exprs[i]]
      BY <1>1, IdsAreCounted
    <2> QED
      BY <1>3, <2>1
  <1>5. \A i \in DOMAIN parts : parts[i].ok => Rendered(parts[i].of)
    BY <1>3
  <1> HIDE DEF parts
  <1> QED
    BY <1>1, <1>2, <1>4, <1>5 DEF IsRenderOf, Rendered

\* What comes on display is a render of the text that started the latest
\* generation, complete, in order and made for the panel that is open.
THEOREM DisplayIsOfLatestText == Spec => OutputIsOfLatestText
  <1> DEFINE Shown == output' # output /\ output'.kind \in {"single", "mixed"}
  <1>1. ASSUME IInv, [Next]_vars, Shown PROVE IsRenderOf(output', job.raw)
    <2>1. CASE AnswerShown
      BY <1>1, <2>1, ShownIsRender
    <2>2. CASE AnswerCollected
      BY <1>1, <2>2, CollectedIsRender
    <2>3. CASE ClosePanel \/ Start \/ DebounceFires \/ SourceReceived
      <3>1. output' = Ready \/ (\E why \in {"empty", "huge"} : output' = Notice(why)) \/ output' = output
        BY <2>3 DEF ClosePanel, Start, DebounceFires, SourceReceived, RequestRender
      <3> QED
        BY <1>1, <3>1 DEF Ready, Notice
    <2>4. CASE output' = output
      BY <1>1, <2>4
    <2>5. [Next]_vars => \/ AnswerShown \/ AnswerCollected \/ ClosePanel \/ Start \/ DebounceFires
                         \/ SourceReceived \/ output' = output
      <3>1. UNCHANGED vars => output' = output
        BY DEF vars, page
      <3>2. Next => \/ AnswerShown \/ AnswerCollected \/ ClosePanel \/ Start \/ DebounceFires
                    \/ SourceReceived \/ output' = output
        BY DEF Next, Type, OpenPanel, SendToPanel, Insert, MessageMissed, ViewReceives, AnswerIgnored,
               HostReceives, LogReceived, RenderReceived, InsertReceived, MessageRefused,
               RenderAnswered, Answered, page
      <3> QED
        BY <3>1, <3>2
    <2> QED
      BY <1>1, <2>1, <2>2, <2>3, <2>4, <2>5
  <1>2. IInv /\ [Next]_vars => [output' # output /\ output'.kind \in {"single", "mixed"}
                                    => IsRenderOf(output', job.raw)]_vars
    BY <1>1
  <1> QED
    BY <1>2, Invariance, PTL DEF Spec, OutputIsOfLatestText
=============================================================================

--------------------------- MODULE MathPlayground ---------------------------
(***************************************************************************)
(* The AsciiMath playground: the controller in the web view                *)
(* (src/webview/math-playground.ts), its panel in the extension host       *)
(* (openMathPlayground in src/extension/webviews.ts), the check of the     *)
(* messages between them (src/extension/webview-message.ts) and the        *)
(* renderer behind them, as RenderService promises it.                     *)
(*                                                                         *)
(* Messages of one direction arrive in order.  What is posted to a page    *)
(* whose script has not run yet may be missed; what is posted by or to a   *)
(* closed panel is lost.  Renders are answered in any order.               *)
(***************************************************************************)
EXTENDS Naturals, Sequences, FiniteSets

CONSTANTS
    Tokens,         \* what texts are made of, the brackets among them
    Texts,          \* what the user types or selects: [size, tokens]
    Placeholder,    \* the text the page starts with
    None,           \* `undefined`
    MaxActs,        \* bound: texts typed or sent, panels opened, clicks on the button
    MaxRenders      \* bound: renders asked of the service

\* By length: empty; only blanks; short; within the insert cap of 4096 but not
\* with the wrapper around it; over that cap; over MAX_EXPR_CHARS.
Sizes == {"empty", "blank", "short", "edge", "long", "huge"}
Wrappers == {"stem:[", "latexmath:["}
Opening == Wrappers \cup {"["}

ASSUME PlaygroundAssumption ==
    /\ Opening \cup {"]"} \subseteq Tokens
    /\ Placeholder \in Texts
    /\ \A t \in Texts : /\ t.size \in Sizes
                        /\ t.tokens \in Seq(Tokens)
                        /\ t.tokens = <<>> <=> t.size = "empty"
    /\ None \notin Texts
    /\ {MaxActs, MaxRenders} \subseteq Nat

Renders == 1..MaxRenders

VARIABLES
    panel,      \* mathPlaygroundPanel, 0 when undefined
    opened,     \* panels created
    seed,       \* text the first log message of the panel posts, or None
    started,    \* the script of the page has run
    source,     \* src.value
    timer,      \* the debounce timer is armed
    output,     \* out.innerHTML
    status,     \* status.textContent
    generation, \* latestGeneration
    nextId,     \* nextId
    job,        \* the job of the latest generation; no other is read again
    inflight,   \* the maps inflight and reqToGen: id -> generation
    toHost,     \* messages from the page
    toView,     \* messages to the page
    render,     \* render asked of the service -> [panel, id, expr]
    asked,      \* renders asked
    answer,     \* render -> its answer
    inserted,   \* what the button last put into an editor
    acts        \* what the user did so far, closing apart

page == <<source, timer, output, status, generation, nextId, job, inflight>>
service == <<render, asked, answer>>
user == <<inserted, acts>>
vars == <<panel, opened, seed, started, page, toHost, toView, service, user>>

Renderer == INSTANCE RenderService WITH Requests <- Renders, Outcomes <- {"mathml", "error"}

-----------------------------------------------------------------------------
(* Texts.                                                                  *)

Least(S) == CHOOSE i \in S : \A j \in S : i <= j

\* Where the bracket opened at i is closed, bracket by bracket.
Closings(t, i) ==
    {j \in (i + 1)..Len(t) :
        Cardinality({k \in i..j : t[k] \in Opening}) = Cardinality({k \in i..j : t[k] = "]"})}

\* The expressions of the `stem:[...]` and `latexmath:[...]` wrappers, left to
\* right; a wrapper that is not closed is passed over, what follows it is not.
FindSegments(t) ==
    LET from[i \in 1..(Len(t) + 1)] ==
            IF i > Len(t) THEN <<>>
            ELSE IF t[i] \in Wrappers /\ Closings(t, i) # {}
            THEN <<SubSeq(t, i + 1, Least(Closings(t, i)) - 1)>> \o from[Least(Closings(t, i)) + 1]
            ELSE from[i + 1]
    IN  from[1]

SegmentsOf == [t \in Texts |-> FindSegments(t.tokens)]

\* A text without segments is one expression.
IsSingle(t) == SegmentsOf[t] = <<>>
Expressions(t) == IF IsSingle(t) THEN <<t.tokens>> ELSE SegmentsOf[t]

\* What the insert button posts: a text without segments gets a wrapper.
Payload(t) == IF IsSingle(t) THEN <<"stem:[">> \o t.tokens \o <<"]">> ELSE t.tokens

NoJob == [kind |-> "none", raw |-> None, first |-> 0, exprs |-> <<>>, got |-> <<>>]
Ready == [kind |-> "ready", parts |-> <<>>]
Notice(why) == [kind |-> why, parts |-> <<>>]

Init ==
    /\ panel = 0
    /\ opened = 0
    /\ seed = None
    /\ started = FALSE
    /\ source = Placeholder
    /\ timer = FALSE
    /\ output = Ready
    /\ status = ""
    /\ generation = 0
    /\ nextId = 1
    /\ job = NoJob
    /\ inflight = <<>>
    /\ toHost = <<>>
    /\ toView = <<>>
    /\ render = <<>>
    /\ Renderer!Init
    /\ inserted = None
    /\ acts = 0

-----------------------------------------------------------------------------
(* The controller in the page.                                             *)

RenderMath(id, expr) == [kind |-> "renderMath", id |-> id, expr |-> expr]
Log == [kind |-> "log"]

\* requestRender: an empty and an oversized text only show a notice; any other
\* starts a generation, with one message for each expression.
RequestRender(text, after) ==
    /\ output' = IF text.size \in {"empty", "huge"} THEN Notice(text.size) ELSE output
    /\ IF text.size \in {"empty", "huge"}
       THEN /\ status' = IF text.size = "empty" THEN "" ELSE "rejected"
            /\ toHost' = toHost \o after
            /\ UNCHANGED <<generation, nextId, job, inflight>>
       ELSE LET es == Expressions(text)
                ids == nextId..(nextId + Len(es) - 1)
            IN  /\ generation' = generation + 1
                /\ nextId' = nextId + Len(es)
                /\ job' = [kind |-> IF IsSingle(text) THEN "single" ELSE "mixed", raw |-> text,
                           first |-> nextId, exprs |-> es, got |-> <<>>]
                /\ inflight' = [i \in DOMAIN inflight \cup ids |->
                                    IF i \in ids THEN generation + 1 ELSE inflight[i]]
                /\ status' = "rendering"
                /\ toHost' = toHost \o [i \in DOMAIN es |-> RenderMath(nextId + i - 1, es[i])] \o after

\* The script runs: it renders the text of the page and logs that it is ready.
Start ==
    /\ panel # 0
    /\ ~started
    /\ started' = TRUE
    /\ RequestRender(source, <<Log>>)
    /\ UNCHANGED <<panel, opened, seed, source, timer, toView, service, user>>

\* The user types; the listener of the page, once there is one, arms the timer.
Type(text) ==
    /\ panel # 0
    /\ acts < MaxActs
    /\ acts' = acts + 1
    /\ source' = text
    /\ timer' = started
    /\ UNCHANGED <<panel, opened, seed, started, output, status, generation, nextId, job,
                   inflight, toHost, toView, service, inserted>>

DebounceFires ==
    /\ timer
    /\ timer' = FALSE
    /\ RequestRender(source, <<>>)
    /\ UNCHANGED <<panel, opened, seed, started, source, toView, service, user>>

\* Without the message at the head of the queue.
Received ==
    /\ started
    /\ toView # <<>>
    /\ toView' = Tail(toView)

Message == Head(toView)

\* Mutant: the text is only put in place; a page gets no input event for that.
SourceReceivedUnseen ==
    /\ Received
    /\ Message.kind = "setSource"
    /\ source' = Message.text
    /\ UNCHANGED <<panel, opened, seed, started, timer, output, status, generation, nextId, job,
                   inflight, toHost, service, user>>

\* setSource overwrites the text and renders it at once; a timer stays armed.
SourceReceived ==
    /\ Received
    /\ Message.kind = "setSource"
    /\ source' = Message.text
    /\ RequestRender(Message.text, <<>>)
    /\ UNCHANGED <<panel, opened, seed, started, timer, service, user>>

\* The answer is one of the latest generation, and was not given before.
CurrentAnswer(id) == id \in DOMAIN inflight /\ inflight[id] = generation

Forget(id) == inflight' = [i \in DOMAIN inflight \ {id} |-> inflight[i]]

AnswerIgnored ==
    /\ Received
    /\ Message.kind = "mathRendered"
    /\ ~CurrentAnswer(Message.id)
    /\ Forget(Message.id)
    /\ UNCHANGED <<panel, opened, seed, started, source, timer, output, status, generation,
                   nextId, job, toHost, service, user>>

\* An answer for a whole text: MathML or a message, as the worker sends them.
AnswerShown ==
    /\ Received
    /\ Message.kind = "mathRendered"
    /\ CurrentAnswer(Message.id)
    /\ job.kind = "single"
    /\ Forget(Message.id)
    /\ output' = [kind |-> "single", parts |-> <<Message.result>>]
    /\ status' = IF Message.result.ok THEN "rendered" ELSE "error"
    /\ UNCHANGED <<panel, opened, seed, started, source, timer, generation, nextId, job,
                   toHost, service, user>>

\* finishMixed: the prose with the result of each segment in its place, or the
\* source of the segment where its render failed.
Parts(got) ==
    [i \in DOMAIN job.exprs |->
        IF got[job.first + i - 1].ok
        THEN got[job.first + i - 1]
        ELSE [ok |-> FALSE, of |-> job.exprs[i]]]

\* A mixed job collects its answers and is shown when all are in.
AnswerCollected ==
    /\ Received
    /\ Message.kind = "mathRendered"
    /\ CurrentAnswer(Message.id)
    /\ job.kind = "mixed"
    /\ Forget(Message.id)
    /\ LET got == [i \in DOMAIN job.got \cup {Message.id} |->
                        IF i = Message.id THEN Message.result ELSE job.got[i]]
           done == Cardinality(DOMAIN got) = Len(job.exprs)
       IN  /\ job' = [job EXCEPT !.got = got]
           /\ output' = IF done THEN [kind |-> "mixed", raw |-> job.raw, parts |-> Parts(got)] ELSE output
           /\ status' = IF done THEN "rendered" ELSE status
    /\ UNCHANGED <<panel, opened, seed, started, source, timer, generation, nextId, toHost,
                   service, user>>

\* The button: nothing for a blank text, a warning for one over the cap.
Insert ==
    /\ started
    /\ acts < MaxActs
    /\ acts' = acts + 1
    /\ source.size \notin {"empty", "blank"}
    /\ toHost' = Append(toHost, IF source.size \in {"long", "huge"} THEN Log
                                ELSE [kind |-> "insert", text |-> Payload(source),
                                      fits |-> ~(source.size = "edge" /\ IsSingle(source))])
    /\ UNCHANGED <<panel, opened, seed, started, page, toView, service, inserted>>

-----------------------------------------------------------------------------
(* The extension host.                                                     *)

\* openMathPlayground without an open panel: the text, if there is one, goes to
\* the panel with its first log message.
OpenPanel(text) ==
    /\ panel = 0
    /\ acts < MaxActs
    /\ acts' = acts + 1
    /\ panel' = opened + 1
    /\ opened' = opened + 1
    /\ seed' = text
    /\ UNCHANGED <<started, page, toHost, toView, service, inserted>>

\* openMathPlayground with an open panel: the text goes to it at once.
SendToPanel(text) ==
    /\ panel # 0
    /\ acts < MaxActs
    /\ acts' = acts + 1
    /\ toView' = Append(toView, [kind |-> "setSource", text |-> text])
    /\ UNCHANGED <<panel, opened, seed, started, page, toHost, service, inserted>>

\* The web view discards what arrives before the script listens.
MessageMissed ==
    /\ ~started
    /\ toView # <<>>
    /\ toView' = Tail(toView)
    /\ UNCHANGED <<panel, opened, seed, started, page, toHost, service, user>>

\* onDidDispose: the page is gone, with its maps and every message of it.
ClosePanel ==
    /\ panel # 0
    /\ panel' = 0
    /\ seed' = None
    /\ started' = FALSE
    /\ source' = Placeholder
    /\ timer' = FALSE
    /\ output' = Ready
    /\ status' = ""
    /\ generation' = 0
    /\ nextId' = 1
    /\ job' = NoJob
    /\ inflight' = <<>>
    /\ toHost' = <<>>
    /\ toView' = <<>>
    /\ UNCHANGED <<opened, service, user>>

\* Mutant: an id counts from one past the first.
AcceptsFromTwo(m) == m.kind = "renderMath" => m.expr # <<>> /\ m.id > 1

\* validateMessage: an empty expression and a payload over 4096 are refused.
Accepts(m) ==
    /\ m.kind = "renderMath" => m.expr # <<>>
    /\ m.kind = "insert" => m.fits

Posted == Head(toHost)

Taken ==
    /\ toHost # <<>>
    /\ toHost' = Tail(toHost)

\* A log message; the first one of a panel opened with a text posts that text.
LogReceived ==
    /\ Taken
    /\ Posted.kind = "log"
    /\ toView' = IF seed = None THEN toView ELSE Append(toView, [kind |-> "setSource", text |-> seed])
    /\ seed' = None
    /\ UNCHANGED <<panel, opened, started, page, service, user>>

\* renderMath is called; its promise keeps the panel of the message.
RenderReceived ==
    /\ Taken
    /\ Posted.kind = "renderMath"
    /\ Accepts(Posted)
    /\ Len(render) < MaxRenders
    /\ Renderer!Ask(Len(render) + 1)
    /\ render' = Append(render, [panel |-> panel, id |-> Posted.id, expr |-> Posted.expr])
    /\ UNCHANGED <<panel, opened, seed, started, page, toView, user>>

\* The payload goes to a visible EXPRESS editor, when there is one.
InsertReceived ==
    /\ Taken
    /\ Posted.kind = "insert"
    /\ Accepts(Posted)
    /\ inserted' \in {inserted, Posted.text}
    /\ UNCHANGED <<panel, opened, seed, started, page, toView, service, acts>>

MessageRefused ==
    /\ Taken
    /\ ~Accepts(Posted)
    /\ UNCHANGED <<panel, opened, seed, started, page, toView, service, user>>

\* Mutant: the answer is posted to the panel that is open now.
ReachesAnyPanel(r) == panel # 0

\* The answer goes to the panel that asked, if that is still open.
Reaches(r) == render[r].panel = panel

\* The promise of the render r resolves.
Answered(r, o) ==
    /\ Renderer!Answer({r}, o)
    /\ toView' = IF ~Reaches(r) THEN toView
                 ELSE Append(toView, [kind |-> "mathRendered", id |-> render[r].id,
                                      result |-> [ok |-> o = "mathml", of |-> render[r].expr]])
    /\ UNCHANGED <<panel, opened, seed, started, page, toHost, render, user>>

RenderAnswered(r) == \E o \in {"mathml", "error"} : Answered(r, o)

ViewReceives == SourceReceived \/ AnswerIgnored \/ AnswerShown \/ AnswerCollected
HostReceives == LogReceived \/ RenderReceived \/ InsertReceived \/ MessageRefused

Next ==
    \/ \E text \in Texts : Type(text)
    \/ \E text \in (Texts \cup {None}) : OpenPanel(text)
    \/ \E text \in Texts : SendToPanel(text)
    \/ ClosePanel
    \/ Insert
    \/ Start
    \/ DebounceFires
    \/ MessageMissed
    \/ ViewReceives
    \/ HostReceives
    \/ \E r \in Renders : RenderAnswered(r)

\* The script of a page runs, timers fire, messages arrive and the renderer
\* answers (EveryRenderAnswered of PlurimathPool); the user owes nothing.
Fairness ==
    /\ WF_vars(Start)
    /\ WF_vars(DebounceFires)
    /\ WF_vars(ViewReceives)
    /\ WF_vars(HostReceives)
    /\ \A r \in Renders : WF_vars(RenderAnswered(r))

Spec == Init /\ [][Next]_vars /\ Fairness

-----------------------------------------------------------------------------
(* Properties.                                                             *)

\* The values of the variables: an id below nextId waits for its answer, and
\* every render is asked with its record.
TypeOK ==
    /\ panel \in {0, opened} /\ opened \in 0..acts
    /\ seed \in Texts \cup {None}
    /\ started \in BOOLEAN /\ timer \in BOOLEAN
    /\ source \in Texts
    /\ status \in {"", "rejected", "rendering", "rendered", "error"}
    /\ generation \in Nat /\ nextId \in Nat
    /\ DOMAIN inflight \subseteq 1..(nextId - 1)
    /\ \A i \in DOMAIN inflight : inflight[i] \in 1..generation
    /\ asked = 1..Len(render)

\* The output is of the text, each expression in its place, and what is shown as
\* rendered was rendered from that expression for this panel.
IsRenderOf(shown, text) ==
    /\ shown.kind = IF IsSingle(text) THEN "single" ELSE "mixed"
    /\ shown.kind = "mixed" => shown.raw = text
    /\ [i \in DOMAIN shown.parts |-> shown.parts[i].of] = Expressions(text)
    /\ \A i \in DOMAIN shown.parts :
          shown.parts[i].ok =>
              \E r \in asked : /\ render[r].panel = panel
                               /\ render[r].expr = shown.parts[i].of
                               /\ answer[r] = <<"mathml">>

\* Whatever order the answers come in, whatever the user typed meanwhile and
\* whichever panel asked: a render that is put on display is one of the text
\* that last started a generation, never of an older one.  (An empty or an
\* oversized text starts none: a render under way replaces its notice.)
OutputIsOfLatestText ==
    [][output' # output /\ output'.kind \in {"single", "mixed"} => IsRenderOf(output', job.raw)]_vars

\* An answer the page waits for is on its way: its request is still to be
\* received, is being rendered or is answered; none is lost between the
\* maps, the messages and the renderer.  Only an empty segment is refused.
WaitsForWhatComes ==
    /\ status = "rendering" => \E id \in DOMAIN inflight : inflight[id] = generation
    /\ \A id \in DOMAIN inflight : inflight[id] = generation =>
          \/ \E i \in DOMAIN toHost : toHost[i].kind = "renderMath" /\ toHost[i].id = id
          \/ \E r \in asked : render[r].panel = panel /\ render[r].id = id /\ answer[r] = <<>>
          \/ \E i \in DOMAIN toView : toView[i].kind = "mathRendered" /\ toView[i].id = id
          \/ job.exprs[id - job.first + 1] = <<>>

\* A text that asks for a render and has no empty segment.
Renderable(text) ==
    /\ text.size \notin {"empty", "huge"}
    /\ \A i \in DOMAIN Expressions(text) : Expressions(text)[i] # <<>>

\* The render of a text that stays in the page is shown in the end, and the text
\* a panel is opened with reaches the page, unless the panel is closed.
TextsAreShown ==
    /\ \A text \in Texts : Renderable(text) =>
          (started /\ source = text ~> \/ output.kind \in {"single", "mixed"} /\ IsRenderOf(output, text)
                                       \/ source # text
                                       \/ panel = 0)
    /\ \A text \in Texts : seed = text ~> source = text \/ panel = 0
=============================================================================

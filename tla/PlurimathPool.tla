--------------------------- MODULE PlurimathPool ---------------------------
(***************************************************************************)
(* The worker pool of the extension host that turns AsciiMath and LaTeX    *)
(* into MathML (src/extension/plurimath-pool.ts) together with the worker  *)
(* thread it drives (src/extension/workers/plurimath-worker.ts).           *)
(*                                                                         *)
(* The pool has size one.  A render gets an id, a timer and a slot in the  *)
(* shared map `pending`, and is posted to the current worker.  A worker    *)
(* takes its requests in order; an expression may make it hang, since the  *)
(* Opal runtime cannot be interrupted.  The timer of a hung render         *)
(* terminates the worker, whose `exit` event arrives some time later: in   *)
(* between a fresh worker may already serve other requests.                *)
(*                                                                         *)
(* Timers all have the same delay, so they fire in the order they were     *)
(* armed; nothing else is assumed of time.                                 *)
(***************************************************************************)
EXTENDS Naturals, Sequences, FiniteSets

CONSTANTS
    MaxRequests,    \* bound: renders asked in a behaviour
    MaxWorkers,     \* bound: workers spawned in a behaviour
    NoWorker        \* `worker === undefined`

ASSUME PoolAssumption ==
    /\ MaxRequests \in Nat
    /\ MaxWorkers \in Nat
    /\ NoWorker \notin 1..MaxWorkers

Ids == 1..MaxRequests
Workers == 1..MaxWorkers

\* What an expression does to the worker that evaluates it.
Kinds == {"good", "malformed", "hang"}

\* The ways slot.resolve is called: with MathML, or with one of the errors.
Outcomes == {"mathml", "parseError", "timeout", "workerError", "exited", "shutDown"}

\* idle: not spawned yet.  terminating: terminate() was called.  crashed: an
\* uncaught error stopped it, `error` not delivered.  stopped: only `exit` is
\* still to be delivered.  gone: `exit` was delivered.
WorkerStates == {"idle", "live", "terminating", "crashed", "stopped", "gone"}

VARIABLES
    worker,     \* the module variable `worker`
    nextId,     \* the module variable `nextId`
    pending,    \* keys of the map `pending`
    timers,     \* requests whose timer is armed
    kind,       \* request -> what its expression does
    owner,      \* request -> the worker it was posted to (`w` in renderMath)
    reply,      \* request -> the calls of its slot.resolve
    wstate,     \* worker -> life cycle
    inbox,      \* worker -> requests posted to it and not finished
    outbox      \* worker -> replies posted by it and not delivered

vars == <<worker, nextId, pending, timers, kind, owner, reply, wstate, inbox, outbox>>

Replies == [id : Ids, outcome : {"mathml", "parseError"}]

TypeOK ==
    /\ worker \in Workers \cup {NoWorker}
    /\ nextId \in 1..(MaxRequests + 1)
    /\ pending \in SUBSET Ids
    /\ timers \in SUBSET Ids
    /\ kind \in [Ids -> Kinds]
    /\ owner \in [Ids -> Workers \cup {NoWorker}]
    /\ reply \in [Ids -> Seq(Outcomes)]
    /\ wstate \in [Workers -> WorkerStates]
    /\ inbox \in [Workers -> Seq(Ids)]
    /\ outbox \in [Workers -> Seq(Replies)]

Init ==
    /\ worker = NoWorker
    /\ nextId = 1
    /\ pending = {}
    /\ timers = {}
    /\ kind = [r \in Ids |-> "good"]
    /\ owner = [r \in Ids |-> NoWorker]
    /\ reply = [r \in Ids |-> <<>>]
    /\ wstate = [w \in Workers |-> "idle"]
    /\ inbox = [w \in Workers |-> <<>>]
    /\ outbox = [w \in Workers |-> <<>>]

-----------------------------------------------------------------------------
(* The extension host.                                                     *)

\* slot.resolve of every request in S.
Resolve(S, o) ==
    reply' = [r \in Ids |-> IF r \in S THEN Append(reply[r], o) ELSE reply[r]]

\* Mutant: the drained slots keep their timers.
DrainPendingLeavesTimers(o) ==
    /\ Resolve(pending, o)
    /\ timers' = timers
    /\ pending' = {}

\* The loop of the `error` and `exit` handlers and of the shutdown: every slot
\* of the shared map is failed, whichever worker its request was posted to.
DrainPending(o) ==
    /\ Resolve(pending, o)
    /\ timers' = timers \ pending
    /\ pending' = {}

ForgetWorker(w) == worker' = IF worker = w THEN NoWorker ELSE worker

\* getWorker: the current worker, or one spawned now.
Chosen(w) ==
    \/ worker = w
    \/ worker = NoWorker /\ wstate[w] = "idle"

\* Mutants: the id is taken after the increment; no timer is armed.
RenderPreIncrement(w, k) ==
    /\ nextId \in Ids
    /\ Chosen(w)
    /\ nextId' = nextId + 1
    /\ worker' = w
    /\ wstate' = [wstate EXCEPT ![w] = IF worker = NoWorker THEN "live" ELSE @]
    /\ pending' = pending \cup {nextId'}
    /\ timers' = timers \cup {nextId'}
    /\ UNCHANGED <<kind, owner, inbox, reply, outbox>>

RenderWithoutTimer(w, k) ==
    /\ nextId \in Ids
    /\ Chosen(w)
    /\ nextId' = nextId + 1
    /\ worker' = w
    /\ wstate' = [wstate EXCEPT ![w] = IF worker = NoWorker THEN "live" ELSE @]
    /\ pending' = pending \cup {nextId}
    /\ kind' = [kind EXCEPT ![nextId] = k]
    /\ owner' = [owner EXCEPT ![nextId] = w]
    /\ inbox' = [inbox EXCEPT ![w] = Append(@, nextId)]
    /\ UNCHANGED <<timers, reply, outbox>>

\* renderMath with an expression within the length limits (an empty or an
\* oversized one is answered before the pool's state is touched).
Render(w, k) ==
    /\ nextId \in Ids
    /\ Chosen(w)
    /\ nextId' = nextId + 1
    /\ worker' = w
    /\ wstate' = [wstate EXCEPT ![w] = IF worker = NoWorker THEN "live" ELSE @]
    /\ pending' = pending \cup {nextId}
    /\ timers' = timers \cup {nextId}
    /\ kind' = [kind EXCEPT ![nextId] = k]
    /\ owner' = [owner EXCEPT ![nextId] = w]
    /\ inbox' = [inbox EXCEPT ![w] = Append(@, nextId)]
    /\ UNCHANGED <<reply, outbox>>

\* Mutant: the worker is dropped but not terminated.
TerminateNothing(w) == UNCHANGED wstate

\* terminate() on a worker: its `exit` comes later, and only once.
Terminate(w) ==
    wstate' = [wstate EXCEPT ![w] = IF @ = "live" THEN "terminating" ELSE @]

\* Mutant: the timed out slot stays in the map.
TimerFiresKeepsSlot(r) ==
    /\ r \in timers
    /\ \A q \in timers : r <= q
    /\ timers' = timers \ {r}
    /\ Terminate(owner[r])
    /\ ForgetWorker(owner[r])
    /\ Resolve({r}, "timeout")
    /\ UNCHANGED <<pending, nextId, kind, owner, inbox, outbox>>

\* The timer of request r, the oldest armed one.
TimerFires(r) ==
    /\ r \in timers
    /\ \A q \in timers : r <= q
    /\ pending' = pending \ {r}
    /\ timers' = timers \ {r}
    /\ Terminate(owner[r])
    /\ ForgetWorker(owner[r])
    /\ Resolve({r}, "timeout")
    /\ UNCHANGED <<nextId, kind, owner, inbox, outbox>>

\* Mutant: the answered slot stays in the map.
OnMessageKeepsSlot(w) ==
    /\ outbox[w] # <<>>
    /\ LET m == Head(outbox[w])
           S == {m.id} \cap pending
       IN  timers' = timers \ S /\ Resolve(S, m.outcome)
    /\ outbox' = [outbox EXCEPT ![w] = Tail(@)]
    /\ UNCHANGED <<pending, worker, nextId, kind, owner, wstate, inbox>>

\* The `message` event; a reply whose slot is gone is ignored.
OnMessage(w) ==
    /\ outbox[w] # <<>>
    /\ LET m == Head(outbox[w])
           S == {m.id} \cap pending
       IN  /\ pending' = pending \ S
           /\ timers' = timers \ S
           /\ Resolve(S, m.outcome)
    /\ outbox' = [outbox EXCEPT ![w] = Tail(@)]
    /\ UNCHANGED <<worker, nextId, kind, owner, wstate, inbox>>

\* The `error` event.
OnError(w) ==
    /\ wstate[w] = "crashed"
    /\ DrainPending("workerError")
    /\ ForgetWorker(w)
    /\ wstate' = [wstate EXCEPT ![w] = "stopped"]
    /\ UNCHANGED <<nextId, kind, owner, inbox, outbox>>

\* Mutant: the exit handler leaves the slots to their timers.
OnExitWithoutDrain(w) ==
    /\ wstate[w] = "stopped"
    /\ outbox[w] = <<>>
    /\ ForgetWorker(w)
    /\ wstate' = [wstate EXCEPT ![w] = "gone"]
    /\ UNCHANGED <<pending, timers, reply, nextId, kind, owner, inbox, outbox>>

\* The `exit` event, delivered after the replies the worker had posted.
OnExit(w) ==
    /\ wstate[w] = "stopped"
    /\ outbox[w] = <<>>
    /\ DrainPending("exited")
    /\ ForgetWorker(w)
    /\ wstate' = [wstate EXCEPT ![w] = "gone"]
    /\ UNCHANGED <<nextId, kind, owner, inbox, outbox>>

\* shutdownPlurimathPool.  The module keeps its context, so a render that
\* comes later spawns a worker again.
Shutdown ==
    /\ IF worker = NoWorker THEN UNCHANGED wstate ELSE Terminate(worker)
    /\ worker' = NoWorker
    /\ DrainPending("shutDown")
    /\ UNCHANGED <<nextId, kind, owner, inbox, outbox>>

-----------------------------------------------------------------------------
(* The worker threads.                                                     *)

Running(w) == wstate[w] \in {"live", "terminating"}

\* The worker's message handler: it answers every expression it can evaluate.
WorkerReplies(w) ==
    /\ Running(w)
    /\ inbox[w] # <<>>
    /\ kind[Head(inbox[w])] # "hang"
    /\ LET r == Head(inbox[w])
           o == IF kind[r] = "good" THEN "mathml" ELSE "parseError"
       IN  outbox' = [outbox EXCEPT ![w] = Append(@, [id |-> r, outcome |-> o])]
    /\ inbox' = [inbox EXCEPT ![w] = Tail(@)]
    /\ UNCHANGED <<worker, nextId, pending, timers, kind, owner, reply, wstate>>

\* An uncaught error stops the thread (the module cannot be loaded, memory).
WorkerCrashes(w) ==
    /\ wstate[w] = "live"
    /\ wstate' = [wstate EXCEPT ![w] = "crashed"]
    /\ UNCHANGED <<worker, nextId, pending, timers, kind, owner, reply, inbox, outbox>>

\* The thread really ends after terminate().
WorkerStops(w) ==
    /\ wstate[w] = "terminating"
    /\ wstate' = [wstate EXCEPT ![w] = "stopped"]
    /\ UNCHANGED <<worker, nextId, pending, timers, kind, owner, reply, inbox, outbox>>

-----------------------------------------------------------------------------
Next ==
    \/ \E w \in Workers, k \in Kinds : Render(w, k)
    \/ \E r \in Ids : TimerFires(r)
    \/ \E w \in Workers : \/ OnMessage(w)
                          \/ OnError(w)
                          \/ OnExit(w)
                          \/ WorkerReplies(w)
                          \/ WorkerCrashes(w)
                          \/ WorkerStops(w)
    \/ Shutdown

\* The event loop fires due timers.  No fairness is asked of the worker: it
\* may hang, or its events may come arbitrarily late.
Fairness == \A r \in Ids : WF_vars(TimerFires(r))

Spec == Init /\ [][Next]_vars /\ Fairness

-----------------------------------------------------------------------------
(* Properties.                                                             *)

Asked == 1..(nextId - 1)

\* Every asked render is either in the map or was answered, and then exactly
\* once: no handler answers a slot that another handler already answered.
AnsweredOnce ==
    \A r \in Ids :
        /\ r \in Asked \ pending => Len(reply[r]) = 1
        /\ r \in pending \/ r \notin Asked => reply[r] = <<>>

\* Timers and slots come and go together.  A timer that outlived its slot
\* would terminate a healthy worker two seconds later; a slot without a timer
\* could wait for a hung worker for ever.
TimersMatchSlots == timers = pending

\* Pool size one: a worker that still runs requests is the current one, so no
\* hung thread is left behind unreferenced.
OneLiveWorker == \A w \in Workers : wstate[w] = "live" => worker = w

\* A slot never waits for a worker whose last event was already delivered:
\* the drain in the exit handler leaves no orphan behind.
NoOrphanSlot ==
    \A r \in pending : owner[r] \in Workers /\ wstate[owner[r]] # "gone"

\* Every asked render is answered, whatever the worker does: the hard timeout
\* is the second-line defence.
EveryRenderAnswered == \A r \in Ids : (r \in pending) ~> (reply[r] # <<>>)

\* The pool implements the render service.
Service == INSTANCE RenderService WITH
    Requests <- Ids, asked <- Asked, answer <- reply
ServiceSpec == Service!Spec

=============================================================================

------------------------ MODULE PlurimathPool_proofs ------------------------
(***************************************************************************)
(* The safety of the worker pool, for any number of requests and workers,  *)
(* and that the pool implements the render service.                        *)
(***************************************************************************)
EXTENDS PlurimathPool, TLAPS

\* Slots are asked requests, the current worker was not terminated, and no
\* request was posted to a worker that was not spawned.
SlotsAsked == pending \subseteq Asked
CurrentRuns == worker # NoWorker => wstate[worker] \in {"live", "crashed"}
OwnersSpawned == \A r \in Ids : owner[r] \in Workers => wstate[owner[r]] # "idle"

IInv ==
    /\ TypeOK
    /\ AnsweredOnce
    /\ TimersMatchSlots
    /\ OneLiveWorker
    /\ NoOrphanSlot
    /\ SlotsAsked
    /\ CurrentRuns
    /\ OwnersSpawned

\* Answering the slots of S, which have no answer yet, gives each one answer.
LEMMA ResolveAnswers ==
    ASSUME TypeOK, NEW S \in SUBSET Ids, NEW o \in Outcomes, Resolve(S, o),
           \A r \in S : reply[r] = <<>>
    PROVE  /\ reply' = [r \in Ids |-> IF r \in S THEN <<o>> ELSE reply[r]]
           /\ reply' \in [Ids -> Seq(Outcomes)]
           /\ \A r \in S : reply'[r] = <<o>> /\ Len(reply'[r]) = 1
           /\ \A r \in Ids \ S : reply'[r] = reply[r]
  <1>1. reply \in [Ids -> Seq(Outcomes)]
    BY DEF TypeOK
  <1>2. /\ \A r \in S : reply'[r] = Append(<<>>, o)
        /\ \A r \in Ids \ S : reply'[r] = reply[r]
    BY DEF Resolve
  <1>3. Append(<<>>, o) = <<o>> /\ <<o>> \in Seq(Outcomes) /\ Len(<<o>>) = 1
    BY SMT
  <1>4. reply' = [r \in Ids |-> IF r \in S THEN <<o>> ELSE reply[r]]
    <2>1. \A r \in Ids :
             (IF r \in S THEN Append(reply[r], o) ELSE reply[r])
             = (IF r \in S THEN <<o>> ELSE reply[r])
      BY <1>3
    <2> QED
      BY <2>1 DEF Resolve
  <1> QED
    BY <1>1, <1>2, <1>3, <1>4

\* The slots have no answer yet.
LEMMA SlotsOpen ==
    ASSUME IInv
    PROVE  /\ pending \in SUBSET Ids
           /\ \A r \in pending : reply[r] = <<>>
  BY DEF IInv, TypeOK, AnsweredOnce

\* The reply at the head of an outbox is a reply.
LEMMA HeadOfOutbox ==
    ASSUME TypeOK, NEW w \in Workers, outbox[w] # <<>>
    PROVE  /\ Head(outbox[w]) \in Replies
           /\ Tail(outbox[w]) \in Seq(Replies)
  BY DEF TypeOK

\* The pool starts idle.
LEMMA InitInv == Init => IInv
  <1> SUFFICES ASSUME Init PROVE IInv
    OBVIOUS
  <1>1. TypeOK
    BY PoolAssumption DEF Init, TypeOK, Ids, Workers, Kinds, WorkerStates
  <1>2. AnsweredOnce /\ TimersMatchSlots /\ SlotsAsked
    BY DEF Init, AnsweredOnce, TimersMatchSlots, SlotsAsked, Asked, Ids
  <1>3. OneLiveWorker /\ NoOrphanSlot /\ CurrentRuns /\ OwnersSpawned
    BY PoolAssumption DEF Init, OneLiveWorker, NoOrphanSlot, CurrentRuns, OwnersSpawned, Workers
  <1> QED
    BY <1>1, <1>2, <1>3 DEF IInv

\* A render keeps the invariant: its id is fresh, its worker current.
LEMMA RenderInv ==
    ASSUME IInv, NEW w \in Workers, NEW k \in Kinds, Render(w, k)
    PROVE  IInv'
  <1> USE DEF Render, IInv
  <1>1. nextId \in Ids /\ nextId + 1 \in 1..(MaxRequests + 1)
    BY PoolAssumption DEF Ids
  <1>2. TypeOK'
    <2>1. wstate' \in [Workers -> WorkerStates]
      BY DEF TypeOK, WorkerStates
    <2>2. inbox' \in [Workers -> Seq(Ids)]
      BY <1>1 DEF TypeOK
    <2> QED
      BY <1>1, <2>1, <2>2 DEF TypeOK
  <1>3. AnsweredOnce' /\ SlotsAsked'
    BY <1>1 DEF TypeOK, AnsweredOnce, SlotsAsked, Asked, Ids
  <1>4. TimersMatchSlots'
    BY DEF TimersMatchSlots
  <1>5. wstate'[w] \in {"live", "crashed"}
    BY DEF TypeOK, Chosen, CurrentRuns
  <1>6. \A v \in Workers \ {w} : wstate'[v] = wstate[v]
    BY DEF TypeOK
  <1>7. OneLiveWorker'
    BY <1>6, PoolAssumption DEF OneLiveWorker, Chosen, Workers
  <1>8. NoOrphanSlot' /\ OwnersSpawned'
    BY <1>1, <1>5, <1>6 DEF TypeOK, NoOrphanSlot, OwnersSpawned
  <1>9. CurrentRuns'
    BY <1>5 DEF CurrentRuns
  <1> QED
    BY <1>2, <1>3, <1>4, <1>7, <1>8, <1>9

\* A drain answers every slot and empties the map.
LEMMA DrainInv ==
    ASSUME IInv, NEW o \in Outcomes, DrainPending(o),
           UNCHANGED <<nextId, kind, owner, inbox, outbox>>,
           worker' \in Workers \cup {NoWorker},
           wstate' \in [Workers -> WorkerStates]
    PROVE  TypeOK' /\ AnsweredOnce' /\ TimersMatchSlots' /\ NoOrphanSlot' /\ SlotsAsked'
  <1> USE DEF DrainPending, IInv
  <1>1. /\ reply' \in [Ids -> Seq(Outcomes)]
        /\ \A r \in pending : Len(reply'[r]) = 1
        /\ \A r \in Ids \ pending : reply'[r] = reply[r]
    BY SlotsOpen, ResolveAnswers
  <1>2. TypeOK'
    BY <1>1 DEF TypeOK
  <1>3. AnsweredOnce'
    BY <1>1 DEF AnsweredOnce, SlotsAsked, Asked
  <1>4. TimersMatchSlots' /\ NoOrphanSlot' /\ SlotsAsked'
    BY DEF TimersMatchSlots, NoOrphanSlot, SlotsAsked
  <1> QED
    BY <1>2, <1>3, <1>4

\* Answering some slots and dropping them leaves the others as they were.
LEMMA AnswerInv ==
    ASSUME IInv, NEW S \in SUBSET pending, NEW o \in Outcomes, Resolve(S, o),
           pending' = pending \ S, timers' = timers \ S,
           UNCHANGED <<nextId, owner>>
    PROVE  /\ pending' \in SUBSET Ids
           /\ reply' \in [Ids -> Seq(Outcomes)]
           /\ AnsweredOnce' /\ TimersMatchSlots' /\ SlotsAsked'
  <1> USE DEF IInv
  <1>1. /\ reply' \in [Ids -> Seq(Outcomes)]
        /\ \A r \in S : Len(reply'[r]) = 1
        /\ \A r \in Ids \ S : reply'[r] = reply[r]
    BY SlotsOpen, ResolveAnswers
  <1>2. AnsweredOnce'
    BY <1>1 DEF AnsweredOnce, SlotsAsked, Asked
  <1> QED
    BY <1>1, <1>2, SlotsOpen DEF TimersMatchSlots, SlotsAsked, Asked

LEMMA TimerFiresInv ==
    ASSUME IInv, NEW r \in Ids, TimerFires(r)
    PROVE  IInv'
  <1> USE DEF IInv, TimerFires
  <1> DEFINE w == owner[r]
  <1>1. r \in pending /\ w \in Workers /\ wstate[w] # "gone"
    BY DEF TimersMatchSlots, NoOrphanSlot
  <1>2. /\ pending' \in SUBSET Ids
        /\ reply' \in [Ids -> Seq(Outcomes)]
        /\ AnsweredOnce' /\ TimersMatchSlots' /\ SlotsAsked'
    BY <1>1, AnswerInv, "timeout" \in Outcomes DEF Outcomes
  <1>3. /\ wstate' \in [Workers -> WorkerStates]
        /\ wstate'[w] = IF wstate[w] = "live" THEN "terminating" ELSE wstate[w]
        /\ \A v \in Workers \ {w} : wstate'[v] = wstate[v]
    BY <1>1 DEF Terminate, TypeOK, WorkerStates
  <1>4. worker' = IF worker = w THEN NoWorker ELSE worker
    BY DEF ForgetWorker
  <1>5. TypeOK'
    BY <1>2, <1>3, <1>4 DEF TypeOK
  <1>6. OneLiveWorker' /\ CurrentRuns'
    BY <1>1, <1>3, <1>4 DEF OneLiveWorker, CurrentRuns, TypeOK
  <1>7. NoOrphanSlot' /\ OwnersSpawned'
    BY <1>1, <1>3 DEF NoOrphanSlot, OwnersSpawned, TypeOK
  <1> QED
    BY <1>2, <1>5, <1>6, <1>7

LEMMA OnMessageInv ==
    ASSUME IInv, NEW w \in Workers, OnMessage(w)
    PROVE  IInv'
  <1> USE DEF IInv, OnMessage
  <1> DEFINE m == Head(outbox[w])
             S == {m.id} \cap pending
  <1>1. m.outcome \in Outcomes /\ Tail(outbox[w]) \in Seq(Replies)
    BY HeadOfOutbox DEF Replies, Outcomes
  <1>2. /\ pending' \in SUBSET Ids
        /\ reply' \in [Ids -> Seq(Outcomes)]
        /\ AnsweredOnce' /\ TimersMatchSlots' /\ SlotsAsked'
    BY <1>1, AnswerInv
  <1>3. TypeOK'
    BY <1>1, <1>2 DEF TypeOK
  <1>4. OneLiveWorker' /\ CurrentRuns' /\ NoOrphanSlot' /\ OwnersSpawned'
    BY DEF OneLiveWorker, CurrentRuns, NoOrphanSlot, OwnersSpawned
  <1> QED
    BY <1>2, <1>3, <1>4

LEMMA OnErrorInv ==
    ASSUME IInv, NEW w \in Workers, OnError(w)
    PROVE  IInv'
  <1> USE DEF IInv, OnError
  <1>1. wstate' \in [Workers -> WorkerStates] /\ wstate'[w] = "stopped"
    BY DEF TypeOK, WorkerStates
  <1>2. \A v \in Workers \ {w} : wstate'[v] = wstate[v]
    BY DEF TypeOK
  <1>3. worker' = IF worker = w THEN NoWorker ELSE worker
    BY DEF ForgetWorker
  <1>4. TypeOK' /\ AnsweredOnce' /\ TimersMatchSlots' /\ NoOrphanSlot' /\ SlotsAsked'
    BY <1>1, <1>3, DrainInv, "workerError" \in Outcomes DEF Outcomes, TypeOK
  <1>5. OneLiveWorker' /\ CurrentRuns' /\ OwnersSpawned'
    BY <1>1, <1>2, <1>3 DEF OneLiveWorker, CurrentRuns, OwnersSpawned, TypeOK
  <1> QED
    BY <1>4, <1>5

LEMMA OnExitInv ==
    ASSUME IInv, NEW w \in Workers, OnExit(w)
    PROVE  IInv'
  <1> USE DEF IInv, OnExit
  <1>1. wstate' \in [Workers -> WorkerStates] /\ wstate'[w] = "gone"
    BY DEF TypeOK, WorkerStates
  <1>2. \A v \in Workers \ {w} : wstate'[v] = wstate[v]
    BY DEF TypeOK
  <1>3. worker' = IF worker = w THEN NoWorker ELSE worker
    BY DEF ForgetWorker
  <1>4. TypeOK' /\ AnsweredOnce' /\ TimersMatchSlots' /\ NoOrphanSlot' /\ SlotsAsked'
    BY <1>1, <1>3, DrainInv, "exited" \in Outcomes DEF Outcomes, TypeOK
  <1>5. OneLiveWorker' /\ CurrentRuns' /\ OwnersSpawned'
    BY <1>1, <1>2, <1>3 DEF OneLiveWorker, CurrentRuns, OwnersSpawned, TypeOK
  <1> QED
    BY <1>4, <1>5

LEMMA ShutdownInv == ASSUME IInv, Shutdown PROVE IInv'
  <1> USE DEF IInv, Shutdown
  <1>1. /\ wstate' \in [Workers -> WorkerStates]
        /\ \A v \in Workers : wstate'[v] = IF v = worker /\ wstate[v] = "live"
                                           THEN "terminating" ELSE wstate[v]
    BY PoolAssumption DEF Terminate, TypeOK, WorkerStates, Workers
  <1>2. TypeOK' /\ AnsweredOnce' /\ TimersMatchSlots' /\ NoOrphanSlot' /\ SlotsAsked'
    BY <1>1, DrainInv, "shutDown" \in Outcomes DEF Outcomes
  <1>3. OneLiveWorker' /\ CurrentRuns' /\ OwnersSpawned'
    BY <1>1 DEF OneLiveWorker, CurrentRuns, OwnersSpawned, TypeOK
  <1> QED
    BY <1>2, <1>3

\* The worker threads touch only their own state and mailboxes.
LEMMA WorkerInv ==
    ASSUME IInv, NEW w \in Workers,
           WorkerReplies(w) \/ WorkerCrashes(w) \/ WorkerStops(w)
    PROVE  IInv'
  <1> USE DEF IInv
  <1>1. CASE WorkerReplies(w)
    <2> DEFINE r == Head(inbox[w])
    <2>1. r \in Ids /\ Tail(inbox[w]) \in Seq(Ids)
      BY <1>1 DEF WorkerReplies, TypeOK
    <2>2. [id |-> r, outcome |-> IF kind[r] = "good" THEN "mathml" ELSE "parseError"] \in Replies
      BY <2>1 DEF Replies
    <2>3. outbox' \in [Workers -> Seq(Replies)]
      BY <1>1, <2>2 DEF WorkerReplies, TypeOK
    <2>4. inbox' \in [Workers -> Seq(Ids)]
      BY <1>1, <2>1 DEF WorkerReplies, TypeOK
    <2>5. UNCHANGED <<worker, nextId, pending, timers, kind, owner, reply, wstate>>
      BY <1>1 DEF WorkerReplies
    <2> QED
      BY <2>3, <2>4, <2>5 DEF TypeOK, AnsweredOnce, Asked, TimersMatchSlots, OneLiveWorker,
                              NoOrphanSlot, SlotsAsked, CurrentRuns, OwnersSpawned
  <1>2. CASE WorkerCrashes(w) \/ WorkerStops(w)
    <2>1. UNCHANGED <<worker, nextId, pending, timers, kind, owner, reply, inbox, outbox>>
      BY <1>2 DEF WorkerCrashes, WorkerStops
    <2>2. /\ wstate' \in [Workers -> WorkerStates]
          /\ \A v \in Workers \ {w} : wstate'[v] = wstate[v]
          /\ \/ wstate[w] = "live" /\ wstate'[w] = "crashed"
             \/ wstate[w] = "terminating" /\ wstate'[w] = "stopped"
      BY <1>2 DEF WorkerCrashes, WorkerStops, TypeOK, WorkerStates
    <2>3. TypeOK' /\ AnsweredOnce' /\ TimersMatchSlots' /\ SlotsAsked'
      BY <2>1, <2>2 DEF TypeOK, AnsweredOnce, Asked, TimersMatchSlots, SlotsAsked
    <2>4. OneLiveWorker' /\ CurrentRuns' /\ NoOrphanSlot' /\ OwnersSpawned'
      BY <2>1, <2>2 DEF OneLiveWorker, CurrentRuns, NoOrphanSlot, OwnersSpawned, TypeOK
    <2> QED
      BY <2>3, <2>4
  <1> QED
    BY <1>1, <1>2

\* Every step keeps the invariant.
LEMMA NextInv == IInv /\ [Next]_vars => IInv'
  <1> SUFFICES ASSUME IInv, [Next]_vars PROVE IInv'
    OBVIOUS
  <1>1. ASSUME NEW w \in Workers, NEW k \in Kinds, Render(w, k) PROVE IInv'
    BY <1>1, RenderInv
  <1>2. ASSUME NEW r \in Ids, TimerFires(r) PROVE IInv'
    BY <1>2, TimerFiresInv
  <1>3. ASSUME NEW w \in Workers, OnMessage(w) PROVE IInv'
    BY <1>3, OnMessageInv
  <1>4. ASSUME NEW w \in Workers, OnError(w) PROVE IInv'
    BY <1>4, OnErrorInv
  <1>5. ASSUME NEW w \in Workers, OnExit(w) PROVE IInv'
    BY <1>5, OnExitInv
  <1>6. ASSUME NEW w \in Workers, WorkerReplies(w) \/ WorkerCrashes(w) \/ WorkerStops(w)
        PROVE  IInv'
    BY <1>6, WorkerInv
  <1>7. CASE Shutdown
    BY <1>7, ShutdownInv
  <1>8. CASE UNCHANGED vars
    BY <1>8 DEF vars, IInv, TypeOK, AnsweredOnce, Asked, TimersMatchSlots, OneLiveWorker,
                NoOrphanSlot, SlotsAsked, CurrentRuns, OwnersSpawned
  <1> QED
    BY <1>1, <1>2, <1>3, <1>4, <1>5, <1>6, <1>7, <1>8 DEF Next

LEMMA Invariance == Spec => []IInv
  BY InitInv, NextInv, PTL DEF Spec

\* The pool's state has its types.
THEOREM Typing == Spec => []TypeOK
  BY Invariance, PTL DEF IInv

\* No request is answered twice, and none that left the map is unanswered,
\* whatever timeouts, crashes, exits and shutdowns race with its reply.
THEOREM AnswersAreOnce == Spec => []AnsweredOnce
  BY Invariance, PTL DEF IInv

\* Every slot has its timer armed and no timer outlives its slot.
THEOREM TimersAreSlots == Spec => []TimersMatchSlots
  BY Invariance, PTL DEF IInv

\* No live worker is left behind unreferenced: the one that runs is the one the
\* pool will use, terminate and await.
THEOREM OneWorkerLives == Spec => []OneLiveWorker
  BY Invariance, PTL DEF IInv

\* No slot waits for a worker whose exit was delivered.
THEOREM WorkersAreKept == Spec => []NoOrphanSlot
  BY Invariance, PTL DEF IInv

-----------------------------------------------------------------------------
\* Answering the slots of S is a step of the service, or none if S is empty.
LEMMA ResolveIsAnswer ==
    ASSUME IInv, NEW S \in SUBSET pending, NEW o \in Outcomes, Resolve(S, o),
           UNCHANGED nextId
    PROVE  [Service!Next]_(Service!serviceVars)
  <1>1. Asked' = Asked
    BY DEF Asked
  <1>2. S \in SUBSET Ids /\ \A r \in S : r \in Asked /\ reply[r] = <<>>
    BY SlotsOpen DEF IInv, SlotsAsked
  <1>3. reply' = [r \in Ids |-> IF r \in S THEN <<o>> ELSE reply[r]]
    BY <1>2, ResolveAnswers DEF IInv
  <1>4. CASE S = {}
    <2>1. reply' = reply
      BY <1>3, <1>4 DEF IInv, TypeOK
    <2> QED
      BY <1>1, <2>1 DEF Service!serviceVars
  <1>5. CASE S # {}
    <2>1. Service!Answer(S, o)
      BY <1>1, <1>2, <1>3, <1>5 DEF Service!Answer
    <2> QED
      BY <1>2, <2>1 DEF Service!Next
  <1> QED
    BY <1>4, <1>5

\* Every step of the pool is a step of the service or leaves it unchanged.
LEMMA ServiceStep == IInv /\ [Next]_vars => [Service!Next]_(Service!serviceVars)
  <1> SUFFICES ASSUME IInv, [Next]_vars PROVE [Service!Next]_(Service!serviceVars)
    OBVIOUS
  <1>1. ASSUME NEW w \in Workers, NEW k \in Kinds, Render(w, k)
        PROVE  [Service!Next]_(Service!serviceVars)
    <2>1. nextId \in Ids /\ nextId \notin Asked /\ Asked' = Asked \cup {nextId}
      BY <1>1 DEF Render, Asked, Ids
    <2>2. Service!Ask(nextId)
      BY <1>1, <2>1 DEF Service!Ask, Render
    <2> QED
      BY <2>1, <2>2 DEF Service!Next
  <1>2. ASSUME NEW r \in Ids, TimerFires(r) PROVE [Service!Next]_(Service!serviceVars)
    <2>1. {r} \in SUBSET pending
      BY <1>2 DEF TimerFires, IInv, TimersMatchSlots
    <2> QED
      BY <1>2, <2>1, ResolveIsAnswer, "timeout" \in Outcomes DEF TimerFires, Outcomes
  <1>3. ASSUME NEW w \in Workers, OnMessage(w) PROVE [Service!Next]_(Service!serviceVars)
    <2>1. Head(outbox[w]).outcome \in Outcomes
      BY <1>3, HeadOfOutbox DEF OnMessage, IInv, Replies, Outcomes
    <2> QED
      BY <1>3, <2>1, ResolveIsAnswer DEF OnMessage
  <1>4. ASSUME NEW o \in Outcomes, DrainPending(o), UNCHANGED nextId
        PROVE  [Service!Next]_(Service!serviceVars)
    BY <1>4, ResolveIsAnswer DEF DrainPending
  <1>5. ASSUME NEW w \in Workers, OnError(w) \/ OnExit(w)
        PROVE  [Service!Next]_(Service!serviceVars)
    BY <1>4, <1>5 DEF OnError, OnExit, Outcomes
  <1>6. CASE Shutdown
    BY <1>4, <1>6 DEF Shutdown, Outcomes
  <1>7. ASSUME NEW w \in Workers, WorkerReplies(w) \/ WorkerCrashes(w) \/ WorkerStops(w)
        PROVE  [Service!Next]_(Service!serviceVars)
    BY <1>7 DEF WorkerReplies, WorkerCrashes, WorkerStops, Service!serviceVars, Asked
  <1>8. CASE UNCHANGED vars
    BY <1>8 DEF vars, Service!serviceVars, Asked
  <1> QED
    BY <1>1, <1>2, <1>3, <1>5, <1>6, <1>7, <1>8 DEF Next

\* The pool implements the render service: the rest of the extension sees every
\* request answered at most once and with one of the six outcomes.
THEOREM Refinement == Spec => ServiceSpec
  <1>1. Init => Service!Init
    BY DEF Init, Service!Init, Asked
  <1> QED
    BY <1>1, ServiceStep, Invariance, PTL DEF Spec, ServiceSpec, Service!Spec
=============================================================================

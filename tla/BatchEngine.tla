---------------------------- MODULE BatchEngine -----------------------------
(***************************************************************************)
(* One batch through the server, from the call of Build in handleBatch to  *)
(* its response: the resolver, the worker pool, the reorder buffer, the    *)
(* storage calls of executeNode and the handler goroutine, composed over   *)
(* the variables they share.  Every step of a component is an action of    *)
(* the component's module; what is added here is who takes it when.        *)
(*                                                                         *)
(* The storage engine is ShardedMap (Faults = FALSE: a call checks the     *)
(* context, then takes effect under its shard's lock) or a remote store    *)
(* (Faults = TRUE: the call may also fail, with or without effect).        *)
(***************************************************************************)
EXTENDS Storage, Sequences, Functions

CONSTANT Workers  \* the goroutines of pool.Run

\* NewConcurrentWorkerPool makes their number positive; a worker is not the
\* mark of a free mutex.
ASSUME WorkersAssumption == IsFiniteSet(Workers) /\ Workers # {} /\ "free" \notin Workers
\* handleBatch answers an empty batch before it calls Build (Gateway).
ASSUME NonEmptyAssumption == \A b \in Batches : DOMAIN b # {}

VARIABLES
    \* the call of Build
    batch, pos, lastWrite, lastReads, dependents, inDegree, scan, runnable, result,
    \* the worker pool
    doneClosed, executed, total, workCh, chClosed, remaining, runPc, runErr,
    pc, node, rel, newly,
    \* the reorder buffer and its consumer
    mu, pending, nextExpected, flushed, robTotal, outClosed, robPc, inflight,
    received, committed, consumer, drained,
    \* the storage engine and what executeNode writes into the nodes
    store, outcome,
    inStorage,   \* workers whose storage call has passed the context check
    \* the handler
    hPc,         \* "build", "drain", "await" (<-runErrCh) or "responded"
    response,    \* the status sent, "none" if the handler only logs
    ctxDone

hazardVars == <<batch, pos, lastWrite, lastReads, dependents, inDegree, scan,
                runnable, result>>
poolOnly == <<doneClosed, executed, total, workCh, chClosed, remaining, runPc,
              runErr, pc, node, rel, newly>>
robOnly == <<mu, pending, nextExpected, flushed, robTotal, outClosed, robPc, inflight,
             received, committed, consumer, drained>>
storageVars == <<store, outcome, inStorage>>
handlerVars == <<hPc, response>>
engineVars == <<hazardVars, poolOnly, robOnly, storageVars, handlerVars, ctxDone>>

H == INSTANCE HazardResolver
P == INSTANCE WorkerPool WITH Graphs <- {}
R == INSTANCE ReorderBuffer WITH Committers <- Workers, Totals <- {}, size <- Len0(batch)
Serial == INSTANCE SerialBatch

Nodes == DOMAIN batch

\* What a step of the pool, or of the buffer, leaves alone.
NotPool == <<batch, pos, lastWrite, lastReads, scan, result>>

EngineInit ==
    /\ H!HazardInit
    /\ P!PoolIdle
    /\ R!NewBuffer
    /\ store = InitialStore
    /\ outcome = [i \in Nodes |-> Pending]
    /\ inStorage = {}
    /\ hPc = "build"
    /\ response = "none"

-----------------------------------------------------------------------------
\* s.resolver.Build(ops), one loop iteration at a time.  The 400 for an error of
\* Build has no action: what translateRequest hands over is a batch that Build
\* accepts (TranslationIsExact of Gateway, AcceptsExactly of HazardResolver).
HandlerBuild ==
    /\ hPc = "build"
    /\ H!Build
    /\ UNCHANGED <<poolOnly, robOnly, storageVars, handlerVars, ctxDone>>

\* The context, the buffer and Drain, and the goroutine that calls pool.Run.
HandlerLaunch ==
    /\ hPc = "build"
    /\ result = H!Built
    /\ UNCHANGED <<hazardVars, poolOnly, storageVars, response>>
    /\ R!Drain
    /\ hPc' = "drain"

\* drainLoop sees the channel closed.
HandlerDrained ==
    /\ hPc = "drain"
    /\ UNCHANGED <<hazardVars, poolOnly, storageVars, response>>
    /\ R!ConsumerEnd
    /\ hPc' = "await"

\* Mutant: drainLoop waits for the channel only.
HandlerTimeoutNever == FALSE

\* drainLoop takes case <-ctx.Done(): 504 on a deadline, else nothing is sent.
\* Nothing else looks at why the context ended.
HandlerTimeout ==
    /\ hPc = "drain"
    /\ UNCHANGED <<hazardVars, poolOnly, storageVars>>
    /\ R!ConsumerLeave
    /\ hPc' = "responded"
    /\ response' \in {"504", "none"}

\* Mutant: the handler ignores Run's error.
HandlerRespondIgnoresErr ==
    /\ hPc = "await"
    /\ runPc = "returned"
    /\ hPc' = "responded"
    /\ response' = "200"
    /\ ctxDone' = TRUE
    /\ UNCHANGED <<hazardVars, poolOnly, robOnly, storageVars>>

\* <-runErrCh, then 500 or 200; the deferred cancel ends the context.
HandlerRespond ==
    /\ hPc = "await"
    /\ runPc = "returned"
    /\ hPc' = "responded"
    /\ response' = IF runErr = "nil" THEN "200" ELSE "500"
    /\ ctxDone' = TRUE
    /\ UNCHANGED <<hazardVars, poolOnly, robOnly, storageVars>>

\* context.WithTimeout expires, or the client goes away, while the batch runs.
ContextEnds ==
    /\ hPc \in {"drain", "await"}
    /\ ~ctxDone
    /\ ctxDone' = TRUE
    /\ UNCHANGED <<hazardVars, poolOnly, robOnly, storageVars, hPc, response>>

-----------------------------------------------------------------------------
\* The goroutine of pool.Run.
RunStep ==
    /\ hPc # "build"
    /\ P!RunStep
    /\ UNCHANGED <<NotPool, robOnly, storageVars, handlerVars>>

\* Steps of a worker that touch neither storage nor the buffer.
WorkerLoop(w) ==
    /\ \/ P!Receive(w) \/ P!ReceiveClosed(w) \/ P!SelectDone(w)
       \/ P!ReleaseOne(w) \/ P!ReleaseClose(w)
       \/ P!Dispatch(w) \/ P!Account(w) \/ P!CloseWork(w)
    /\ UNCHANGED <<NotPool, robOnly, storageVars, handlerVars>>

\* Get, Set and Delete start with ctx.Err(): past its end the call is refused
\* and executeNode stores the error.
StorageRefuse(w) ==
    /\ w \notin inStorage
    /\ ctxDone
    /\ P!Execute(w)
    /\ outcome' = [outcome EXCEPT ![node[w]] = Failed]
    /\ UNCHANGED <<NotPool, robOnly, store, inStorage, handlerVars>>

StorageEnter(w) ==
    /\ pc[w] = "execute"
    /\ w \notin inStorage
    /\ ~ctxDone
    /\ inStorage' = inStorage \cup {w}
    /\ UNCHANGED <<hazardVars, poolOnly, robOnly, store, outcome, handlerVars, ctxDone>>

\* The access under the shard lock, and executeNode's use of its answer.  The
\* context may have ended since the check.  A key is its row: Build and the
\* in-memory store compare the same strings.  PostgreSQL compares UUIDs, so for
\* it the keys stand for rider IDs of one spelling each.
StorageAccess(w) ==
    /\ w \in inStorage
    /\ P!Execute(w)
    /\ inStorage' = inStorage \ {w}
    /\ outcome' = [outcome EXCEPT ![node[w]] =
                     Ok(Observed(batch, node[w], store))]
    /\ store' = Effect(batch, node[w], store)
    /\ UNCHANGED <<NotPool, robOnly, handlerVars>>

\* Mutant: executeNode drops the error.
StorageFaultUnreported(w) ==
    /\ Faults
    /\ w \in inStorage
    /\ P!Execute(w)
    /\ inStorage' = inStorage \ {w}
    /\ store' \in {store, Effect(batch, node[w], store)}
    /\ UNCHANGED <<NotPool, robOnly, handlerVars, outcome>>

\* A remote store answers with an error; a lost answer hides an effect.
StorageFault(w) ==
    /\ Faults
    /\ w \in inStorage
    /\ P!Execute(w)
    /\ inStorage' = inStorage \ {w}
    /\ outcome' = [outcome EXCEPT ![node[w]] = Failed]
    /\ store' \in {store, Effect(batch, node[w], store)}
    /\ UNCHANGED <<NotPool, robOnly, handlerVars>>

\* rob.Commit(node), up to its return or to its send to the handler's loop,
\* and what ends that send.  Each may be the step with which Commit returns.
RobStep(w) ==
    \/ node[w] \notin committed /\ R!Commit(w, node[w])
    \/ R!FlushSend(w)
    \/ R!FlushCancel(w)

WorkerCommit(w) ==
    /\ pc[w] = "commit"
    /\ UNCHANGED <<NotPool, storageVars, handlerVars>>
    /\ RobStep(w)
    /\ IF robPc'[w] = "out" THEN P!CommitReturns(w)
                            ELSE UNCHANGED <<dependents, inDegree, runnable, poolOnly>>

WorkerStep(w) ==
    \/ WorkerLoop(w)
    \/ StorageRefuse(w) \/ StorageEnter(w) \/ StorageAccess(w) \/ StorageFault(w)
    \/ WorkerCommit(w)

HandlerStep == \/ HandlerBuild \/ HandlerLaunch \/ HandlerDrained
               \/ HandlerTimeout \/ HandlerRespond

\* Nothing is left to happen once the handler and Run have returned.
EngineDone == /\ hPc = "responded" /\ runPc = "returned"
              /\ UNCHANGED engineVars

EngineNext ==
    \/ HandlerStep
    \/ RunStep
    \/ \E w \in Workers : WorkerStep(w)
    \/ ContextEnds
    \/ EngineDone

EngineSpec == EngineInit /\ [][EngineNext]_engineVars

\* Goroutines are scheduled and storage calls return; the context need not end.
EngineFairSpec ==
    /\ EngineSpec
    /\ WF_engineVars(HandlerStep)
    /\ WF_engineVars(RunStep)
    /\ \A w \in Workers : WF_engineVars(WorkerStep(w))

-----------------------------------------------------------------------------
EngineTypeOK ==
    /\ store \in [Keys -> Value]
    /\ outcome \in [Nodes -> Outcome]
    /\ inStorage \in SUBSET Workers
    /\ hPc \in {"build", "drain", "await", "responded"}
    /\ response \in {"none", "200", "500", "504"}

Sequential == simulateSequentially(batch)

\* With the in-memory store: every operation that reports success got the
\* answer sequential execution gives, and the store holds for each key the
\* sequential value after its latest successful write, even when the context
\* ends in the middle.  Cancellation cuts each key's history at a prefix.
OkIsSequential ==
    /\ \A i \in Nodes : outcome[i].state = "ok" =>
          outcome[i].val = Observed(batch, i, Sequential[i])
    /\ \A k \in Keys :
          LET done == {i \in Nodes : /\ batch[i].Key = k
                                     /\ IsMutation(batch[i])
                                     /\ outcome[i].state = "ok"}
          IN  store[k] = IF done = {} THEN InitialStore[k]
                         ELSE Sequential[1 + CHOOSE i \in done : \A j \in done : j <= i][k]

\* With the in-memory store a 200 means the whole batch ran as if
\* sequentially: it carries every result once and in order, none of them a
\* context error, and no worker is left that could still touch the store.
SuccessIsSequential ==
    response = "200" =>
      /\ received = [p \in 1 .. Len0(batch) |-> p - 1]
      /\ \A i \in Nodes : outcome[i].state = "ok"
      /\ store = Sequential[Len0(batch)]
      /\ \A w \in Workers : pc[w] = "exited"

\* Commit copies the operation out of its node: what has been copied never
\* changes afterwards.  No result is copied before it is final.
CopiesAreFinal ==
    [][/\ \A i \in committed' : outcome'[i] # Pending
       /\ \A i \in committed : outcome'[i] = outcome[i]]_engineVars

\* The engine implements the abstract batch: whatever the interleaving, the
\* storage effects happen one by one, each after the conflicting earlier ones.
ImplementsSerialBatch == Serial!SerialSpec


\* Every request is answered or abandoned.
HandlerReturns == <>(hPc = "responded")

\* Run ends too, also when the handler left first: no goroutine is leaked.
NoLeak == <>(runPc = "returned")
=============================================================================

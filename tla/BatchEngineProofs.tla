------------------------- MODULE BatchEngineProofs --------------------------
(***************************************************************************)
(* The batch engine as a whole, for every batch, every number of workers   *)
(* and every interleaving: it implements SerialBatch, and with the         *)
(* in-memory store it computes what sequential execution computes.         *)
(*                                                                         *)
(* The resolver, the pool and the buffer keep the invariants proved of     *)
(* them alone, since every step of the engine is a step of each of them or *)
(* leaves it alone.  What is added relates them: an operation has an       *)
(* outcome exactly when the pool has executed its node, and it is          *)
(* committed only after that.                                              *)
(***************************************************************************)
EXTENDS BatchEngine, DAGProofs

HP == INSTANCE HazardResolverProofs
PP == INSTANCE WorkerPoolProofs WITH Graphs <- {}
RP == INSTANCE ReorderBufferProofs WITH Committers <- Workers, Totals <- {},
                                        size <- Len0(batch)

\* Before the launch only Build has done anything.
BuildingInv ==
    hPc = "build" => /\ HP!HazardInv
                     /\ P!PoolIdle
                     /\ R!NewBuffer
                     /\ store = InitialStore
                     /\ outcome = [i \in Nodes |-> Pending]
                     /\ inStorage = {}
                     /\ response = "none"

\* After it the graph stays what Build made it, except for the counters.
LaunchedInv ==
    hPc # "build" => /\ result = H!Built
                     /\ H!ConflictsOrdered
                     /\ DOMAIN dependents = Nodes
                     /\ PP!PoolInv
                     /\ RP!RobInv
                     /\ drained

\* The outcomes written are those of the executed nodes.
OutcomeInv ==
    \A i \in Nodes : IF i \in executed THEN outcome[i].state \in {"ok", "failed"}
                                       ELSE outcome[i] = Pending

\* A storage call is under way only in executeNode.
InStorageInv == \A w \in inStorage : pc[w] = "execute"

\* A node is committed by the worker that executed and released it.
CommittedInv ==
    /\ committed \subseteq doneClosed
    /\ \A w \in Workers : robPc[w] = "send" => pc[w] = "commit" /\ node[w] \in committed
    /\ \A w \in Workers : (pc[w] = "commit" /\ robPc[w] = "out") => node[w] \notin committed

\* A batch is not empty: Run does start its workers.
WorkersInv == runPc # "start" => \A w \in Workers : pc[w] # "idle"

\* What the handler has seen of the buffer and of Run.
HandlerInv ==
    /\ hPc = "drain" => consumer = "reading"
    /\ hPc = "await" => consumer = "finished"
    /\ response # "none" => hPc = "responded"
    /\ response = "200" => consumer = "finished" /\ runPc = "returned" /\ runErr = "nil"
    /\ runErr # "none" => runPc = "returned"

EngineInv ==
    /\ batch \in Batches
    /\ EngineTypeOK
    /\ BuildingInv
    /\ LaunchedInv
    /\ OutcomeInv
    /\ InStorageInv
    /\ CommittedInv
    /\ WorkersInv
    /\ HandlerInv

-----------------------------------------------------------------------------
\* With the in-memory store an operation fails only because the context has
\* ended; Run, which looks at the context last, then returns an error.
FailInv ==
    \A i \in Nodes : outcome[i].state = "failed" => ctxDone /\ runErr # "nil"

\* An operation that succeeded, or that the storage engine has let in, comes
\* after earlier conflicting operations that all succeeded.
PrefixInv ==
    \A i, j \in Nodes :
      (/\ j < i /\ Conflict(batch, j, i)
       /\ outcome[i].state = "ok" \/ \E w \in inStorage : node[w] = i)
         => outcome[j].state = "ok"

\* Every answer of a successful operation is the sequential one, ...
AnswerInv ==
    \A i \in Nodes : outcome[i].state = "ok" =>
      outcome[i].val = Observed(batch, i, Sequential[i])

DoneWrites(k) == {i \in Nodes : /\ batch[i].Key = k
                                /\ IsMutation(batch[i])
                                /\ outcome[i].state = "ok"}

\* ... and a rider's row is the sequential one after its latest successful
\* write.
StoreInv ==
    \A k \in Keys :
      \/ DoneWrites(k) = {} /\ store[k] = InitialStore[k]
      \/ \E i \in DoneWrites(k) : /\ \A j \in DoneWrites(k) : j <= i
                                  /\ store[k] = Sequential[i + 1][k]

SequentialInv == FailInv /\ PrefixInv /\ AnswerInv /\ StoreInv
-----------------------------------------------------------------------------
\* The positions of a batch are 0 .. n-1, and there are n of them.
LEMMA BatchShape ==
    ASSUME batch \in Batches
    PROVE  /\ Len0(batch) \in Nat
           /\ Nodes = 0 .. (Len0(batch) - 1)
           /\ Nodes # {}
           /\ \A i \in Nodes : i \in Nat /\ batch[i].Key \in Keys
  <1>1. IsBatch(batch) /\ Nodes # {}
    BY BatchesAssumption, NonEmptyAssumption DEF Nodes
  <1>2. Len0(batch) \in Nat
    BY <1>1, FS_CardinalityType DEF IsBatch, Len0
  <1>3. Nodes = 0 .. (Len0(batch) - 1)
    BY <1>1 DEF IsBatch, Nodes
  <1>4. \A i \in Nodes : batch[i] \in Operation
    BY <1>1, <1>3 DEF IsBatch, Nodes
  <1>5. \A i \in Nodes : i \in Nat
    BY <1>2, <1>3
  <1> QED BY <1>1, <1>2, <1>3, <1>4, <1>5 DEF Operation

\* The instances above satisfy the assumptions of their modules.
LEMMA InstanceAssumptions ==
    /\ \A b \in Batches : HP!IsBatch(b)
    /\ PP!IsFiniteSet(Workers) /\ Workers # {}
    /\ RP!IsFiniteSet(Workers) /\ RP!Free \notin Workers
  <1>1. \A b \in Batches : HP!IsBatch(b)
    BY BatchesAssumption
       DEF HP!IsBatch, IsBatch, HP!IsFiniteSet, IsFiniteSet, HP!Len0, Len0, HP!Cardinality,
           Cardinality, HP!Operation, Operation, HP!OperationType, OperationType,
           HP!OpRead, OpRead, HP!OpWrite, OpWrite, HP!OpDelete, OpDelete,
           HP!UnknownOp, UnknownOp
  <1>2. PP!IsFiniteSet(Workers) /\ RP!IsFiniteSet(Workers)
    BY WorkersAssumption DEF PP!IsFiniteSet, RP!IsFiniteSet, IsFiniteSet
  <1> QED BY <1>1, <1>2, WorkersAssumption DEF RP!Free

\* Each action of the engine's components is the action its proofs are about.
LEMMA SameBuild == H!Build => HP!Build
  BY DEF H!Build, H!BuildRead, H!BuildMutation, H!BuildReject, H!BuildCollect, H!BuildReturn,
         H!InLoop, H!Dense, H!op, H!Nodes, H!AddDependencies, H!LastWriter, H!NoNode,
         H!IsMutation, H!OpRead, H!OpWrite, H!OpDelete, H!UnknownOp, H!Building, H!Built,
         H!BadType, H!BadSeqID, H!Cardinality,
         HP!Build, HP!BuildRead, HP!BuildMutation, HP!BuildReject, HP!BuildCollect,
         HP!BuildReturn, HP!InLoop, HP!Dense, HP!op, HP!Nodes, HP!AddDependencies,
         HP!LastWriter, HP!NoNode, HP!IsMutation, HP!OpRead, HP!OpWrite, HP!OpDelete,
         HP!UnknownOp, HP!Building, HP!Built, HP!BadType, HP!BadSeqID, HP!Cardinality

\* ... the initial state of the resolver,
LEMMA SameBuildInit == H!HazardInit => HP!HazardInit
  BY DEF H!HazardInit, H!Nodes, H!NoNode, H!Building,
         HP!HazardInit, HP!Nodes, HP!NoNode, HP!Building

\* ... the steps of a worker,
LEMMA SameWorker ==
    ASSUME NEW w \in Workers
    PROVE  /\ P!Receive(w) => PP!Receive(w)
           /\ P!ReceiveClosed(w) => PP!ReceiveClosed(w)
           /\ P!SelectDone(w) => PP!SelectDone(w)
           /\ P!Execute(w) => PP!Execute(w)
           /\ P!ReleaseOne(w) => PP!ReleaseOne(w)
           /\ P!ReleaseClose(w) => PP!ReleaseClose(w)
           /\ P!CommitReturns(w) => PP!CommitReturns(w)
           /\ P!Dispatch(w) => PP!Dispatch(w)
           /\ P!Account(w) => PP!Account(w)
           /\ P!CloseWork(w) => PP!CloseWork(w)
  <1> USE DEF P!nodeVars, P!chanVars, PP!nodeVars, PP!chanVars, P!NoneHeld, PP!NoneHeld
  <1>1. P!Receive(w) => PP!Receive(w)
    BY DEF P!Receive, PP!Receive
  <1>2. /\ P!ReceiveClosed(w) => PP!ReceiveClosed(w)
        /\ P!SelectDone(w) => PP!SelectDone(w)
    BY DEF P!ReceiveClosed, PP!ReceiveClosed, P!SelectDone, PP!SelectDone
  <1>3. P!Execute(w) => PP!Execute(w)
    BY DEF P!Execute, PP!Execute
  <1>4. P!ReleaseOne(w) => PP!ReleaseOne(w)
    BY DEF P!ReleaseOne, PP!ReleaseOne
  <1>5. P!ReleaseClose(w) => PP!ReleaseClose(w)
    BY DEF P!ReleaseClose, PP!ReleaseClose
  <1>6. P!CommitReturns(w) => PP!CommitReturns(w)
    BY DEF P!CommitReturns, PP!CommitReturns
  <1>7. P!Dispatch(w) => PP!Dispatch(w)
    BY DEF P!Dispatch, PP!Dispatch
  <1>8. P!Account(w) => PP!Account(w)
    BY DEF P!Account, PP!Account
  <1>9. P!CloseWork(w) => PP!CloseWork(w)
    BY DEF P!CloseWork, PP!CloseWork
  <1> QED BY <1>1, <1>2, <1>3, <1>4, <1>5, <1>6, <1>7, <1>8, <1>9

\* ... of Run,
LEMMA SameRun == /\ P!RunStep => PP!RunStep
                 /\ P!PoolIdle => PP!PoolIdle
  <1>1. P!PoolIdle => PP!PoolIdle
    BY DEF P!PoolIdle, PP!PoolIdle, P!NoneHeld, PP!NoneHeld
  <1>2. P!RunEmpty => PP!RunEmpty
    BY DEF P!RunEmpty, PP!RunEmpty, P!nodeVars, P!chanVars, P!workerVars,
           PP!nodeVars, PP!chanVars, PP!workerVars,
           P!reachableNodes, PP!reachableNodes, P!Closed, PP!Closed, P!Range, PP!Range
  <1>3. P!RunStart => PP!RunStart
    BY DEF P!RunStart, PP!RunStart, P!nodeVars, PP!nodeVars, P!Cardinality, PP!Cardinality,
           P!reachableNodes, PP!reachableNodes, P!Closed, PP!Closed, P!Range, PP!Range
  <1>4. P!RunReturn => PP!RunReturn
    BY DEF P!RunReturn, PP!RunReturn, P!nodeVars, P!chanVars, P!workerVars,
           PP!nodeVars, PP!chanVars, PP!workerVars
  <1> QED BY <1>1, <1>2, <1>3, <1>4 DEF P!RunStep, PP!RunStep

\* ... and of the buffer.
LEMMA SameBuffer ==
    /\ R!NewBuffer => RP!NewBuffer
    /\ R!Drain => RP!Drain
    /\ R!ConsumerEnd => RP!Consume
    /\ R!ConsumerLeave => RP!Consume
    /\ \A w \in Workers : /\ R!Commit(w, node[w]) => RP!Commit(w, node[w])
                          /\ R!FlushSend(w) => RP!FlushSend(w)
                          /\ R!FlushCancel(w) => RP!FlushCancel(w)
  <1> USE DEF R!Free, R!NoOp, RP!Free, RP!NoOp
  <1>1. R!NewBuffer => RP!NewBuffer
    BY DEF R!NewBuffer, RP!NewBuffer
  <1>2. R!Drain => RP!Drain
    BY DEF R!Drain, RP!Drain
  <1>3. (R!ConsumerEnd => RP!Consume) /\ (R!ConsumerLeave => RP!Consume)
    BY DEF R!ConsumerEnd, RP!ConsumerEnd, R!ConsumerLeave, RP!ConsumerLeave, RP!Consume
  <1>4. ASSUME NEW w \in Workers
        PROVE  /\ R!Commit(w, node[w]) => RP!Commit(w, node[w])
               /\ R!FlushSend(w) => RP!FlushSend(w)
               /\ R!FlushCancel(w) => RP!FlushCancel(w)
    BY DEF R!Commit, R!FlushSend, R!FlushCancel, R!FlushNext,
           RP!Commit, RP!FlushSend, RP!FlushCancel, RP!FlushNext
  <1> QED BY <1>1, <1>2, <1>3, <1>4

\* The pool's own invariant survives whatever leaves the pool alone.
LEMMA PoolFrame ==
    ASSUME PP!PoolInv, UNCHANGED <<dependents, inDegree, runnable, poolOnly, ctxDone>>
    PROVE  PP!PoolInv'
  <1>1. UNCHANGED PP!poolVars
    BY DEF poolOnly, PP!poolVars, PP!nodeVars, PP!chanVars, PP!workerVars
  <1> QED BY <1>1, PP!PoolStepInv, InstanceAssumptions

\* So does the buffer's.
LEMMA RobFrame ==
    ASSUME RP!RobInv, UNCHANGED <<batch, robOnly, ctxDone>>
    PROVE  RP!RobInv'
  <1>1. UNCHANGED RP!robVars
    BY DEF robOnly, RP!robVars
  <1> QED BY <1>1, RP!RobStepInv, InstanceAssumptions

\* The end of the context is a step of both.
LEMMA ContextFrame ==
    ASSUME PP!PoolInv, RP!RobInv, ctxDone' = TRUE,
           UNCHANGED <<batch, dependents, inDegree, runnable, poolOnly, robOnly>>
    PROVE  PP!PoolInv' /\ RP!RobInv'
  <1>1. CASE ctxDone = TRUE
    BY <1>1, PoolFrame, RobFrame
  <1>2. CASE ctxDone # TRUE
    <2>1. ~ctxDone
      BY <1>2 DEF PP!PoolInv, PP!PoolTypeOK
    <2>2. PP!Cancel /\ RP!RobCancel
      BY <2>1 DEF PP!Cancel, RP!RobCancel, PP!nodeVars, PP!chanVars, PP!workerVars,
                  poolOnly, robOnly
    <2> QED BY <2>2, PP!RunReturnInv, RP!ConsumerInvStep, InstanceAssumptions
  <1> QED BY <1>1, <1>2

\* A worker's step keeps the pool's invariant.
LEMMA PoolWorkerInv ==
    ASSUME PP!PoolInv, NEW w \in Workers,
           \/ P!Receive(w) \/ P!ReceiveClosed(w) \/ P!SelectDone(w) \/ P!Execute(w)
           \/ P!ReleaseOne(w) \/ P!ReleaseClose(w) \/ P!CommitReturns(w)
           \/ P!Dispatch(w) \/ P!Account(w) \/ P!CloseWork(w)
    PROVE  PP!PoolInv'
  <1>1. PP!WorkerStep(w)
    BY SameWorker DEF PP!WorkerStep
  <1>2. PP!PoolNext
    BY <1>1 DEF PP!PoolNext
  <1> QED BY <1>2, PP!PoolStepInv, InstanceAssumptions

\* A step of Run keeps it too.
LEMMA PoolRunInv == ASSUME PP!PoolInv, P!RunStep PROVE PP!PoolInv'
  <1>1. PP!PoolNext
    BY SameRun DEF PP!PoolNext
  <1> QED BY <1>1, PP!PoolStepInv, InstanceAssumptions

\* A worker's steps in Commit keep the buffer's invariant.
LEMMA RobWorkerInv ==
    ASSUME RP!RobInv, batch \in Batches, NEW w \in Workers, node[w] \in Nodes, RobStep(w)
    PROVE  RP!RobInv'
  <1>1. node[w] \in 0 .. (Len0(batch) - 1)
    BY BatchShape
  <1>2. CASE node[w] \notin committed /\ R!Commit(w, node[w])
    BY <1>1, <1>2, SameBuffer, RP!CommitInvStep, InstanceAssumptions
  <1>3. CASE R!FlushSend(w)
    BY <1>3, SameBuffer, RP!FlushSendInvStep, InstanceAssumptions
  <1>4. CASE R!FlushCancel(w)
    BY <1>4, SameBuffer, RP!FlushCancelInvStep, InstanceAssumptions
  <1> QED BY <1>2, <1>3, <1>4 DEF RobStep

\* What Build has returned is what the pool's proofs start from.
LEMMA BuiltGraph ==
    ASSUME HP!HazardInv, result = H!Built, P!PoolIdle
    PROVE  /\ PP!PoolInv
           /\ H!ConflictsOrdered
           /\ DOMAIN dependents = Nodes
  <1> DEFINE g == [dependents |-> dependents, runnable |-> runnable]
  <1>1. result = HP!Built
    BY DEF H!Built, HP!Built
  <1>2. /\ HP!IsGraph(g)
        /\ inDegree = [n \in HP!Nodes |-> HP!Cardinality(HP!PredsIn(dependents, n))]
    BY <1>1, HP!GraphLemma, HP!RunnableGroundsLemma, InstanceAssumptions
  <1>3. DOMAIN dependents = Nodes /\ HP!Nodes = Nodes
    BY DEF HP!HazardInv, HP!HazardTypeOK, HP!Nodes, Nodes
  <1>4. PP!IsGraph(g)
    BY <1>2 DEF HP!IsGraph, PP!IsGraph, HP!IsFiniteSet, PP!IsFiniteSet, HP!NoDuplicates,
                PP!NoDuplicates, HP!PredsIn, PP!PredsIn, HP!HasEdge, PP!HasEdge, HP!Range,
                PP!Range, HP!reachableNodes, PP!reachableNodes, HP!Closed, PP!Closed
  <1>5. inDegree = [n \in PP!PoolNodes |-> PP!Cardinality(PP!PredsIn(dependents, n))]
    BY <1>2, <1>3 DEF PP!PoolNodes, HP!Cardinality, PP!Cardinality, HP!PredsIn, PP!PredsIn,
                      HP!HasEdge, PP!HasEdge, HP!Range, PP!Range
  <1>6. PP!PoolInv
    BY <1>4, <1>5, SameRun, PP!IdleInv, InstanceAssumptions
  <1>7. H!ConflictsOrdered
    <2>1. HP!ConflictsOrdered
      BY HP!ConflictsOrderedLemma, InstanceAssumptions
    <2> QED BY <2>1 DEF HP!ConflictsOrdered, H!ConflictsOrdered, HP!Built, H!Built,
                        HP!Nodes, H!Nodes, HP!Conflict, H!Conflict, HP!IsMutation,
                        H!IsMutation, HP!OpWrite, H!OpWrite, HP!OpDelete, H!OpDelete,
                        HP!reachableNodes, H!reachableNodes, HP!Closed, H!Closed,
                        HP!Range, H!Range
  <1> QED BY <1>3, <1>6, <1>7

-----------------------------------------------------------------------------
\* The engine before the first iteration of Build.
LEMMA EngineInitInv == EngineInit => EngineInv
  <1> SUFFICES ASSUME EngineInit PROVE EngineInv
    OBVIOUS
  <1>1. batch \in Batches
    BY DEF EngineInit, H!HazardInit
  <1>2. EngineTypeOK
    <2>1. outcome \in [Nodes -> Outcome]
      BY DEF EngineInit, Outcome, Pending, Value, Absent
    <2> QED BY <2>1, StoreAssumption DEF EngineInit, EngineTypeOK
  <1>3. BuildingInv
    BY SameBuildInit, HP!HazardInitInv, InstanceAssumptions DEF EngineInit, BuildingInv
  <1>4. OutcomeInv
    BY DEF EngineInit, OutcomeInv, P!PoolIdle
  <1>5. InStorageInv /\ LaunchedInv
    BY DEF EngineInit, InStorageInv, LaunchedInv
  <1>6. CommittedInv /\ WorkersInv
    BY DEF EngineInit, CommittedInv, WorkersInv, P!PoolIdle, R!NewBuffer
  <1>7. HandlerInv
    BY DEF EngineInit, HandlerInv, P!PoolIdle
  <1> QED BY <1>1, <1>2, <1>3, <1>4, <1>5, <1>6, <1>7 DEF EngineInv

\* Before the launch no worker has started; after it the components'
\* invariants hold.
LEMMA Started ==
    ASSUME EngineInv
    PROVE  /\ \A w \in Workers : pc[w] # "idle" => hPc # "build"
           /\ hPc # "build" => /\ PP!PoolInv /\ RP!RobInv
                               /\ PP!PoolTypeOK /\ RP!RobTypeOK
                               /\ PP!PoolNodes = Nodes
                               /\ \A w \in Workers :
                                    pc[w] \in {"execute", "release", "commit", "dispatch"}
                                      => node[w] \in Nodes
  <1>1. \A w \in Workers : pc[w] # "idle" => hPc # "build"
    BY DEF EngineInv, BuildingInv, P!PoolIdle
  <1>2. ASSUME hPc # "build"
        PROVE  /\ PP!PoolInv /\ RP!RobInv /\ PP!PoolTypeOK /\ RP!RobTypeOK
               /\ PP!PoolNodes = Nodes
    BY <1>2 DEF EngineInv, LaunchedInv, PP!PoolInv, RP!RobInv, PP!PoolNodes
  <1>3. ASSUME hPc # "build", NEW w \in Workers,
               pc[w] \in {"execute", "release", "commit", "dispatch"}
        PROVE  node[w] \in Nodes
    BY <1>2, <1>3 DEF PP!PoolInv, PP!HeldInv, PP!Busy
  <1> QED BY <1>1, <1>2, <1>3

\* The conjuncts that depend on neither the handler nor the components.
LEMMA SameRelations ==
    ASSUME EngineInv,
           UNCHANGED <<batch, executed, doneClosed, runPc, pc, node, robPc, committed, outcome,
                       inStorage>>
    PROVE  (batch \in Batches)' /\ OutcomeInv' /\ InStorageInv' /\ CommittedInv' /\ WorkersInv'
  <1>1. (batch \in Batches)' /\ OutcomeInv'
    BY DEF EngineInv, OutcomeInv, Nodes
  <1>2. InStorageInv' /\ CommittedInv' /\ WorkersInv'
    BY DEF EngineInv, InStorageInv, CommittedInv, WorkersInv
  <1> QED BY <1>1, <1>2

\* An iteration of Build.
LEMMA HandlerBuildInv == ASSUME EngineInv, HandlerBuild PROVE EngineInv'
  <1>1. /\ UNCHANGED <<batch, poolOnly, robOnly, store, outcome, inStorage, hPc, response, ctxDone>>
        /\ hPc = "build" /\ H!Build
    BY DEF HandlerBuild, storageVars, handlerVars, H!Build, H!BuildRead, H!BuildMutation,
           H!BuildReject, H!BuildCollect, H!BuildReturn
  <1>2. UNCHANGED <<executed, doneClosed, pc, node, robPc, committed, runPc, runErr, consumer>>
    BY <1>1 DEF poolOnly, robOnly
  <1>3. (batch \in Batches)' /\ OutcomeInv' /\ InStorageInv' /\ CommittedInv' /\ WorkersInv'
    BY <1>1, <1>2, SameRelations
  <1>4. HP!HazardInv'
    <2>1. HP!HazardInv /\ HP!HazardNext
      BY <1>1, SameBuild DEF EngineInv, BuildingInv, HP!HazardNext
    <2> QED BY <2>1, HP!HazardStepInv, InstanceAssumptions
  <1>5. BuildingInv'
    <2>1. P!PoolIdle' /\ R!NewBuffer'
      BY <1>1 DEF EngineInv, BuildingInv, P!PoolIdle, R!NewBuffer, poolOnly, robOnly
    <2> QED BY <1>1, <1>4, <2>1 DEF EngineInv, BuildingInv, Nodes
  <1>6. LaunchedInv' /\ HandlerInv'
    BY <1>1, <1>2 DEF EngineInv, LaunchedInv, HandlerInv
  <1>7. EngineTypeOK'
    BY <1>1 DEF EngineInv, EngineTypeOK, Nodes
  <1> QED BY <1>3, <1>5, <1>6, <1>7 DEF EngineInv

\* The handler creates the buffer's channel and starts Run.
LEMMA HandlerLaunchInv == ASSUME EngineInv, HandlerLaunch PROVE EngineInv'
  <1>1. /\ UNCHANGED <<hazardVars, poolOnly, store, outcome, inStorage, response>>
        /\ hPc = "build" /\ hPc' = "drain" /\ result = H!Built /\ R!Drain
    BY DEF HandlerLaunch, storageVars
  <1>2. UNCHANGED <<batch, dependents, inDegree, runnable, result, executed, doneClosed, pc,
                    node, robPc, committed, runPc, runErr, consumer, ctxDone>>
    BY <1>1 DEF hazardVars, poolOnly, R!Drain
  <1>3. (batch \in Batches)' /\ OutcomeInv' /\ InStorageInv' /\ CommittedInv' /\ WorkersInv'
    BY <1>1, <1>2, SameRelations
  <1>4. /\ HP!HazardInv /\ P!PoolIdle /\ R!NewBuffer /\ ctxDone = FALSE
        /\ consumer = "reading" /\ response = "none"
    BY <1>1 DEF EngineInv, BuildingInv, P!PoolIdle, R!NewBuffer
  <1>5. PP!PoolInv /\ H!ConflictsOrdered /\ DOMAIN dependents = Nodes
    BY <1>1, <1>4, BuiltGraph
  <1>6. PP!PoolInv'
    BY <1>1, <1>2, <1>5, PoolFrame
  <1>7. RP!RobInv'
    <2>1. Len0(batch) \in Nat
      BY BatchShape DEF EngineInv
    <2>2. RP!RobInv
      BY <1>4, <2>1, SameBuffer, RP!NewBufferInv, InstanceAssumptions
    <2> QED BY <1>1, <2>2, SameBuffer, RP!DrainInvStep, InstanceAssumptions
  <1>8. LaunchedInv'
    BY <1>1, <1>2, <1>5, <1>6, <1>7
       DEF LaunchedInv, H!ConflictsOrdered, H!Nodes, Nodes, R!Drain
  <1>9. BuildingInv' /\ HandlerInv'
    BY <1>1, <1>2, <1>4 DEF BuildingInv, HandlerInv, EngineInv
  <1>10. EngineTypeOK'
    BY <1>1, <1>2 DEF EngineInv, EngineTypeOK, Nodes
  <1> QED BY <1>3, <1>8, <1>9, <1>10 DEF EngineInv

\* What stays of LaunchedInv when pool and buffer keep their invariants.
LEMMA LaunchedFrame ==
    ASSUME EngineInv, hPc # "build", hPc' # "build", PP!PoolInv', RP!RobInv',
           UNCHANGED <<batch, dependents, result, drained>>
    PROVE  BuildingInv' /\ LaunchedInv'
  <1>1. /\ result' = H!Built
        /\ H!ConflictsOrdered'
        /\ (DOMAIN dependents)' = Nodes'
        /\ drained'
    BY DEF EngineInv, LaunchedInv, H!ConflictsOrdered, H!Nodes, Nodes
  <1> QED BY <1>1 DEF BuildingInv, LaunchedInv

\* drainLoop returns.
LEMMA HandlerDrainInv == ASSUME EngineInv, HandlerDrained \/ HandlerTimeout PROVE EngineInv'
  <1>1. /\ UNCHANGED <<hazardVars, poolOnly, store, outcome, inStorage>>
        /\ hPc = "drain" /\ response = "none"
        /\ \/ R!ConsumerEnd /\ hPc' = "await" /\ response' = response
           \/ R!ConsumerLeave /\ hPc' = "responded" /\ response' \in {"504", "none"}
    BY DEF HandlerDrained, HandlerTimeout, storageVars, EngineInv, HandlerInv
  <1>2. UNCHANGED <<batch, dependents, inDegree, runnable, result, executed, doneClosed, pc,
                    node, robPc, committed, runPc, runErr, drained, ctxDone>>
    BY <1>1 DEF hazardVars, poolOnly, R!ConsumerEnd, R!ConsumerLeave
  <1>3. (batch \in Batches)' /\ OutcomeInv' /\ InStorageInv' /\ CommittedInv' /\ WorkersInv'
    BY <1>1, <1>2, SameRelations
  <1>4. PP!PoolInv' /\ RP!RobInv'
    <2>1. PP!PoolInv /\ RP!RobInv
      BY <1>1, Started
    <2> QED BY <1>1, <1>2, <2>1, PoolFrame, SameBuffer, RP!ConsumerInvStep, InstanceAssumptions
  <1>5. BuildingInv' /\ LaunchedInv'
    BY <1>1, <1>2, <1>4, LaunchedFrame
  <1>6. HandlerInv'
    BY <1>1, <1>2 DEF EngineInv, HandlerInv, R!ConsumerEnd, R!ConsumerLeave
  <1>7. EngineTypeOK'
    BY <1>1, <1>2 DEF EngineInv, EngineTypeOK, Nodes
  <1> QED BY <1>3, <1>5, <1>6, <1>7 DEF EngineInv

\* The handler answers, or the context ends before.
LEMMA ContextInv == ASSUME EngineInv, HandlerRespond \/ ContextEnds PROVE EngineInv'
  <1>1. /\ UNCHANGED <<hazardVars, poolOnly, robOnly, store, outcome, inStorage>>
        /\ ctxDone' = TRUE
        /\ hPc # "build" /\ hPc' # "build"
    BY DEF HandlerRespond, ContextEnds, storageVars
  <1>2. UNCHANGED <<batch, dependents, inDegree, runnable, result, executed, doneClosed, pc,
                    node, robPc, committed, runPc, runErr, consumer, drained>>
    BY <1>1 DEF hazardVars, poolOnly, robOnly
  <1>3. (batch \in Batches)' /\ OutcomeInv' /\ InStorageInv' /\ CommittedInv' /\ WorkersInv'
    BY <1>1, <1>2, SameRelations
  <1>4. PP!PoolInv' /\ RP!RobInv'
    BY <1>1, <1>2, Started, ContextFrame
  <1>5. BuildingInv' /\ LaunchedInv'
    BY <1>1, <1>2, <1>4, LaunchedFrame
  <1>6. HandlerInv'
    BY <1>1, <1>2 DEF EngineInv, HandlerInv, HandlerRespond, ContextEnds
  <1>7. EngineTypeOK'
    BY <1>1, <1>2 DEF EngineInv, EngineTypeOK, Nodes, HandlerRespond, ContextEnds
  <1> QED BY <1>3, <1>5, <1>6, <1>7 DEF EngineInv

\* Run starts the workers, or returns after them.
LEMMA RunStepEngineInv == ASSUME EngineInv, RunStep PROVE EngineInv'
  <1>1. /\ UNCHANGED <<NotPool, robOnly, store, outcome, inStorage, hPc, response>>
        /\ hPc # "build" /\ P!RunStep
    BY DEF RunStep, storageVars, handlerVars
  <1>2. /\ UNCHANGED <<batch, dependents, result, executed, doneClosed, node, robPc, committed,
                       consumer, drained>>
        /\ runPc # "returned"
        /\ runPc = "start" \/ pc' = pc
        /\ \A w \in Workers : pc'[w] = pc[w] \/ pc'[w] = "select"
    BY <1>1 DEF NotPool, robOnly, P!RunStep, P!RunEmpty, P!RunStart, P!RunReturn, P!nodeVars,
                P!workerVars
  <1>3. PP!PoolInv /\ RP!RobInv /\ PP!PoolTypeOK
    BY <1>1, Started
  <1>4. runPc = "start" => \A w \in Workers : pc[w] = "idle"
    BY <1>3 DEF PP!PoolInv, PP!RunInv
  <1>5. PP!PoolInv' /\ RP!RobInv'
    <2>1. UNCHANGED ctxDone
      BY <1>1 DEF P!RunStep, P!RunEmpty, P!RunStart, P!RunReturn
    <2> QED BY <1>1, <1>2, <1>3, <2>1, PoolRunInv, RobFrame
  <1>6. BuildingInv' /\ LaunchedInv'
    BY <1>1, <1>2, <1>5, LaunchedFrame
  <1>7. (batch \in Batches)' /\ OutcomeInv'
    BY <1>1, <1>2 DEF EngineInv, OutcomeInv, Nodes
  <1>8. InStorageInv'
    BY <1>1, <1>2, <1>4 DEF EngineInv, EngineTypeOK, InStorageInv
  <1>9. CommittedInv' /\ WorkersInv'
    <2>1. CommittedInv'
      BY <1>2, <1>4 DEF EngineInv, CommittedInv
    <2>2. ~P!RunEmpty
      <3>1. PP!PoolNodes # {}
        BY <1>1, Started, BatchShape DEF EngineInv
      <3> QED BY <1>3, <3>1 DEF P!RunEmpty, PP!PoolInv, PP!GraphInv, P!reachableNodes,
                                PP!reachableNodes, P!Closed, PP!Closed, P!Range, PP!Range
    <2>3. WorkersInv'
      BY <1>1, <2>2 DEF EngineInv, WorkersInv, P!RunStep, P!RunStart, P!RunReturn, P!workerVars
    <2> QED BY <2>1, <2>3
  <1>10. HandlerInv'
    BY <1>1, <1>2 DEF EngineInv, HandlerInv, P!RunStep, P!RunEmpty, P!RunStart, P!RunReturn
  <1>11. EngineTypeOK'
    BY <1>1, <1>2 DEF EngineInv, EngineTypeOK, Nodes
  <1> QED BY <1>6, <1>7, <1>8, <1>9, <1>10, <1>11 DEF EngineInv

\* What the steps of a worker outside storage and Commit do to what the
\* engine's invariant relates.
LEMMA LoopFacts ==
    ASSUME PP!PoolTypeOK, NEW w \in Workers, WorkerLoop(w)
    PROVE  /\ UNCHANGED <<batch, dependents, result, executed, runPc, runErr, ctxDone, robOnly,
                          store, outcome, inStorage, hPc, response>>
           /\ pc[w] \in {"select", "release", "dispatch", "close"} /\ pc'[w] # "idle"
           /\ \A v \in Workers : v # w => pc'[v] = pc[v] /\ node'[v] = node[v]
           /\ pc'[w] = "commit" => pc[w] = "release" /\ node'[w] = node[w]
           /\ doneClosed \subseteq doneClosed'
  <1>1. UNCHANGED <<batch, result, robOnly, store, outcome, inStorage, hPc, response>>
    BY DEF WorkerLoop, NotPool, storageVars, handlerVars
  <1>2. UNCHANGED <<dependents, executed, runPc, runErr, ctxDone>>
    BY DEF WorkerLoop, P!Receive, P!ReceiveClosed, P!SelectDone, P!ReleaseOne, P!ReleaseClose,
           P!Dispatch, P!Account, P!CloseWork, P!nodeVars
  <1>3. CASE P!Receive(w) \/ P!ReceiveClosed(w) \/ P!SelectDone(w)
    BY <1>1, <1>2, <1>3 DEF PP!PoolTypeOK, P!Receive, P!ReceiveClosed, P!SelectDone, P!nodeVars
  <1>4. CASE P!ReleaseOne(w) \/ P!ReleaseClose(w)
    BY <1>1, <1>2, <1>4 DEF PP!PoolTypeOK, P!ReleaseOne, P!ReleaseClose
  <1>5. CASE P!Dispatch(w) \/ P!Account(w) \/ P!CloseWork(w)
    BY <1>1, <1>2, <1>5 DEF PP!PoolTypeOK, P!Dispatch, P!Account, P!CloseWork, P!nodeVars
  <1> QED BY <1>3, <1>4, <1>5 DEF WorkerLoop

\* Channel operations and Release.
LEMMA WorkerLoopInv == ASSUME EngineInv, NEW w \in Workers, WorkerLoop(w) PROVE EngineInv'
  <1>1. PP!PoolInv /\ RP!RobInv /\ PP!PoolTypeOK /\ hPc # "build"
    <2>1. pc[w] # "idle"
      BY DEF WorkerLoop, P!Receive, P!ReceiveClosed, P!SelectDone, P!ReleaseOne,
             P!ReleaseClose, P!Dispatch, P!Account, P!CloseWork
    <2> QED BY <2>1, Started
  <1>2. /\ UNCHANGED <<batch, dependents, result, executed, runPc, runErr, ctxDone, robOnly,
                       store, outcome, inStorage, hPc, response>>
        /\ pc[w] \in {"select", "release", "dispatch", "close"} /\ pc'[w] # "idle"
        /\ \A v \in Workers : v # w => pc'[v] = pc[v] /\ node'[v] = node[v]
        /\ pc'[w] = "commit" => pc[w] = "release" /\ node'[w] = node[w]
        /\ doneClosed \subseteq doneClosed'
    BY <1>1, LoopFacts
  <1>3. UNCHANGED <<robPc, committed, consumer, drained>>
    BY <1>2 DEF robOnly
  <1>4. PP!PoolInv' /\ RP!RobInv'
    <2>1. PP!PoolInv'
      BY <1>1, PoolWorkerInv DEF WorkerLoop
    <2> QED BY <1>1, <1>2, <2>1, RobFrame
  <1>5. BuildingInv' /\ LaunchedInv'
    BY <1>1, <1>2, <1>3, <1>4, LaunchedFrame
  <1>6. (batch \in Batches)' /\ OutcomeInv' /\ EngineTypeOK' /\ HandlerInv'
    BY <1>2, <1>3 DEF EngineInv, OutcomeInv, EngineTypeOK, HandlerInv, Nodes
  <1>7. InStorageInv'
    BY <1>2 DEF EngineInv, EngineTypeOK, InStorageInv
  <1>8. CommittedInv'
    <2>1. pc[w] = "release" => node[w] \notin doneClosed
      BY <1>1 DEF PP!PoolInv, PP!ExecInv
    <2> QED BY <1>2, <1>3, <2>1 DEF EngineInv, CommittedInv
  <1>9. WorkersInv'
    BY <1>2 DEF EngineInv, WorkersInv
  <1> QED BY <1>5, <1>6, <1>7, <1>8, <1>9 DEF EngineInv

\* The storage call is let in.
LEMMA StorageEnterInv == ASSUME EngineInv, NEW w \in Workers, StorageEnter(w) PROVE EngineInv'
  <1>1. /\ UNCHANGED <<hazardVars, poolOnly, robOnly, store, outcome, hPc, response, ctxDone>>
        /\ pc[w] = "execute" /\ inStorage' = inStorage \cup {w}
    BY DEF StorageEnter, handlerVars
  <1>2. UNCHANGED <<batch, dependents, inDegree, runnable, result, executed, doneClosed, pc,
                    node, robPc, committed, runPc, runErr, consumer, drained>>
    BY <1>1 DEF hazardVars, poolOnly, robOnly
  <1>3. hPc # "build" /\ PP!PoolInv' /\ RP!RobInv'
    BY <1>1, <1>2, Started, PoolFrame, RobFrame
  <1>4. BuildingInv' /\ LaunchedInv'
    BY <1>1, <1>2, <1>3, LaunchedFrame
  <1>5. (batch \in Batches)' /\ OutcomeInv' /\ EngineTypeOK' /\ HandlerInv'
    BY <1>1, <1>2 DEF EngineInv, OutcomeInv, EngineTypeOK, HandlerInv, Nodes
  <1>6. InStorageInv' /\ CommittedInv' /\ WorkersInv'
    BY <1>1, <1>2 DEF EngineInv, InStorageInv, CommittedInv, WorkersInv
  <1> QED BY <1>4, <1>5, <1>6 DEF EngineInv

\* A storage call keeps the content a map from riders to values, and answers
\* with a value.
LEMMA EffectType ==
    ASSUME batch \in Batches, NEW i \in Nodes, NEW s \in [Keys -> Value]
    PROVE  /\ Effect(batch, i, s) \in [Keys -> Value]
           /\ Observed(batch, i, s) \in Value
  <1>1. i \in Nat /\ batch[i].Key \in Keys
    BY BatchShape
  <1>2. i \in Value /\ Absent \in Value
    BY <1>1 DEF Value
  <1>3. Effect(batch, i, s) \in [Keys -> Value]
    BY <1>1, <1>2 DEF Effect
  <1>4. Observed(batch, i, s) \in Value
    BY <1>1, <1>2 DEF Observed
  <1> QED BY <1>3, <1>4

\* However a storage call ends: it is the one call for its node.
LEMMA StorageFacts ==
    ASSUME EngineInv, NEW w \in Workers,
           StorageRefuse(w) \/ StorageAccess(w) \/ StorageFault(w)
    PROVE  /\ P!Execute(w) /\ pc[w] = "execute"
           /\ PP!PoolInv /\ RP!RobInv /\ PP!PoolTypeOK /\ hPc # "build"
           /\ node[w] \in Nodes /\ node[w] \notin executed
           /\ UNCHANGED <<batch, dependents, result, doneClosed, node, runPc, runErr, robOnly,
                          hPc, response, ctxDone>>
           /\ executed' = executed \cup {node[w]}
           /\ pc' = [pc EXCEPT ![w] = "release"]
           /\ inStorage' = inStorage \ {w}
           /\ store' \in [Keys -> Value]
           /\ \E o \in Outcome : /\ o.state \in {"ok", "failed"}
                                 /\ outcome' = [outcome EXCEPT ![node[w]] = o]
  <1>1. P!Execute(w) /\ pc[w] = "execute"
    BY DEF StorageRefuse, StorageAccess, StorageFault, P!Execute
  <1>2. /\ PP!PoolInv /\ RP!RobInv /\ PP!PoolTypeOK /\ hPc # "build"
        /\ node[w] \in Nodes
    BY <1>1, Started
  <1>3. node[w] \notin executed
    BY <1>1, <1>2 DEF PP!PoolInv, PP!ExecInv
  <1>4. UNCHANGED <<batch, result, robOnly, hPc, response>>
    BY DEF StorageRefuse, StorageAccess, StorageFault, NotPool, handlerVars
  <1>5. /\ UNCHANGED <<dependents, doneClosed, node, runPc, runErr, ctxDone>>
        /\ executed' = executed \cup {node[w]}
        /\ pc' = [pc EXCEPT ![w] = "release"]
    BY <1>1 DEF P!Execute
  <1>6. inStorage' = inStorage \ {w}
    BY DEF StorageRefuse, StorageAccess, StorageFault
  <1>7. /\ store \in [Keys -> Value] /\ batch \in Batches
        /\ Effect(batch, node[w], store) \in [Keys -> Value]
        /\ Observed(batch, node[w], store) \in Value
    BY <1>2, EffectType DEF EngineInv, EngineTypeOK
  <1>8. store' \in [Keys -> Value]
    BY <1>7 DEF StorageRefuse, StorageAccess, StorageFault
  <1>9. /\ Failed \in Outcome /\ Failed.state = "failed"
        /\ \A v \in Value : Ok(v) \in Outcome /\ Ok(v).state = "ok"
    BY DEF Failed, Ok, Outcome, Value, Absent
  <1>10. \E o \in Outcome : /\ o.state \in {"ok", "failed"}
                            /\ outcome' = [outcome EXCEPT ![node[w]] = o]
    BY <1>7, <1>9 DEF StorageRefuse, StorageAccess, StorageFault
  <1> QED BY <1>1, <1>2, <1>3, <1>4, <1>5, <1>6, <1>8, <1>10

\* executeNode writes the outcome of the node it executes.
LEMMA StorageInv ==
    ASSUME EngineInv, NEW w \in Workers,
           StorageRefuse(w) \/ StorageAccess(w) \/ StorageFault(w)
    PROVE  EngineInv'
  <1>1. /\ P!Execute(w) /\ pc[w] = "execute"
        /\ PP!PoolInv /\ RP!RobInv /\ PP!PoolTypeOK /\ hPc # "build"
        /\ node[w] \in Nodes /\ node[w] \notin executed
        /\ UNCHANGED <<batch, dependents, result, doneClosed, node, runPc, runErr, robOnly,
                       hPc, response, ctxDone>>
        /\ executed' = executed \cup {node[w]}
        /\ pc' = [pc EXCEPT ![w] = "release"]
        /\ inStorage' = inStorage \ {w}
        /\ store' \in [Keys -> Value]
    BY StorageFacts
  <1>2. PICK o \in Outcome : /\ o.state \in {"ok", "failed"}
                             /\ outcome' = [outcome EXCEPT ![node[w]] = o]
    BY StorageFacts
  <1>3. UNCHANGED <<robPc, committed, consumer, drained>>
    BY <1>1 DEF robOnly
  <1>4. PP!PoolInv' /\ RP!RobInv'
    BY <1>1, PoolWorkerInv, RobFrame
  <1>5. BuildingInv' /\ LaunchedInv'
    BY <1>1, <1>3, <1>4, LaunchedFrame
  <1>6. outcome \in [Nodes -> Outcome] /\ outcome' \in [Nodes -> Outcome] /\ Nodes' = Nodes
    BY <1>1, <1>2 DEF EngineInv, EngineTypeOK, Nodes
  <1>7. (batch \in Batches)' /\ EngineTypeOK' /\ HandlerInv'
    BY <1>1, <1>3, <1>6 DEF EngineInv, EngineTypeOK, HandlerInv
  <1>8. OutcomeInv'
    BY <1>1, <1>2, <1>6 DEF EngineInv, OutcomeInv
  <1>9. InStorageInv'
    BY <1>1 DEF EngineInv, EngineTypeOK, InStorageInv, PP!PoolTypeOK
  <1>10. CommittedInv' /\ WorkersInv'
    BY <1>1, <1>3 DEF EngineInv, CommittedInv, WorkersInv, PP!PoolTypeOK
  <1> QED BY <1>5, <1>7, <1>8, <1>9, <1>10 DEF EngineInv

\* What a step inside Commit does to the buffer, as the pool sees it.
LEMMA RobStepFacts ==
    ASSUME RP!RobTypeOK, NEW w \in Workers, RobStep(w)
    PROVE  /\ UNCHANGED <<consumer, drained, ctxDone>>
           /\ \/ committed' = committed \cup {node[w]}
              \/ committed' = committed /\ robPc[w] = "send"
           /\ \A v \in Workers : v # w => robPc'[v] = robPc[v]
           /\ robPc'[w] \in {"out", "send"}
  <1>1. CASE node[w] \notin committed /\ R!Commit(w, node[w])
    BY <1>1 DEF RP!RobTypeOK, R!Commit, R!FlushNext
  <1>2. CASE R!FlushSend(w)
    BY <1>2 DEF RP!RobTypeOK, R!FlushSend, R!FlushNext
  <1>3. CASE R!FlushCancel(w)
    BY <1>3 DEF RP!RobTypeOK, R!FlushCancel
  <1> QED BY <1>1, <1>2, <1>3 DEF RobStep

\* A worker inside Commit.
LEMMA WorkerCommitInv == ASSUME EngineInv, NEW w \in Workers, WorkerCommit(w) PROVE EngineInv'
  <1>1. /\ pc[w] = "commit"
        /\ UNCHANGED <<batch, result, store, outcome, inStorage, hPc, response>>
        /\ RobStep(w)
        /\ IF robPc'[w] = "out" THEN P!CommitReturns(w)
                                ELSE UNCHANGED <<dependents, inDegree, runnable, poolOnly>>
    BY DEF WorkerCommit, NotPool, storageVars, handlerVars
  <1>2. /\ PP!PoolInv /\ RP!RobInv /\ PP!PoolTypeOK /\ RP!RobTypeOK /\ hPc # "build"
        /\ node[w] \in Nodes
    BY <1>1, Started
  <1>3. /\ UNCHANGED <<consumer, drained, ctxDone>>
        /\ \/ committed' = committed \cup {node[w]}
           \/ committed' = committed /\ robPc[w] = "send"
        /\ \A v \in Workers : v # w => robPc'[v] = robPc[v]
        /\ robPc'[w] \in {"out", "send"}
    BY <1>1, <1>2, RobStepFacts
  <1>4. /\ UNCHANGED <<dependents, executed, doneClosed, node, runPc, runErr>>
        /\ pc' = [pc EXCEPT ![w] = IF robPc'[w] = "out" THEN "dispatch" ELSE "commit"]
    BY <1>1, <1>2 DEF P!CommitReturns, P!nodeVars, poolOnly, PP!PoolTypeOK
  <1>5. PP!PoolInv' /\ RP!RobInv'
    <2>1. RP!RobInv'
      BY <1>1, <1>2, RobWorkerInv DEF EngineInv
    <2>2. PP!PoolInv'
      BY <1>1, <1>2, <1>3, PoolFrame, PoolWorkerInv
    <2> QED BY <2>1, <2>2
  <1>6. BuildingInv' /\ LaunchedInv'
    BY <1>1, <1>2, <1>3, <1>4, <1>5, LaunchedFrame
  <1>7. (batch \in Batches)' /\ OutcomeInv' /\ EngineTypeOK' /\ HandlerInv'
    BY <1>1, <1>3, <1>4 DEF EngineInv, OutcomeInv, EngineTypeOK, HandlerInv, Nodes
  <1>8. InStorageInv'
    BY <1>1, <1>2, <1>4 DEF EngineInv, EngineTypeOK, InStorageInv, PP!PoolTypeOK
  <1>9. CommittedInv'
    <2>1. /\ node[w] \in doneClosed
          /\ \A v \in Workers : (v # w /\ pc[v] = "commit") => node[v] # node[w]
      BY <1>1, <1>2 DEF PP!PoolInv, PP!ExecInv, PP!HeldInv, PP!Busy
    <2>2. /\ \A v \in Workers : v # w => pc'[v] = pc[v] /\ node'[v] = node[v]
          /\ pc'[w] = IF robPc'[w] = "out" THEN "dispatch" ELSE "commit"
      BY <1>2, <1>4 DEF PP!PoolTypeOK
    <2>3. committed' \subseteq doneClosed'
      BY <1>3, <1>4, <2>1 DEF EngineInv, CommittedInv
    <2>4. node[w] \in committed'
      BY <1>3 DEF EngineInv, CommittedInv
    <2> QED BY <1>3, <1>4, <2>1, <2>2, <2>3, <2>4 DEF EngineInv, CommittedInv
  <1>10. WorkersInv'
    BY <1>2, <1>4 DEF EngineInv, WorkersInv, PP!PoolTypeOK
  <1> QED BY <1>6, <1>7, <1>8, <1>9, <1>10 DEF EngineInv

\* Nothing happens.
LEMMA StutterInv == ASSUME EngineInv, UNCHANGED engineVars PROVE EngineInv'
  <1>1. /\ UNCHANGED <<hazardVars, poolOnly, robOnly, store, outcome, inStorage, hPc, response,
                       ctxDone>>
        /\ UNCHANGED <<batch, dependents, inDegree, runnable, result, executed, doneClosed, pc,
                       node, robPc, committed, runPc, runErr, consumer, drained>>
    BY DEF engineVars, storageVars, handlerVars, hazardVars, poolOnly, robOnly
  <1>2. (batch \in Batches)' /\ OutcomeInv' /\ InStorageInv' /\ CommittedInv' /\ WorkersInv'
    BY <1>1, SameRelations
  <1>3. EngineTypeOK' /\ HandlerInv'
    BY <1>1 DEF EngineInv, EngineTypeOK, HandlerInv, Nodes
  <1>4. CASE hPc = "build"
    <2>1. HP!HazardInv'
      <3>1. UNCHANGED HP!hazardVars
        BY <1>1 DEF hazardVars, HP!hazardVars
      <3>2. HP!HazardInv
        BY <1>4 DEF EngineInv, BuildingInv
      <3> QED BY <3>1, <3>2, HP!HazardStepInv, InstanceAssumptions
    <2>2. P!PoolIdle' /\ R!NewBuffer'
      BY <1>1, <1>4 DEF EngineInv, BuildingInv, P!PoolIdle, R!NewBuffer, poolOnly, robOnly
    <2>3. BuildingInv' /\ LaunchedInv'
      BY <1>1, <1>4, <2>1, <2>2 DEF EngineInv, BuildingInv, LaunchedInv, Nodes
    <2> QED BY <1>2, <1>3, <2>3 DEF EngineInv
  <1>5. CASE hPc # "build"
    <2>1. PP!PoolInv' /\ RP!RobInv'
      BY <1>1, <1>5, Started, PoolFrame, RobFrame
    <2>2. BuildingInv' /\ LaunchedInv'
      BY <1>1, <1>5, <2>1, LaunchedFrame
    <2> QED BY <1>2, <1>3, <2>2 DEF EngineInv
  <1> QED BY <1>4, <1>5

\* Every step of the engine keeps the invariant.
LEMMA EngineStepInv == EngineInv /\ [EngineNext]_engineVars => EngineInv'
  <1> SUFFICES ASSUME EngineInv, [EngineNext]_engineVars PROVE EngineInv'
    OBVIOUS
  <1>1. CASE HandlerStep
    BY <1>1, HandlerBuildInv, HandlerLaunchInv, HandlerDrainInv, ContextInv DEF HandlerStep
  <1>2. CASE RunStep
    BY <1>2, RunStepEngineInv
  <1>3. ASSUME NEW w \in Workers, WorkerStep(w) PROVE EngineInv'
    BY <1>3, WorkerLoopInv, StorageInv, StorageEnterInv, WorkerCommitInv DEF WorkerStep
  <1>4. CASE ContextEnds
    BY <1>4, ContextInv
  <1>5. CASE UNCHANGED engineVars
    BY <1>5, StutterInv
  <1> QED BY <1>1, <1>2, <1>3, <1>4, <1>5 DEF EngineNext, EngineDone

\* Composed as handleBatch composes them, resolver, pool and buffer keep the
\* invariants proved of each alone; an operation has an outcome exactly when
\* its node was executed, and is committed only after that.
THEOREM EngineInvariant == EngineSpec => []EngineInv
  BY EngineInitInv, EngineStepInv, PTL DEF EngineSpec

\* The state of storage and handler keeps its types.
THEOREM EngineTypeCorrect == EngineSpec => []EngineTypeOK
  <1>1. EngineInv => EngineTypeOK
    BY DEF EngineInv
  <1> QED BY <1>1, EngineInvariant, PTL

-----------------------------------------------------------------------------
(***************************************************************************)
(* The engine implements SerialBatch.                                      *)
(***************************************************************************)

\* When a worker executes an operation, every earlier operation it conflicts
\* with has been executed: a path of the graph leads from the one to the
\* other, and the pool runs a node after its predecessors only.
LEMMA EarlierConflictsExecuted ==
    ASSUME EngineInv, NEW w \in Workers, pc[w] = "execute"
    PROVE  /\ node[w] \in Nodes \ executed
           /\ \A j \in Nodes : (j < node[w] /\ Conflict(batch, j, node[w])) => j \in executed
  <1>1. /\ hPc # "build" /\ PP!PoolInv /\ node[w] \in Nodes
        /\ DOMAIN dependents = Nodes
    BY Started DEF PP!PoolNodes
  <1>2. node[w] \notin executed
    BY <1>1 DEF PP!PoolInv, PP!ExecInv
  <1> DEFINE S == Nodes \ (executed \cup {node[w]})
  <1>3. /\ \A n \in executed : PP!PredsIn(dependents, n) \subseteq executed
        /\ PP!PredsIn(dependents, node[w]) \subseteq executed
    BY <1>1, PP!PredsExecuted, InstanceAssumptions DEF PP!Busy
  <1>4. dependents \in [Nodes -> Seq(Nodes)]
    BY <1>1 DEF PP!PoolInv, PP!PoolTypeOK, PP!PoolNodes
  <1>5. H!Closed(dependents, S)
    <2> SUFFICES ASSUME NEW m \in S, NEW n \in H!Range(dependents[m]) PROVE n \in S
      BY DEF H!Closed
    <2>1. n \in Nodes
      BY <1>4 DEF H!Range
    <2>2. m \in PP!PredsIn(dependents, n)
      BY <1>1 DEF PP!PredsIn, PP!HasEdge, PP!Range, H!Range
    <2> QED BY <1>3, <2>1, <2>2
  <1>6. ASSUME NEW j \in Nodes, j < node[w], Conflict(batch, j, node[w]), j \notin executed
        PROVE  FALSE
    <2>1. j \in S
      <3>1. j \in Nat /\ node[w] \in Nat
        BY <1>1, BatchShape DEF EngineInv
      <3> QED BY <1>6, <3>1
    <2>2. node[w] \in H!reachableNodes(dependents, {j})
      BY <1>1, <1>6 DEF EngineInv, LaunchedInv, H!ConflictsOrdered, H!Nodes, Nodes,
                        H!Conflict, Conflict, H!IsMutation, IsMutation,
                        H!OpWrite, OpWrite, H!OpDelete, OpDelete
    <2>3. S \in SUBSET (DOMAIN dependents) /\ {j} \subseteq S
      BY <1>1, <2>1
    <2>4. node[w] \in S
      BY <1>5, <2>2, <2>3 DEF H!reachableNodes
    <2> QED BY <2>4
  <1> QED BY <1>1, <1>2, <1>6

\* The abstract batch speaks of the same operations and the same storage.
LEMMA SameStorage ==
    /\ Serial!Pending = Pending /\ Serial!Failed = Failed
    /\ \A v : Serial!Ok(v) = Ok(v)
    /\ \A i, s : Serial!Effect(batch, i, s) = Effect(batch, i, s)
    /\ \A i, s : Serial!Observed(batch, i, s) = Observed(batch, i, s)
    /\ \A i, j : Serial!Conflict(batch, i, j) <=> Conflict(batch, i, j)
  <1>1. /\ Serial!Pending = Pending /\ Serial!Failed = Failed
        /\ \A v : Serial!Ok(v) = Ok(v)
    BY DEF Serial!Pending, Pending, Serial!Failed, Failed, Serial!Ok, Ok, Serial!Absent, Absent
  <1>2. \A i, s : Serial!Effect(batch, i, s) = Effect(batch, i, s)
    BY Zenon DEF Serial!Effect, Effect, Serial!OpWrite, OpWrite, Serial!OpDelete, OpDelete,
                 Serial!Absent, Absent
  <1>3. \A i, s : Serial!Observed(batch, i, s) = Observed(batch, i, s)
    BY Zenon DEF Serial!Observed, Observed, Serial!OpRead, OpRead, Serial!OpWrite, OpWrite,
                 Serial!Absent, Absent
  <1>4. \A i, j : Serial!Conflict(batch, i, j) <=> Conflict(batch, i, j)
    BY DEF Serial!Conflict, Conflict, Serial!IsMutation, IsMutation, Serial!OpWrite, OpWrite,
           Serial!OpDelete, OpDelete
  <1> QED BY <1>1, <1>2, <1>3, <1>4

\* The end of a storage call is Apply or Fail of its operation.
LEMMA StorageRefines ==
    ASSUME EngineInv, NEW w \in Workers,
           StorageRefuse(w) \/ StorageAccess(w) \/ StorageFault(w)
    PROVE  Serial!Apply(node[w]) \/ Serial!Fail(node[w])
  <1>1. pc[w] = "execute" /\ node[w] \in Nodes /\ batch' = batch
    BY StorageFacts
  <1>2. Serial!Ready(node[w])
    <2>1. /\ node[w] \in Nodes \ executed
          /\ \A j \in Nodes : (j < node[w] /\ Conflict(batch, j, node[w])) => j \in executed
      BY <1>1, EarlierConflictsExecuted
    <2>2. outcome[node[w]] = Pending
      BY <2>1 DEF EngineInv, OutcomeInv
    <2>3. \A j \in executed \cap Nodes : outcome[j] # Pending
      BY DEF EngineInv, OutcomeInv, Pending
    <2> QED BY <2>1, <2>2, <2>3, SameStorage DEF Serial!Ready, Nodes
  <1>3. CASE StorageRefuse(w)
    BY <1>1, <1>2, <1>3, SameStorage DEF StorageRefuse, Serial!Fail
  <1>4. CASE StorageAccess(w)
    BY <1>1, <1>2, <1>4, SameStorage DEF StorageAccess, Serial!Apply
  <1>5. CASE StorageFault(w)
    BY <1>1, <1>2, <1>5, SameStorage DEF StorageFault, Serial!Fail
  <1> QED BY <1>3, <1>4, <1>5

\* Every step of the engine is a step of the abstract batch, or none of it.
LEMMA EngineStepRefines ==
    EngineInv /\ [EngineNext]_engineVars => [Serial!SerialNext]_(Serial!serialVars)
  <1> SUFFICES ASSUME EngineInv, [EngineNext]_engineVars
               PROVE  Serial!SerialNext \/ UNCHANGED <<batch, store, outcome>>
    BY DEF Serial!serialVars
  <1>1. CASE HandlerStep
    BY <1>1 DEF HandlerStep, HandlerBuild, HandlerLaunch, HandlerDrained, HandlerTimeout,
                HandlerRespond, hazardVars, storageVars, H!Build, H!BuildRead,
                H!BuildMutation, H!BuildReject, H!BuildCollect, H!BuildReturn
  <1>2. CASE RunStep
    BY <1>2 DEF RunStep, NotPool, storageVars
  <1>3. ASSUME NEW w \in Workers, WorkerStep(w)
        PROVE  Serial!SerialNext \/ UNCHANGED <<batch, store, outcome>>
    <2>1. CASE WorkerLoop(w) \/ WorkerCommit(w)
      BY <2>1 DEF WorkerLoop, WorkerCommit, NotPool, storageVars
    <2>2. CASE StorageEnter(w)
      BY <2>2 DEF StorageEnter, hazardVars
    <2>3. CASE StorageRefuse(w) \/ StorageAccess(w) \/ StorageFault(w)
      <3>1. node[w] \in DOMAIN batch
        BY <2>3, StorageFacts DEF Nodes
      <3>2. Serial!Apply(node[w]) \/ Serial!Fail(node[w])
        BY <2>3, StorageRefines
      <3> QED BY <3>1, <3>2 DEF Serial!SerialNext
    <2> QED BY <1>3, <2>1, <2>2, <2>3 DEF WorkerStep
  <1>4. CASE ContextEnds
    BY <1>4 DEF ContextEnds, hazardVars, storageVars
  <1>5. CASE UNCHANGED engineVars
    BY <1>5 DEF engineVars, hazardVars, storageVars
  <1> QED BY <1>1, <1>2, <1>3, <1>4, <1>5 DEF EngineNext, EngineDone

\* Whatever the interleaving of workers, buffer, handler and context, the
\* storage effects happen one by one, each operation at most once and after
\* the earlier operations it conflicts with: hazard.go, workerpool.go and
\* reorder.go together implement the abstract batch.
THEOREM EngineIsSerial == EngineSpec => ImplementsSerialBatch
  <1>1. EngineInit => Serial!SerialInit
    BY SameStorage DEF EngineInit, H!HazardInit, Serial!SerialInit, Nodes
  <1> QED BY <1>1, EngineStepRefines, EngineInvariant, PTL
       DEF EngineSpec, ImplementsSerialBatch, Serial!SerialSpec

\* Commit copies an operation out of its node only when its Result and Err are
\* final: nothing writes them afterwards.
THEOREM CopiesStayFinal == EngineSpec => CopiesAreFinal
  <1> DEFINE Final == committed \subseteq executed \cap Nodes
  <1>1. ASSUME EngineInv PROVE Final
    <2>1. CASE hPc = "build"
      BY <1>1, <2>1 DEF EngineInv, BuildingInv, R!NewBuffer
    <2>2. CASE hPc # "build"
      BY <1>1, <2>2, Started
         DEF EngineInv, CommittedInv, PP!PoolInv, PP!PoolTypeOK, PP!ExecInv
    <2> QED BY <2>1, <2>2
  <1>2. ASSUME EngineInv, Final, EngineInv', Final', [EngineNext]_engineVars
        PROVE  /\ \A i \in committed' : outcome'[i] # Pending
               /\ \A i \in committed : outcome'[i] = outcome[i]
    <2>1. \A i \in committed' : outcome'[i] # Pending
      BY <1>2 DEF EngineInv, OutcomeInv, Pending
    <2>2. ASSUME NEW i \in committed PROVE outcome'[i] = outcome[i]
      <3>1. outcome[i] # Pending /\ i \in Nodes
        BY <1>2 DEF EngineInv, OutcomeInv, Pending
      <3>2. Serial!SerialNext \/ outcome' = outcome
        BY <1>2, EngineStepRefines DEF Serial!serialVars
      <3>3. CASE outcome' = outcome
        BY <3>3
      <3>4. ASSUME NEW j \in DOMAIN batch, Serial!Apply(j) \/ Serial!Fail(j)
            PROVE  outcome'[i] = outcome[i]
        <4>1. j # i
          BY <3>1, <3>4, SameStorage DEF Serial!Apply, Serial!Fail, Serial!Ready
        <4>2. outcome \in [Nodes -> Outcome]
          BY <1>2 DEF EngineInv, EngineTypeOK
        <4> QED BY <3>1, <3>4, <4>1, <4>2 DEF Serial!Apply, Serial!Fail
      <3> QED BY <3>2, <3>3, <3>4 DEF Serial!SerialNext, Serial!serialVars
    <2> QED BY <2>1, <2>2
  <1> QED BY <1>1, <1>2, EngineInvariant, PTL DEF EngineSpec, CopiesAreFinal

-----------------------------------------------------------------------------
(***************************************************************************)
(* With the in-memory store the engine computes what the sequential        *)
(* execution of the batch computes.                                        *)
(***************************************************************************)

\* The recursive definition of simulateSequentially has a solution on every
\* prefix of the batch: a least prefix without one could be extended from
\* the prefix before it.
LEMMA SimulationExists ==
    ASSUME NEW b, NEW n \in Nat
    PROVE  \E f : f = [i \in 0 .. n |-> IF i = 0 THEN InitialStore ELSE Effect(b, i - 1, f[i - 1])]
  <1> DEFINE E(m) == \E f : f = [i \in 0 .. m |-> IF i = 0 THEN InitialStore
                                                  ELSE Effect(b, i - 1, f[i - 1])]
             T == {m \in Nat : ~E(m)}
  <1>1. SUFFICES ASSUME T # {} PROVE FALSE
    OBVIOUS
  <1> HIDE DEF E
  <1>2. PICK m \in T : \A y \in T : m <= y
    BY <1>1, LeastNatural
  <1>3. CASE m = 0
    <2> DEFINE f == [i \in 0 .. 0 |-> InitialStore]
    <2>1. f = [i \in 0 .. 0 |-> IF i = 0 THEN InitialStore ELSE Effect(b, i - 1, f[i - 1])]
      OBVIOUS
    <2>2. E(0)
      BY <2>1 DEF E
    <2> QED BY <1>2, <1>3, <2>2
  <1>4. CASE m # 0
    <2>1. m \in Nat /\ m - 1 \in Nat /\ m - 1 \notin T
      BY <1>2, <1>4
    <2>2. E(m - 1)
      BY <2>1
    <2>3. PICK f : f = [i \in 0 .. (m - 1) |-> IF i = 0 THEN InitialStore
                                               ELSE Effect(b, i - 1, f[i - 1])]
      BY <2>2 DEF E
    <2> DEFINE g == [i \in 0 .. m |-> IF i < m THEN f[i] ELSE Effect(b, m - 1, f[m - 1])]
    <2>4. ASSUME NEW i \in 0 .. m
          PROVE  g[i] = IF i = 0 THEN InitialStore ELSE Effect(b, i - 1, g[i - 1])
      <3>1. CASE i = m
        <4>1. i - 1 \in 0 .. m /\ i - 1 < m /\ i # 0 /\ ~(i < m)
          BY <2>1, <1>4, <3>1
        <4>2. g[i - 1] = f[m - 1] /\ g[i] = Effect(b, m - 1, f[m - 1])
          BY <3>1, <4>1
        <4> QED BY <3>1, <4>1, <4>2
      <3>2. CASE i < m
        <4>1. i \in 0 .. (m - 1) /\ g[i] = f[i]
          BY <2>1, <3>2
        <4>2. f[i] = IF i = 0 THEN InitialStore ELSE Effect(b, i - 1, f[i - 1])
          BY <2>3, <4>1
        <4>3. i # 0 => g[i - 1] = f[i - 1]
          <5>1. i # 0 => i - 1 \in 0 .. m /\ i - 1 < m
            BY <2>1, <3>2
          <5> QED BY <5>1
        <4> QED BY <4>1, <4>2, <4>3
      <3> QED BY <2>1, <3>1, <3>2
    <2>5. g = [i \in 0 .. m |-> IF i = 0 THEN InitialStore ELSE Effect(b, i - 1, g[i - 1])]
      <3> DEFINE h == [i \in 0 .. m |-> IF i = 0 THEN InitialStore ELSE Effect(b, i - 1, g[i - 1])]
      <3>1. \A i \in 0 .. m : g[i] = h[i]
        BY <2>4
      <3> QED BY <3>1
    <2>6. E(m)
      <3> HIDE DEF g
      <3> QED BY <2>5 DEF E
    <2> QED BY <1>2, <2>6
  <1> QED BY <1>3, <1>4

\* So the reference execution starts with the initial content and applies one
\* operation after the other.
LEMMA SequentialUnfolds ==
    ASSUME batch \in Batches
    PROVE  /\ Sequential[0] = InitialStore
           /\ \A i \in Nodes : Sequential[i + 1] = Effect(batch, i, Sequential[i])
  <1>1. Len0(batch) \in Nat /\ Nodes = 0 .. (Len0(batch) - 1)
    BY BatchShape
  <1> DEFINE IsRun(f) == f = [i \in 0 .. Len0(batch) |->
                                 IF i = 0 THEN InitialStore
                                 ELSE Effect(batch, i - 1, f[i - 1])]
  <1>2. \E f : IsRun(f)
    BY <1>1, SimulationExists
  <1>3. Sequential = CHOOSE f : IsRun(f)
    BY DEF Sequential, simulateSequentially
  <1>4. IsRun(Sequential)
    BY <1>2, <1>3, Zenon
  <1>5. \A i \in 0 .. Len0(batch) : Sequential[i] = IF i = 0 THEN InitialStore
                                                    ELSE Effect(batch, i - 1, Sequential[i - 1])
    BY <1>4
  <1>6. Sequential[0] = InitialStore
    BY <1>1, <1>5
  <1>7. ASSUME NEW i \in Nodes PROVE Sequential[i + 1] = Effect(batch, i, Sequential[i])
    <2>1. i + 1 \in 0 .. Len0(batch) /\ i + 1 # 0 /\ (i + 1) - 1 = i
      BY <1>1
    <2> QED BY <1>5, <2>1
  <1> QED BY <1>6, <1>7

\* What a storage call does to one rider's row.
LEMMA EffectCases ==
    ASSUME batch \in Batches, NEW i \in Nodes, NEW s \in [Keys -> Value]
    PROVE  /\ ~IsMutation(batch[i]) => Effect(batch, i, s) = s
           /\ \A k \in Keys : k # batch[i].Key => Effect(batch, i, s)[k] = s[k]
           /\ \A t \in [Keys -> Value] : IsMutation(batch[i]) =>
                Effect(batch, i, s)[batch[i].Key] = Effect(batch, i, t)[batch[i].Key]
  <1>1. batch[i].Key \in Keys
    BY BatchShape
  <1>2. ASSUME NEW t \in [Keys -> Value]
        PROVE  /\ batch[i].Type = OpWrite => Effect(batch, i, t) = [t EXCEPT ![batch[i].Key] = i]
               /\ batch[i].Type = OpDelete => Effect(batch, i, t) = [t EXCEPT ![batch[i].Key] = Absent]
               /\ ~IsMutation(batch[i]) => Effect(batch, i, t) = t
    <2>1. OpWrite # OpDelete
      BY DEF OpWrite, OpDelete
    <2> QED BY <2>1, Zenon DEF Effect, IsMutation
  <1>3. ~IsMutation(batch[i]) => Effect(batch, i, s) = s
    BY <1>2
  <1>4. \A k \in Keys : k # batch[i].Key => Effect(batch, i, s)[k] = s[k]
    BY <1>1, <1>2 DEF IsMutation
  <1>5. ASSUME NEW t \in [Keys -> Value], IsMutation(batch[i])
        PROVE  Effect(batch, i, s)[batch[i].Key] = Effect(batch, i, t)[batch[i].Key]
    BY <1>1, <1>2, <1>5 DEF IsMutation
  <1> QED BY <1>3, <1>4, <1>5

\* Every content of the reference execution is a map from riders to values.
LEMMA SequentialType ==
    ASSUME batch \in Batches, NEW n \in 0 .. Len0(batch)
    PROVE  Sequential[n] \in [Keys -> Value]
  <1>1. Len0(batch) \in Nat /\ Nodes = 0 .. (Len0(batch) - 1)
    BY BatchShape
  <1> DEFINE T == {d \in Nat : d <= Len0(batch) /\ Sequential[d] \notin [Keys -> Value]}
  <1>2. SUFFICES ASSUME T # {} PROVE FALSE
    BY <1>1
  <1>3. PICK m \in T : \A y \in T : m <= y
    BY <1>2, LeastNatural
  <1>4. m # 0
    BY <1>3, SequentialUnfolds, StoreAssumption
  <1>5. m - 1 \in Nodes /\ m - 1 \in Nat /\ m - 1 \notin T /\ (m - 1) + 1 = m
    BY <1>1, <1>3, <1>4
  <1>6. Sequential[m - 1] \in [Keys -> Value]
    BY <1>1, <1>3, <1>5
  <1>7. Sequential[m] = Effect(batch, m - 1, Sequential[m - 1])
    BY <1>5, SequentialUnfolds
  <1> QED BY <1>3, <1>5, <1>6, <1>7, EffectType

\* Between two positions with no write of a rider the reference execution
\* leaves the rider's row alone.
LEMMA SequentialFrame ==
    ASSUME batch \in Batches, NEW k \in Keys, NEW a \in Nat, NEW c \in Nat,
           a <= c, c <= Len0(batch),
           \A m \in Nodes : (a <= m /\ m < c /\ batch[m].Key = k) => ~IsMutation(batch[m])
    PROVE  Sequential[c][k] = Sequential[a][k]
  <1>1. Len0(batch) \in Nat /\ Nodes = 0 .. (Len0(batch) - 1)
    BY BatchShape
  <1> DEFINE T == {d \in Nat : a <= d /\ d <= c /\ Sequential[d][k] # Sequential[a][k]}
  <1>2. SUFFICES ASSUME T # {} PROVE FALSE
    OBVIOUS
  <1>3. PICK m \in T : \A y \in T : m <= y
    BY <1>2, LeastNatural
  <1>4. m \in Nat /\ a <= m /\ m <= c /\ Sequential[m][k] # Sequential[a][k]
    BY <1>3
  <1>5. m # a
    BY <1>4
  <1>6. /\ m - 1 \in Nodes /\ m - 1 \in Nat /\ (m - 1) + 1 = m
        /\ a <= m - 1 /\ m - 1 < c /\ m - 1 <= c /\ m - 1 \in 0 .. Len0(batch)
    BY <1>1, <1>4, <1>5
  <1>7. Sequential[m - 1][k] = Sequential[a][k]
    <2>1. m - 1 \notin T
      BY <1>3, <1>4, <1>6
    <2> QED BY <1>6, <2>1
  <1>8. Sequential[m] = Effect(batch, m - 1, Sequential[m - 1])
    BY <1>6, SequentialUnfolds
  <1>9. Sequential[m - 1] \in [Keys -> Value]
    BY <1>6, SequentialType
  <1>10. Effect(batch, m - 1, Sequential[m - 1])[k] = Sequential[m - 1][k]
    <2>1. CASE batch[m - 1].Key = k
      <3>1. ~IsMutation(batch[m - 1])
        BY <1>6, <2>1
      <3> QED BY <1>6, <1>9, <3>1, EffectCases
    <2>2. CASE batch[m - 1].Key # k
      BY <1>6, <1>9, <2>2, EffectCases
    <2> QED BY <2>1, <2>2
  <1> QED BY <1>4, <1>7, <1>8, <1>10

\* At a position whose earlier writes of the rider have all succeeded and
\* whose later ones have not, the row holds the sequential value.
LEMMA RowIsSequential ==
    ASSUME batch \in Batches, StoreInv, NEW k \in Keys, NEW n \in 0 .. Len0(batch),
           \A j \in Nodes : (batch[j].Key = k /\ IsMutation(batch[j])) =>
              (j < n <=> outcome[j].state = "ok")
    PROVE  store[k] = Sequential[n][k]
  <1>1. Len0(batch) \in Nat /\ Nodes = 0 .. (Len0(batch) - 1) /\ n \in Nat /\ n <= Len0(batch)
    BY BatchShape
  <1>2. CASE DoneWrites(k) = {} /\ store[k] = InitialStore[k]
    <2>1. \A m \in Nodes : (0 <= m /\ m < n /\ batch[m].Key = k) => ~IsMutation(batch[m])
      BY <1>2 DEF DoneWrites
    <2>2. Sequential[n][k] = Sequential[0][k]
      BY <1>1, <2>1, SequentialFrame
    <2> QED BY <1>2, <2>2, SequentialUnfolds
  <1>3. ASSUME NEW i \in DoneWrites(k), \A j \in DoneWrites(k) : j <= i,
               store[k] = Sequential[i + 1][k]
        PROVE  store[k] = Sequential[n][k]
    <2>1. i \in Nodes /\ i < n /\ i \in Nat
      BY <1>1, <1>3 DEF DoneWrites
    <2>2. \A m \in Nodes : (i + 1 <= m /\ m < n /\ batch[m].Key = k) => ~IsMutation(batch[m])
      BY <1>1, <1>3, <2>1 DEF DoneWrites
    <2>3. Sequential[n][k] = Sequential[i + 1][k]
      BY <1>1, <2>1, <2>2, SequentialFrame
    <2> QED BY <1>3, <2>3
  <1> QED BY <1>2, <1>3 DEF StoreInv

\* The two parts in the form in which OkIsSequential states them.
LEMMA SequentialInvMeans ==
    ASSUME batch \in Batches, AnswerInv, StoreInv
    PROVE  OkIsSequential
  <1>1. ASSUME NEW k \in Keys
        PROVE  store[k] = IF DoneWrites(k) = {} THEN InitialStore[k]
                          ELSE Sequential[1 + CHOOSE i \in DoneWrites(k) :
                                                \A j \in DoneWrites(k) : j <= i][k]
    <2>1. CASE DoneWrites(k) = {}
      BY <2>1 DEF StoreInv
    <2>2. CASE DoneWrites(k) # {}
      <3>1. PICK i \in DoneWrites(k) : /\ \A j \in DoneWrites(k) : j <= i
                                       /\ store[k] = Sequential[i + 1][k]
        BY <2>2 DEF StoreInv
      <3> DEFINE c == CHOOSE x \in DoneWrites(k) : \A j \in DoneWrites(k) : j <= x
      <3>2. c \in DoneWrites(k) /\ \A j \in DoneWrites(k) : j <= c
        BY <3>1
      <3>3. c <= i /\ i <= c /\ c \in Nat /\ i \in Nat
        BY <3>1, <3>2, BatchShape DEF DoneWrites
      <3>4. c = i
        BY <3>3
      <3>5. 1 + c = i + 1
        BY <3>3, <3>4
      <3> QED BY <2>2, <3>1, <3>5
    <2> QED BY <2>1, <2>2
  <1> QED BY <1>1 DEF OkIsSequential, AnswerInv, DoneWrites

\* Nothing has run yet.
LEMMA SequentialInitInv == EngineInit => SequentialInv
  <1> SUFFICES ASSUME EngineInit PROVE SequentialInv
    OBVIOUS
  <1>1. \A i \in Nodes : outcome[i].state = "pending"
    BY DEF EngineInit, Pending
  <1>2. inStorage = {} /\ store = InitialStore
    BY DEF EngineInit
  <1>3. \A k \in Keys : DoneWrites(k) = {}
    BY <1>1 DEF DoneWrites
  <1> QED BY <1>1, <1>2, <1>3 DEF SequentialInv, FailInv, PrefixInv, AnswerInv, StoreInv

\* Steps that neither begin nor end a storage call.
LEMMA SequentialFrameInv ==
    ASSUME EngineInv, SequentialInv, UNCHANGED <<batch, store, outcome, inStorage>>,
           \A w \in inStorage : node'[w] = node[w],
           ctxDone' = ctxDone \/ ctxDone' = TRUE,
           runErr' = "nil" => runErr = "nil" \/ ~ctxDone \/ executed = {}
    PROVE  SequentialInv'
  <1>1. Nodes' = Nodes /\ Sequential' = Sequential
        /\ \A k : DoneWrites(k)' = DoneWrites(k)
    BY DEF Nodes, Sequential, DoneWrites
  <1>2. FailInv'
    <2>1. executed = {} => \A i \in Nodes : outcome[i].state # "failed"
      BY DEF EngineInv, OutcomeInv, Pending
    <2> QED BY <1>1, <2>1 DEF SequentialInv, FailInv
  <1>3. PrefixInv'
    BY <1>1 DEF SequentialInv, PrefixInv
  <1>4. AnswerInv' /\ StoreInv'
    BY <1>1 DEF SequentialInv, AnswerInv, StoreInv
  <1> QED BY <1>2, <1>3, <1>4 DEF SequentialInv

\* A call is let in while the context lasts: until then nothing has failed.
LEMMA SequentialEnterInv ==
    ASSUME EngineInv, SequentialInv, NEW w \in Workers, StorageEnter(w)
    PROVE  SequentialInv'
  <1>1. /\ UNCHANGED <<batch, store, outcome, node, runErr, ctxDone>>
        /\ inStorage' = inStorage \cup {w} /\ pc[w] = "execute" /\ ~ctxDone
    BY DEF StorageEnter, hazardVars, poolOnly
  <1>2. Nodes' = Nodes /\ Sequential' = Sequential
        /\ \A k : DoneWrites(k)' = DoneWrites(k)
    BY <1>1 DEF Nodes, Sequential, DoneWrites
  <1>3. \A j \in Nodes : (j < node[w] /\ Conflict(batch, j, node[w])) => outcome[j].state = "ok"
    <2>1. \A j \in Nodes : (j < node[w] /\ Conflict(batch, j, node[w])) => j \in executed
      BY <1>1, EarlierConflictsExecuted
    <2> QED BY <1>1, <2>1 DEF EngineInv, OutcomeInv, SequentialInv, FailInv
  <1>4. PrefixInv'
    BY <1>1, <1>2, <1>3 DEF SequentialInv, PrefixInv
  <1>5. FailInv' /\ AnswerInv' /\ StoreInv'
    BY <1>1, <1>2 DEF SequentialInv, FailInv, AnswerInv, StoreInv
  <1> QED BY <1>4, <1>5 DEF SequentialInv

\* A refused call: no later operation that conflicts with it was let in.
LEMMA SequentialRefuseInv ==
    ASSUME EngineInv, SequentialInv, NEW w \in Workers, StorageRefuse(w)
    PROVE  SequentialInv'
  <1>1. /\ pc[w] = "execute" /\ node[w] \in Nodes /\ node[w] \notin executed
        /\ UNCHANGED <<batch, node, runPc, runErr, ctxDone>>
        /\ PP!PoolInv
    BY StorageFacts
  <1>2. /\ ctxDone /\ UNCHANGED <<store, inStorage>>
        /\ outcome' = [outcome EXCEPT ![node[w]] = Failed]
    BY DEF StorageRefuse
  <1>3. runErr # "nil"
    BY <1>1 DEF PP!PoolInv, PP!RunInv, EngineInv, HandlerInv
  <1>4. /\ outcome \in [Nodes -> Outcome] /\ outcome[node[w]].state = "pending"
        /\ outcome'[node[w]].state = "failed"
        /\ \A i \in Nodes : i # node[w] => outcome'[i] = outcome[i]
    BY <1>1, <1>2 DEF EngineInv, EngineTypeOK, OutcomeInv, Pending, Failed
  <1>5. \A i \in Nodes : outcome'[i].state = "ok" <=> outcome[i].state = "ok"
    BY <1>4
  <1>6. Nodes' = Nodes /\ Sequential' = Sequential
        /\ \A k : DoneWrites(k)' = DoneWrites(k)
    BY <1>1, <1>5 DEF Nodes, Sequential, DoneWrites
  <1>7. FailInv'
    BY <1>1, <1>2, <1>3, <1>4, <1>6 DEF SequentialInv, FailInv
  <1>8. PrefixInv'
    BY <1>1, <1>2, <1>5, <1>6 DEF SequentialInv, PrefixInv
  <1>9. AnswerInv' /\ StoreInv'
    BY <1>1, <1>2, <1>4, <1>5, <1>6 DEF SequentialInv, AnswerInv, StoreInv
  <1> QED BY <1>7, <1>8, <1>9 DEF SequentialInv

\* The access under the shard lock finds the row as sequential execution
\* would, and leaves it so.
LEMMA SequentialAccessInv ==
    ASSUME EngineInv, SequentialInv, NEW w \in Workers, StorageAccess(w)
    PROVE  SequentialInv'
  <1> DEFINE x == node[w]
             r == batch[x].Key
  <1>1. /\ pc[w] = "execute" /\ x \in Nodes /\ x \notin executed
        /\ UNCHANGED <<batch, node, runPc, runErr, ctxDone>>
        /\ inStorage' = inStorage \ {w}
        /\ batch \in Batches /\ store \in [Keys -> Value]
        /\ outcome \in [Nodes -> Outcome]
    BY StorageFacts DEF EngineInv, EngineTypeOK
  <1>2. /\ w \in inStorage
        /\ outcome' = [outcome EXCEPT ![x] = Ok(Observed(batch, x, store))]
        /\ store' = Effect(batch, x, store)
    BY DEF StorageAccess
  <1>3. /\ outcome[x].state = "pending"
        /\ outcome'[x].state = "ok" /\ outcome'[x].val = Observed(batch, x, store)
        /\ \A i \in Nodes : i # x => outcome'[i] = outcome[i]
    BY <1>1, <1>2 DEF EngineInv, OutcomeInv, Pending, Ok
  <1>4. /\ Nodes' = Nodes /\ Sequential' = Sequential
        /\ Len0(batch) \in Nat /\ Nodes = 0 .. (Len0(batch) - 1)
        /\ r \in Keys /\ \A i \in Nodes : i \in Nat
    BY <1>1, BatchShape DEF Nodes, Sequential
  <1>5. \A j \in Nodes : (j < x /\ Conflict(batch, j, x)) => outcome[j].state = "ok"
    BY <1>1, <1>2 DEF SequentialInv, PrefixInv
  <1>6. \A j \in Nodes : (x < j /\ Conflict(batch, x, j)) => outcome[j].state # "ok"
    BY <1>1, <1>3 DEF SequentialInv, PrefixInv
  <1>7. store[r] = Sequential[x][r]
    <2>1. x \in 0 .. Len0(batch)
      BY <1>1, <1>4
    <2>2. ASSUME NEW j \in Nodes, batch[j].Key = r, IsMutation(batch[j])
          PROVE  j < x <=> outcome[j].state = "ok"
      <3>1. Conflict(batch, j, x) /\ Conflict(batch, x, j)
        BY <2>2 DEF Conflict
      <3>2. j < x \/ j = x \/ x < j
        BY <1>1, <1>4
      <3>3. ~(j < x /\ j = x) /\ ~(j < x /\ x < j)
        BY <1>1, <1>4
      <3> QED BY <1>3, <1>5, <1>6, <3>1, <3>2, <3>3
    <2> QED BY <1>1, <1>4, <2>1, <2>2, RowIsSequential DEF SequentialInv
  <1>8. Sequential[x] \in [Keys -> Value] /\ Sequential[x + 1] = Effect(batch, x, Sequential[x])
    <2>1. x \in 0 .. Len0(batch)
      BY <1>1, <1>4
    <2> QED BY <1>1, <2>1, SequentialType, SequentialUnfolds
  <1>9. FailInv'
    BY <1>1, <1>3, <1>4 DEF SequentialInv, FailInv
  <1>10. PrefixInv'
    <2> SUFFICES ASSUME NEW i \in Nodes, NEW j \in Nodes, j < i, Conflict(batch, j, i),
                        outcome'[i].state = "ok" \/ \E v \in inStorage' : node'[v] = i
                 PROVE  outcome'[j].state = "ok"
      BY <1>1, <1>4 DEF PrefixInv
    <2>1. outcome[i].state = "ok" \/ \E v \in inStorage : node[v] = i
      BY <1>1, <1>2, <1>3
    <2>2. outcome[j].state = "ok"
      BY <2>1 DEF SequentialInv, PrefixInv
    <2> QED BY <1>3, <2>2
  <1>11. AnswerInv'
    <2>1. Observed(batch, x, store) = Observed(batch, x, Sequential[x])
      BY <1>7, Zenon DEF Observed
    <2>2. ASSUME NEW i \in Nodes, outcome'[i].state = "ok"
          PROVE  outcome'[i].val = Observed(batch, i, Sequential[i])
      BY <1>3, <2>1, <2>2 DEF SequentialInv, AnswerInv
    <2> QED BY <1>1, <1>4, <2>2 DEF AnswerInv
  <1>12. StoreInv'
    <2> SUFFICES ASSUME NEW k \in Keys
                 PROVE  \/ DoneWrites(k)' = {} /\ store'[k] = InitialStore[k]
                        \/ \E i \in DoneWrites(k)' : /\ \A j \in DoneWrites(k)' : j <= i
                                                     /\ store'[k] = Sequential[i + 1][k]
      BY <1>4 DEF StoreInv
    <2>1. CASE k = r /\ IsMutation(batch[x])
      <3>1. x \in DoneWrites(k)'
        BY <1>1, <1>3, <1>4, <2>1 DEF DoneWrites
      <3>2. ASSUME NEW j \in DoneWrites(k)' PROVE j <= x
        <4>1. j \in Nodes /\ (j = x \/ outcome[j].state = "ok") /\ Conflict(batch, x, j)
          BY <1>1, <1>3, <1>4, <2>1 DEF DoneWrites, Conflict
        <4>2. ~(x < j)
          BY <1>1, <1>3, <1>4, <1>6, <4>1
        <4> QED BY <1>1, <1>4, <4>1, <4>2
      <3>3. store'[k] = Sequential[x + 1][k]
        BY <1>1, <1>2, <1>8, <2>1, EffectCases
      <3> QED BY <3>1, <3>2, <3>3
    <2>2. CASE ~(k = r /\ IsMutation(batch[x]))
      <3>1. DoneWrites(k)' = DoneWrites(k)
        BY <1>1, <1>3, <1>4, <2>2 DEF DoneWrites
      <3>2. store'[k] = store[k]
        BY <1>1, <1>2, <2>2, EffectCases
      <3> QED BY <3>1, <3>2 DEF SequentialInv, StoreInv
    <2> QED BY <2>1, <2>2
  <1> QED BY <1>9, <1>10, <1>11, <1>12 DEF SequentialInv

\* Every step keeps the engine on the sequential execution.
LEMMA SequentialStepInv ==
    ASSUME Faults = FALSE, EngineInv, SequentialInv, [EngineNext]_engineVars
    PROVE  SequentialInv'
  <1>1. CASE HandlerStep \/ ContextEnds
    <2>1. /\ UNCHANGED <<batch, store, outcome, inStorage, node, runErr>>
          /\ ctxDone' = ctxDone \/ ctxDone' = TRUE
      BY <1>1 DEF HandlerStep, HandlerBuild, HandlerLaunch, HandlerDrained, HandlerTimeout,
                  HandlerRespond, ContextEnds, hazardVars, storageVars, poolOnly,
                  R!Drain, R!ConsumerEnd, R!ConsumerLeave, H!Build, H!BuildRead,
                  H!BuildMutation, H!BuildReject, H!BuildCollect, H!BuildReturn
    <2> QED BY <2>1, SequentialFrameInv
  <1>2. CASE RunStep
    <2>1. PP!PoolInv
      BY <1>2, Started DEF RunStep
    <2>2. /\ UNCHANGED <<batch, store, outcome, inStorage, node, ctxDone>>
          /\ runErr' = "nil" => runErr = "nil" \/ ~ctxDone \/ executed = {}
      BY <1>2, <2>1 DEF RunStep, NotPool, storageVars, P!RunStep, P!RunEmpty, P!RunStart,
                        P!RunReturn, P!workerVars, PP!PoolInv, PP!RunInv
    <2> QED BY <2>2, SequentialFrameInv
  <1>3. ASSUME NEW w \in Workers, WorkerStep(w) PROVE SequentialInv'
    <2>1. CASE WorkerLoop(w)
      <3>1. PP!PoolTypeOK
        <4>1. pc[w] # "idle"
          BY <2>1 DEF WorkerLoop, P!Receive, P!ReceiveClosed, P!SelectDone, P!ReleaseOne,
                      P!ReleaseClose, P!Dispatch, P!Account, P!CloseWork
        <4> QED BY <4>1, Started
      <3>2. /\ UNCHANGED <<batch, store, outcome, inStorage, runErr, ctxDone>>
            /\ \A v \in inStorage : node'[v] = node[v]
        BY <2>1, <3>1, LoopFacts DEF EngineInv, EngineTypeOK, InStorageInv
      <3> QED BY <3>2, SequentialFrameInv
    <2>2. CASE WorkerCommit(w)
      <3>1. UNCHANGED <<batch, store, outcome, inStorage, node, runErr, ctxDone>>
        <4>1. hPc # "build" /\ RP!RobTypeOK
          BY <2>2, Started DEF WorkerCommit
        <4>2. UNCHANGED ctxDone
          BY <2>2, <4>1, RobStepFacts DEF WorkerCommit
        <4> QED BY <2>2, <4>2 DEF WorkerCommit, NotPool, storageVars, P!CommitReturns, poolOnly
      <3> QED BY <3>1, SequentialFrameInv
    <2> QED BY <1>3, <2>1, <2>2, SequentialEnterInv, SequentialRefuseInv, SequentialAccessInv
            DEF WorkerStep, StorageFault
  <1>4. CASE UNCHANGED engineVars
    <2>1. UNCHANGED <<batch, store, outcome, inStorage, node, runErr, ctxDone>>
      BY <1>4 DEF engineVars, hazardVars, storageVars, poolOnly
    <2> QED BY <2>1, SequentialFrameInv
  <1> QED BY <1>1, <1>2, <1>3, <1>4 DEF EngineNext, EngineDone

\* With the in-memory store, for every batch and any number of workers: an
\* operation that reports success got the answer of sequential execution, and
\* the store holds each rider's sequential value after its latest successful
\* write, also when the context ends in the middle.
THEOREM SuccessesAreSequential ==
    ASSUME Faults = FALSE PROVE EngineSpec => []OkIsSequential
  <1>1. EngineInv /\ SequentialInv /\ [EngineNext]_engineVars => SequentialInv'
    BY SequentialStepInv
  <1>2. EngineInv /\ SequentialInv => OkIsSequential
    BY SequentialInvMeans DEF EngineInv, SequentialInv
  <1> QED BY <1>1, <1>2, SequentialInitInv, EngineInvariant, PTL DEF EngineSpec

\* A 200 carries every result once and in order, none of them an error; the
\* store then holds what sequential execution leaves, and no worker is left.
THEOREM SuccessResponseIsSequential ==
    ASSUME Faults = FALSE PROVE EngineSpec => []SuccessIsSequential
  <1>1. EngineInv /\ SequentialInv /\ [EngineNext]_engineVars => SequentialInv'
    BY SequentialStepInv
  <1>2. ASSUME EngineInv, SequentialInv PROVE SuccessIsSequential
    <2> SUFFICES ASSUME response = "200"
                 PROVE  /\ received = [p \in 1 .. Len0(batch) |-> p - 1]
                        /\ \A i \in Nodes : outcome[i].state = "ok"
                        /\ store = Sequential[Len0(batch)]
                        /\ \A w \in Workers : pc[w] = "exited"
      BY DEF SuccessIsSequential
    <2>1. /\ hPc # "build" /\ consumer = "finished" /\ runPc = "returned" /\ runErr = "nil"
          /\ PP!PoolInv /\ RP!RobInv /\ RP!RobTypeOK /\ PP!PoolNodes = Nodes
          /\ batch \in Batches
      BY <1>2, Started DEF EngineInv, HandlerInv
    <2>2. /\ Len0(batch) \in Nat /\ Nodes = 0 .. (Len0(batch) - 1) /\ Nodes # {}
          /\ \A i \in Nodes : i \in Nat
      BY <2>1, BatchShape
    <2>3. received = [p \in 1 .. Len0(batch) |-> p - 1]
      <3>1. /\ received \in Seq(Nat) /\ Len(received) = Len0(batch)
            /\ \A p \in DOMAIN received : received[p] = p - 1
        BY <2>1 DEF RP!RobInv, RP!RobTypeOK, RP!DrainInv, RP!CountInv, RP!InOrder
      <3>2. DOMAIN received = 1 .. Len0(batch)
        BY <3>1
      <3> QED BY <3>1, <3>2
    <2>4. PP!ReturnMeansDone
      BY <2>1, PP!CloseLemma, PP!ReturnLemma, InstanceAssumptions
    <2>5. \A i \in Nodes : outcome[i].state = "ok"
      <3>1. executed = Nodes
        BY <2>1, <2>4 DEF PP!ReturnMeansDone
      <3> QED BY <1>2, <2>1, <3>1 DEF EngineInv, OutcomeInv, SequentialInv, FailInv
    <2>6. \A k \in Keys : store[k] = Sequential[Len0(batch)][k]
      <3>1. Len0(batch) \in 0 .. Len0(batch) /\ \A j \in Nodes : j < Len0(batch)
        BY <2>2
      <3> QED BY <1>2, <2>1, <2>5, <3>1, RowIsSequential DEF SequentialInv
    <2>7. store = Sequential[Len0(batch)]
      <3>1. Len0(batch) \in 0 .. Len0(batch)
        BY <2>2
      <3>2. store \in [Keys -> Value] /\ Sequential[Len0(batch)] \in [Keys -> Value]
        BY <1>2, <2>1, <3>1, SequentialType DEF EngineInv, EngineTypeOK
      <3> QED BY <2>6, <3>2
    <2>8. \A w \in Workers : pc[w] = "exited"
      BY <1>2, <2>1, <2>4 DEF EngineInv, WorkersInv, PP!ReturnMeansDone
    <2> QED BY <2>3, <2>5, <2>7, <2>8
  <1> QED BY <1>1, <1>2, SequentialInitInv, EngineInvariant, PTL DEF EngineSpec
=============================================================================

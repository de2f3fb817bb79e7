----------------------------- MODULE WorkerPool -----------------------------
(***************************************************************************)
(* ConcurrentWorkerPool.Run (workerpool.go) with DAGNode.Release           *)
(* (types.go): goroutines take nodes from a buffered channel, execute      *)
(* them, release their dependents with atomic decrements, commit them and  *)
(* send the nodes that became runnable back into the channel.              *)
(*                                                                         *)
(* One action is one access to state that workers share: a channel         *)
(* operation, an atomic decrement, the storage call, the commit.  What a   *)
(* storage call and a commit do is left to BatchEngine; here they only     *)
(* take a step that ends.                                                  *)
(***************************************************************************)
EXTENDS DAG

CONSTANTS
    Workers,  \* the goroutines Run starts; NewConcurrentWorkerPool makes it >= 1
    Graphs    \* the graphs Run may be called with: [dependents, runnable]

ASSUME WorkersAssumption == IsFiniteSet(Workers) /\ Workers # {}
\* Build returns nothing else (theorem BuildReturnsGraph of HazardResolverProofs).
ASSUME GraphsAssumption == \A g \in Graphs : IsGraph(g)

VARIABLES
    dependents,  \* DAGNode.dependents; read-only while Run executes
    inDegree,    \* DAGNode.inDegree, an atomic counter
    runnable,    \* the argument "initial" of Run
    doneClosed,  \* nodes whose done channel is closed
    executed,    \* nodes whose Result and Err are written
    total,       \* number of reachable nodes = capacity of workCh
    workCh,      \* content of the dispatch channel
    chClosed,    \* close(workCh) happened
    remaining,   \* atomic count of nodes not yet fully processed
    runPc,       \* "start", "running" (blocked in wg.Wait) or "returned"
    runErr,      \* what Run returned: "nil" or "ctx"
    pc,          \* where each worker is in its loop
    node,        \* the node it holds
    rel,         \* loop index of Release
    newly,       \* newlyRunnable, the part not yet sent
    ctxDone      \* the context is cancelled or past its deadline

nodeVars == <<dependents, inDegree, runnable, doneClosed, executed>>
chanVars == <<total, workCh, chClosed, remaining>>
workerVars == <<pc, node, rel, newly>>
poolVars == <<nodeVars, chanVars, runPc, runErr, workerVars, ctxDone>>

PoolNodes == DOMAIN dependents

\* A worker that has taken a node and not finished with it.
Busy == {"execute", "release", "commit", "dispatch"}

\* Nodes are batch positions, so -1 is none of them.
NoneHeld == -1

PoolTypeOK ==
    /\ dependents \in [PoolNodes -> Seq(PoolNodes)]
    /\ inDegree \in [PoolNodes -> Nat]
    /\ runnable \in Seq(PoolNodes)
    /\ doneClosed \in SUBSET PoolNodes
    /\ executed \in SUBSET PoolNodes
    /\ total \in Nat
    /\ workCh \in Seq(PoolNodes)
    /\ chClosed \in BOOLEAN
    /\ remaining \in Nat
    /\ runPc \in {"start", "running", "returned"}
    /\ runErr \in {"none", "nil", "ctx"}
    /\ pc \in [Workers -> Busy \cup {"idle", "select", "close", "exited"}]
    /\ node \in [Workers -> PoolNodes \cup {NoneHeld}]
    /\ rel \in [Workers -> Nat]
    /\ newly \in [Workers -> Seq(PoolNodes)]
    /\ ctxDone \in BOOLEAN

-----------------------------------------------------------------------------
\* The state of the pool before Run is called, given the graph.
PoolIdle ==
    /\ doneClosed = {}
    /\ executed = {}
    /\ total = 0
    /\ workCh = << >>
    /\ chClosed = FALSE
    /\ remaining = 0
    /\ runPc = "start"
    /\ runErr = "none"
    /\ pc = [w \in Workers |-> "idle"]
    /\ node = [w \in Workers |-> NoneHeld]
    /\ rel = [w \in Workers |-> 1]
    /\ newly = [w \in Workers |-> << >>]
    /\ ctxDone = FALSE

PoolInit ==
    /\ \E g \in Graphs : /\ dependents = g.dependents
                         /\ runnable = g.runnable
    /\ inDegree = [n \in PoolNodes |-> Cardinality(PredsIn(dependents, n))]
    /\ PoolIdle

\* Run on a graph with no node.
RunEmpty ==
    /\ runPc = "start"
    /\ reachableNodes(dependents, Range(runnable)) = {}
    /\ runPc' = "returned"
    /\ runErr' = "nil"
    /\ UNCHANGED <<nodeVars, chanVars, workerVars, ctxDone>>

\* Mutants: remaining counts only the nodes Run is called with; the channel
\* has room only for those.
RunStartCountsInitial ==
    LET all == reachableNodes(dependents, Range(runnable)) IN
    /\ runPc = "start"
    /\ all # {}
    /\ total' = Cardinality(all)
    /\ workCh' = runnable
    /\ remaining' = Len(runnable)
    /\ runPc' = "running"
    /\ pc' = [w \in Workers |-> "select"]
    /\ UNCHANGED <<nodeVars, chClosed, runErr, node, rel, newly, ctxDone>>

RunStartSmallChannel ==
    LET all == reachableNodes(dependents, Range(runnable)) IN
    /\ runPc = "start"
    /\ all # {}
    /\ total' = Len(runnable)
    /\ workCh' = runnable
    /\ remaining' = Cardinality(all)
    /\ runPc' = "running"
    /\ pc' = [w \in Workers |-> "select"]
    /\ UNCHANGED <<nodeVars, chClosed, runErr, node, rel, newly, ctxDone>>

\* Run up to wg.Wait: size and seed the channel, start the workers.
RunStart ==
    LET all == reachableNodes(dependents, Range(runnable)) IN
    /\ runPc = "start"
    /\ all # {}
    /\ total' = Cardinality(all)
    /\ workCh' = runnable
    /\ remaining' = Cardinality(all)
    /\ runPc' = "running"
    /\ pc' = [w \in Workers |-> "select"]
    /\ UNCHANGED <<nodeVars, chClosed, runErr, node, rel, newly, ctxDone>>

\* case node, ok := <-workCh
Receive(w) ==
    /\ pc[w] = "select"
    /\ workCh # << >>
    /\ node' = [node EXCEPT ![w] = Head(workCh)]
    /\ workCh' = Tail(workCh)
    /\ pc' = [pc EXCEPT ![w] = "execute"]
    /\ UNCHANGED <<nodeVars, total, chClosed, remaining, runPc, runErr, rel, newly, ctxDone>>

\* ... with ok = FALSE: a closed channel delivers its content first.
ReceiveClosed(w) ==
    /\ pc[w] = "select"
    /\ workCh = << >> /\ chClosed
    /\ pc' = [pc EXCEPT ![w] = "exited"]
    /\ UNCHANGED <<nodeVars, chanVars, runPc, runErr, node, rel, newly, ctxDone>>

\* case <-ctx.Done(); select picks any case that is ready.
SelectDone(w) ==
    /\ pc[w] = "select"
    /\ ctxDone
    /\ pc' = [pc EXCEPT ![w] = "exited"]
    /\ UNCHANGED <<nodeVars, chanVars, runPc, runErr, node, rel, newly, ctxDone>>

\* executeNode returns: Result and Err are final.
Execute(w) ==
    /\ pc[w] = "execute"
    /\ executed' = executed \cup {node[w]}
    /\ pc' = [pc EXCEPT ![w] = "release"]
    /\ UNCHANGED <<dependents, inDegree, runnable, doneClosed, chanVars, runPc, runErr,
                   node, rel, newly, ctxDone>>

\* Mutant: a dependent counts as runnable after any of its predecessors.
ReleaseOneAlways(w) ==
    /\ pc[w] = "release"
    /\ rel[w] \in DOMAIN dependents[node[w]]
    /\ LET dep == dependents[node[w]][rel[w]] IN
       /\ inDegree' = [inDegree EXCEPT ![dep] = @ - 1]
       /\ newly' = [newly EXCEPT ![w] = Append(@, dep)]
    /\ rel' = [rel EXCEPT ![w] = @ + 1]
    /\ UNCHANGED <<dependents, runnable, doneClosed, executed, chanVars, runPc, runErr,
                   pc, node, ctxDone>>

\* One iteration of Release: dep.inDegree.Add(-1) == 0.
ReleaseOne(w) ==
    /\ pc[w] = "release"
    /\ rel[w] \in DOMAIN dependents[node[w]]
    /\ LET dep == dependents[node[w]][rel[w]] IN
       /\ inDegree' = [inDegree EXCEPT ![dep] = @ - 1]
       /\ newly' = IF inDegree[dep] = 1
                   THEN [newly EXCEPT ![w] = Append(@, dep)]
                   ELSE newly
    /\ rel' = [rel EXCEPT ![w] = @ + 1]
    /\ UNCHANGED <<dependents, runnable, doneClosed, executed, chanVars, runPc, runErr,
                   pc, node, ctxDone>>

\* The end of Release: close(n.done).
ReleaseClose(w) ==
    /\ pc[w] = "release"
    /\ rel[w] \notin DOMAIN dependents[node[w]]
    /\ doneClosed' = doneClosed \cup {node[w]}
    /\ rel' = [rel EXCEPT ![w] = 1]
    /\ pc' = [pc EXCEPT ![w] = "commit"]
    /\ UNCHANGED <<dependents, inDegree, runnable, executed, chanVars, runPc, runErr,
                   node, newly, ctxDone>>

\* rob.Commit(node) returns.
CommitReturns(w) ==
    /\ pc[w] = "commit"
    /\ pc' = [pc EXCEPT ![w] = "dispatch"]
    /\ UNCHANGED <<nodeVars, chanVars, runPc, runErr, node, rel, newly, ctxDone>>

\* workCh <- next; a send on a full channel would block.
Dispatch(w) ==
    /\ pc[w] = "dispatch"
    /\ newly[w] # << >>
    /\ Len(workCh) < total
    /\ workCh' = Append(workCh, Head(newly[w]))
    /\ newly' = [newly EXCEPT ![w] = Tail(@)]
    /\ UNCHANGED <<nodeVars, total, chClosed, remaining, runPc, runErr, pc, node, rel, ctxDone>>

\* Mutant: nobody closes the channel.
AccountNoClose(w) ==
    /\ pc[w] = "dispatch"
    /\ newly[w] = << >>
    /\ remaining' = remaining - 1
    /\ node' = [node EXCEPT ![w] = NoneHeld]
    /\ pc' = [pc EXCEPT ![w] = "select"]
    /\ UNCHANGED <<nodeVars, total, workCh, chClosed, runPc, runErr, rel, newly, ctxDone>>

\* The dispatch loop is over: decrement remaining, close the channel at zero.
Account(w) ==
    /\ pc[w] = "dispatch"
    /\ newly[w] = << >>
    /\ remaining' = remaining - 1
    /\ node' = [node EXCEPT ![w] = NoneHeld]
    /\ pc' = [pc EXCEPT ![w] = IF remaining = 1 THEN "close" ELSE "select"]
    /\ UNCHANGED <<nodeVars, total, workCh, chClosed, runPc, runErr, rel, newly, ctxDone>>

\* close(workCh), by the worker that saw remaining reach zero.
CloseWork(w) ==
    /\ pc[w] = "close"
    /\ chClosed' = TRUE
    /\ pc' = [pc EXCEPT ![w] = "select"]
    /\ UNCHANGED <<nodeVars, total, workCh, remaining, runPc, runErr, node, rel, newly, ctxDone>>

\* Mutant: Run returns nil instead of ctx.Err().
RunReturnNil ==
    /\ runPc = "running"
    /\ \A w \in Workers : pc[w] = "exited"
    /\ runPc' = "returned"
    /\ runErr' = "nil"
    /\ UNCHANGED <<nodeVars, chanVars, workerVars, ctxDone>>

\* wg.Wait returns once every worker has exited; Run returns ctx.Err().
RunReturn ==
    /\ runPc = "running"
    /\ \A w \in Workers : pc[w] = "exited"
    /\ runPc' = "returned"
    /\ runErr' = IF ctxDone THEN "ctx" ELSE "nil"
    /\ UNCHANGED <<nodeVars, chanVars, workerVars, ctxDone>>

WorkerStep(w) ==
    \/ Receive(w) \/ ReceiveClosed(w) \/ SelectDone(w)
    \/ Execute(w) \/ ReleaseOne(w) \/ ReleaseClose(w) \/ CommitReturns(w)
    \/ Dispatch(w) \/ Account(w) \/ CloseWork(w)

RunStep == RunEmpty \/ RunStart \/ RunReturn

\* The caller's deadline expires or its request is abandoned, at any time.
Cancel ==
    /\ ~ctxDone
    /\ ctxDone' = TRUE
    /\ UNCHANGED <<nodeVars, chanVars, runPc, runErr, workerVars>>

PoolDone == runPc = "returned" /\ UNCHANGED poolVars

PoolNext == (\E w \in Workers : WorkerStep(w)) \/ RunStep \/ Cancel \/ PoolDone

PoolSpec == PoolInit /\ [][PoolNext]_poolVars

\* Goroutines are scheduled, storage calls and commits return.  No fairness
\* on Cancel: a context may never end.
PoolFairSpec ==
    /\ PoolSpec
    /\ WF_poolVars(RunStep)
    /\ \A w \in Workers : WF_poolVars(WorkerStep(w))

-----------------------------------------------------------------------------
Holders(n) == {w \in Workers : pc[w] \in Busy /\ node[w] = n}

\* Nodes a worker has entirely processed: executed, released, committed,
\* dependents dispatched and counted.
Finished == {n \in doneClosed : Holders(n) = {}}

\* No worker is ever in a position to panic: to send into the closed channel,
\* to close it twice, or to close a done channel twice.
NoPanic ==
    \A w \in Workers :
      /\ (pc[w] = "dispatch" /\ newly[w] # << >>) => ~chClosed
      /\ pc[w] = "close" => ~chClosed
      /\ pc[w] \in {"execute", "release"} => node[w] \notin doneClosed

\* "No send can ever block": a worker about to send finds room, whatever the
\* others do.  The capacity is the number of nodes, so this needs that no
\* node is ever queued twice.
SendNeverBlocks ==
    \A w \in Workers :
      (pc[w] = "dispatch" /\ newly[w] # << >>) => Len(workCh) < total

\* A node that is queued or held by a worker has had all its predecessors
\* executed; no two workers ever hold the same node.
DependencyOrder ==
    /\ \A w \in Workers : pc[w] \in Busy => PredsIn(dependents, node[w]) \subseteq executed
    /\ \A n \in Range(workCh) : PredsIn(dependents, n) \subseteq executed
    /\ \A n \in PoolNodes : Cardinality(Holders(n)) <= 1

\* When Run returns nil every node was executed and published; when it
\* returns, cancelled or not, no worker is left and no executed node is left
\* unpublished.
ReturnMeansDone ==
    runPc = "returned" =>
      /\ runErr = "nil" => executed = PoolNodes
      /\ doneClosed = executed
      /\ \A w \in Workers : pc[w] \in {"idle", "exited"}

\* The dispatch channel is closed only when there is nothing left to do, and
\* remaining counts exactly the nodes not yet finished.
CloseMeansDone ==
    /\ runPc # "start" /\ total # 0 => remaining = Cardinality(PoolNodes \ Finished)
    /\ chClosed => Finished = PoolNodes /\ workCh = << >>

\* A node is executed at most once: Result and Err are written by one step.
ExecutedOnce ==
    [][\A w \in Workers : (pc[w] = "execute" /\ pc'[w] # "execute") => node[w] \notin executed]_poolVars

\* Every Run returns, cancelled or not: no deadlock and no leaked goroutine.
RunReturns == <>(runPc = "returned")
=============================================================================

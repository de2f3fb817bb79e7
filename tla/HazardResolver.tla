--------------------------- MODULE HazardResolver ---------------------------
(***************************************************************************)
(* SequentialHazardResolver.Build (hazard.go): one pass over a batch that  *)
(* wires the dependency DAG, and a second one that collects the nodes with *)
(* no predecessor.  Build is single-threaded and its working state is      *)
(* local to the call; one action is one iteration of one of its loops.     *)
(*                                                                         *)
(* Node i is the DAGNode of the operation at position i of the batch.  The *)
(* map lastWrite is a function whose value is NoNode for an absent key.    *)
(* The slice lastReads[k] is kept as a set: it only ever receives the node *)
(* of the current iteration, so it has no duplicates, and its order only   *)
(* decides the order of appends to the fan-out lists of different nodes.   *)
(***************************************************************************)
EXTENDS Operations, DAG

VARIABLES
    batch,       \* the argument of Build
    pos,         \* loop index of the first pass
    lastWrite,   \* key -> node of its most recent write, or NoNode
    lastReads,   \* key -> nodes that read it since that write
    dependents,  \* DAGNode.dependents, the fan-out list of each node
    inDegree,    \* DAGNode.inDegree
    scan,        \* loop index of the second pass
    runnable,    \* the nodes without predecessor, in batch order
    result       \* what Build is doing or has returned

hazardVars == <<batch, pos, lastWrite, lastReads, dependents, inDegree, scan,
                runnable, result>>

NoNode == -1

Nodes == DOMAIN batch

Building == "building"
Built    == "built"
BadSeqID == "SeqID not dense"
BadType  == "unknown OperationType"

HazardTypeOK ==
    /\ batch \in Batches
    /\ pos \in Nat
    /\ lastWrite \in [Keys -> Nodes \cup {NoNode}]
    /\ lastReads \in [Keys -> SUBSET Nodes]
    /\ dependents \in [Nodes -> Seq(Nodes)]
    /\ inDegree \in [Nodes -> Nat]
    /\ scan \in Nat
    /\ runnable \in Seq(Nodes)
    /\ result \in {Building, Built, BadSeqID, BadType}

-----------------------------------------------------------------------------

HazardInit ==
    /\ batch \in Batches
    /\ pos = 0
    /\ lastWrite = [k \in Keys |-> NoNode]
    /\ lastReads = [k \in Keys |-> {}]
    /\ dependents = [n \in Nodes |-> << >>]
    /\ inDegree = [n \in Nodes |-> 0]
    /\ scan = 0
    /\ runnable = << >>
    /\ result = Building

\* The first loop is at a position of the batch ...
InLoop == result = Building /\ pos \in Nodes

\* ... whose operation passed the SeqID check.
op == batch[pos]
Dense == op.SeqID = pos

\* Mutant: the counter goes up once per call, whatever the number of edges.
AddDependenciesCountOne(preds, n) ==
    /\ dependents' = [m \in Nodes |-> IF m \in preds
                                      THEN Append(dependents[m], n)
                                      ELSE dependents[m]]
    /\ inDegree' = [inDegree EXCEPT ![n] = IF preds = {} THEN @ ELSE @ + 1]

\* m.AddDependency(n) for every m of the set preds.
AddDependencies(preds, n) ==
    /\ dependents' = [m \in Nodes |-> IF m \in preds
                                      THEN Append(dependents[m], n)
                                      ELSE dependents[m]]
    /\ inDegree' = [inDegree EXCEPT ![n] = @ + Cardinality(preds)]

LastWriter(k) == IF lastWrite[k] = NoNode THEN {} ELSE {lastWrite[k]}

\* Mutant: the read is not remembered in lastReads.
BuildReadUntracked ==
    /\ InLoop /\ Dense
    /\ op.Type = OpRead
    /\ AddDependencies(LastWriter(op.Key), pos)
    /\ pos' = pos + 1
    /\ UNCHANGED <<batch, lastWrite, lastReads, scan, runnable, result>>

\* case OpRead: the RAW edge.
BuildRead ==
    /\ InLoop /\ Dense
    /\ op.Type = OpRead
    /\ AddDependencies(LastWriter(op.Key), pos)
    /\ lastReads' = [lastReads EXCEPT ![op.Key] = @ \cup {pos}]
    /\ pos' = pos + 1
    /\ UNCHANGED <<batch, lastWrite, scan, runnable, result>>

\* Mutants: lastReads is not reset; the WAW edge is left out.
BuildMutationNoReset ==
    /\ InLoop /\ Dense
    /\ IsMutation(op)
    /\ AddDependencies(LastWriter(op.Key) \cup lastReads[op.Key], pos)
    /\ lastWrite' = [lastWrite EXCEPT ![op.Key] = pos]
    /\ pos' = pos + 1
    /\ UNCHANGED <<batch, lastReads, scan, runnable, result>>

BuildMutationNoWAW ==
    /\ InLoop /\ Dense
    /\ IsMutation(op)
    /\ AddDependencies(lastReads[op.Key], pos)
    /\ lastWrite' = [lastWrite EXCEPT ![op.Key] = pos]
    /\ lastReads' = [lastReads EXCEPT ![op.Key] = {}]
    /\ pos' = pos + 1
    /\ UNCHANGED <<batch, scan, runnable, result>>

\* case OpWrite, OpDelete: the WAW edge, the WAR edges, and the reset that
\* makes this node the last write of its key.
BuildMutation ==
    /\ InLoop /\ Dense
    /\ IsMutation(op)
    /\ AddDependencies(LastWriter(op.Key) \cup lastReads[op.Key], pos)
    /\ lastWrite' = [lastWrite EXCEPT ![op.Key] = pos]
    /\ lastReads' = [lastReads EXCEPT ![op.Key] = {}]
    /\ pos' = pos + 1
    /\ UNCHANGED <<batch, scan, runnable, result>>

\* Mutant: the type is checked before the SeqID is.
BuildRejectSwapped ==
    /\ InLoop
    /\ ~Dense \/ op.Type = UnknownOp
    /\ result' = IF op.Type = UnknownOp THEN BadType ELSE BadSeqID
    /\ UNCHANGED <<batch, pos, lastWrite, lastReads, dependents, inDegree, scan,
                   runnable>>

\* The two error returns.  The SeqID is checked before the type is.
BuildReject ==
    /\ InLoop
    /\ ~Dense \/ op.Type = UnknownOp
    /\ result' = IF Dense THEN BadType ELSE BadSeqID
    /\ UNCHANGED <<batch, pos, lastWrite, lastReads, dependents, inDegree, scan,
                   runnable>>

\* Mutant: a node with one predecessor counts as runnable.
BuildCollectOffByOne ==
    /\ result = Building /\ pos \notin Nodes
    /\ scan \in Nodes
    /\ runnable' = IF inDegree[scan] <= 1 THEN Append(runnable, scan) ELSE runnable
    /\ scan' = scan + 1
    /\ UNCHANGED <<batch, pos, lastWrite, lastReads, dependents, inDegree, result>>

\* The second loop.
BuildCollect ==
    /\ result = Building /\ pos \notin Nodes
    /\ scan \in Nodes
    /\ runnable' = IF inDegree[scan] = 0 THEN Append(runnable, scan) ELSE runnable
    /\ scan' = scan + 1
    /\ UNCHANGED <<batch, pos, lastWrite, lastReads, dependents, inDegree, result>>

BuildReturn ==
    /\ result = Building /\ pos \notin Nodes
    /\ scan \notin Nodes
    /\ result' = Built
    /\ UNCHANGED <<batch, pos, lastWrite, lastReads, dependents, inDegree, scan,
                   runnable>>

Build == \/ BuildRead \/ BuildMutation \/ BuildReject
         \/ BuildCollect \/ BuildReturn

HazardDone == result # Building /\ UNCHANGED hazardVars

HazardNext == Build \/ HazardDone

HazardSpec == HazardInit /\ [][HazardNext]_hazardVars

-----------------------------------------------------------------------------

Edge(i, j) == HasEdge(dependents, i, j)

\* Predecessors of a node in the graph built so far.
Preds(n) == PredsIn(dependents, n)

\* At every iteration the graph over the positions processed so far is
\* exactly the hazard relation computed from the operations alone: no hazard
\* is missed and no false dependency is added.  The code gets there with two
\* maps that forget everything older than the last write of each key.
BuildIsExact ==
    \A i, j \in Nodes : Edge(i, j) <=> (j < pos /\ DirectHazard(batch, i, j))

\* The counter that Release will decrement once per fan-out entry equals the
\* number of those entries over all nodes.  A duplicate entry, or an increment
\* without its entry, would make a node run too early or never.
InDegreeCountsEdges ==
    /\ \A n \in Nodes : inDegree[n] = Cardinality(Preds(n))
    /\ \A n \in Nodes : \A p, q \in DOMAIN dependents[n] :
          p < q => dependents[n][p] < dependents[n][q]

\* Any two conflicting operations of a built batch are connected by a path,
\* in batch order: together with the dispatch rule of the worker pool this
\* is what serialises them.
ConflictsOrdered ==
    result = Built =>
      \A i, j \in Nodes :
        (i < j /\ Conflict(batch, i, j)) => j \in reachableNodes(dependents, {i})

\* "total edge count is bounded by the batch itself ... never O(N^2)": a
\* mutation processed accounts for at most one edge and a read for at most two,
\* although a batch may have quadratically many conflicting pairs.
EdgesLinear ==
    Cardinality({e \in Nodes \X Nodes : Edge(e[1], e[2])})
      <= pos + Cardinality({n \in Nodes : n < pos /\ batch[n].Type = OpRead})

\* The runnable list is duplicate free, holds exactly the nodes without
\* predecessor, and every node of the batch is reachable from it: the comment
\* on reachableNodes, on which the capacity of the dispatch channel rests.
RunnableGroundsDAG ==
    result = Built =>
      /\ \A p, q \in DOMAIN runnable : p < q => runnable[p] < runnable[q]
      /\ Range(runnable) = {n \in Nodes : Preds(n) = {}}
      /\ reachableNodes(dependents, Range(runnable)) = Nodes

\* Build refuses a batch exactly when some position holds a wrong SeqID or an
\* unknown type, and names the first such position's reason.
AcceptsExactly ==
    LET Bad(i) == batch[i].SeqID # i \/ batch[i].Type = UnknownOp
    IN  /\ result = Built => \A i \in Nodes : ~Bad(i)
        /\ result \in {BadSeqID, BadType} =>
              \E i \in Nodes : /\ Bad(i)
                               /\ \A h \in Nodes : h < i => ~Bad(h)
                               /\ (result = BadSeqID) <=> (batch[i].SeqID # i)
=============================================================================

-------------------------- MODULE WorkerPoolProofs --------------------------
(***************************************************************************)
(* The safety properties of WorkerPool, for every number of workers and    *)
(* every graph Build can return.                                           *)
(*                                                                         *)
(* The invariant follows a node through the pool.  It waits, with a        *)
(* counter equal to the number of incoming edges not released yet; when    *)
(* the counter reaches zero it is, for the rest of the run, in exactly one *)
(* place: in some worker's newlyRunnable, in the channel, in the hands of  *)
(* one worker, or finished.                                                *)
(***************************************************************************)
EXTENDS WorkerPool, DAGProofs

Queue == Range(workCh)
New(w) == Range(newly[w])

\* The edge from m to n was counted down.
Released(m, n) ==
    \/ m \in doneClosed
    \/ \E w \in Workers : /\ pc[w] = "release" /\ node[w] = m
                          /\ \E q \in DOMAIN dependents[m] : q < rel[w] /\ dependents[m][q] = n

Waiting(n) == {m \in PredsIn(dependents, n) : ~Released(m, n)}

\* The graph Run was called with.
GraphInv ==
    /\ IsFiniteSet(PoolNodes)
    /\ \A m \in PoolNodes : NoDuplicates(dependents[m])
    /\ NoDuplicates(runnable)
    /\ Range(runnable) = {n \in PoolNodes : PredsIn(dependents, n) = {}}
    /\ reachableNodes(dependents, Range(runnable)) = PoolNodes

CounterInv == \A n \in PoolNodes : inDegree[n] = Cardinality(Waiting(n))

\* Release is inside its loop, or its index is at rest.
RelInv == \A w \in Workers :
            IF pc[w] = "release" THEN rel[w] \in 1 .. (Len(dependents[node[w]]) + 1)
                                 ELSE rel[w] = 1

\* What has been executed, and what its holder has done with it since.
ExecInv ==
    /\ doneClosed \subseteq executed
    /\ \A w \in Workers :
         /\ pc[w] = "execute" => node[w] \notin executed
         /\ pc[w] = "release" => node[w] \in executed /\ node[w] \notin doneClosed
         /\ pc[w] \in {"commit", "dispatch"} => node[w] \in doneClosed
    /\ \A n \in executed : n \in doneClosed \/ \E w \in Workers : pc[w] = "release" /\ node[w] = n

\* A node is in one place only.
HeldInv == \A w \in Workers : pc[w] \in Busy =>
             /\ node[w] \in PoolNodes
             /\ node[w] \notin Queue
             /\ \A v \in Workers : (v # w /\ pc[v] \in Busy) => node[v] # node[w]

QueueInv == NoDuplicates(workCh) /\ Queue \cap executed = {}

NewInv == \A w \in Workers :
            /\ NoDuplicates(newly[w])
            /\ newly[w] # << >> => pc[w] \in {"release", "commit", "dispatch"}
            /\ \A n \in New(w) : /\ n \notin Queue
                                 /\ n \notin executed
                                 /\ \A v \in Workers : v # w => n \notin New(v)
                                 /\ \A v \in Workers : pc[v] \in Busy => node[v] # n

\* A node has left the waiting state exactly when its counter is zero.
ActiveInv ==
    runPc # "start" =>
      \A n \in PoolNodes :
        inDegree[n] = 0 <=> \/ n \in Queue
                            \/ n \in executed
                            \/ \E w \in Workers : n \in New(w)
                            \/ \E w \in Workers : pc[w] = "execute" /\ node[w] = n

CountInv ==
    runPc # "start" => /\ total = Cardinality(PoolNodes)
                       /\ remaining = Cardinality(PoolNodes \ Finished)

\* The channel is closed once, by the worker that counted the last node.
CloseInv ==
    /\ chClosed => remaining = 0
    /\ \A w \in Workers : pc[w] = "close" =>
         /\ remaining = 0 /\ ~chClosed
         /\ \A v \in Workers : v # w => pc[v] # "close"

RunInv ==
    /\ runPc = "start" => /\ \A w \in Workers : pc[w] = "idle"
                          /\ doneClosed = {} /\ executed = {} /\ workCh = << >>
                          /\ ~chClosed /\ total = 0 /\ remaining = 0
    /\ runPc = "running" => \A w \in Workers : pc[w] # "idle"
    /\ runPc = "returned" => \A w \in Workers : pc[w] \in {"idle", "exited"}
    /\ runErr = "nil" => PoolNodes = {} \/ chClosed
    /\ \A w \in Workers : pc[w] = "exited" => chClosed \/ ctxDone

PoolInv ==
    /\ PoolTypeOK /\ GraphInv /\ CounterInv /\ RelInv /\ ExecInv
    /\ HeldInv /\ QueueInv /\ NewInv /\ ActiveInv /\ CountInv /\ CloseInv /\ RunInv

-----------------------------------------------------------------------------
\* The counters count the same edges when no worker's Release moves.
LEMMA WaitingFrame ==
    ASSUME dependents' = dependents, doneClosed' = doneClosed,
           \A w \in Workers : pc'[w] = "release" <=> pc[w] = "release",
           \A w \in Workers : pc[w] = "release" => node'[w] = node[w] /\ rel'[w] = rel[w]
    PROVE  \A n \in PoolNodes : Waiting(n)' = Waiting(n)
  <1>1. \A m, n \in PoolNodes : Released(m, n)' <=> Released(m, n)
    BY DEF Released
  <1>2. \A n \in PoolNodes : PredsIn(dependents, n)' = PredsIn(dependents, n)
    BY DEF PredsIn, HasEdge
  <1>3. \A n \in PoolNodes : PredsIn(dependents, n) \subseteq PoolNodes
    BY DEF PredsIn, PoolNodes
  <1> QED BY <1>1, <1>2, <1>3 DEF Waiting

\* Nothing is released before Run starts, so every edge is waited for.
LEMMA WaitingAtStart ==
    ASSUME doneClosed = {}, \A w \in Workers : pc[w] = "idle", NEW n \in PoolNodes
    PROVE  Waiting(n) = PredsIn(dependents, n)
  BY DEF Waiting, Released

\* The pool before Run, given a graph and the counters that count its edges.
LEMMA IdleInv ==
    ASSUME IsGraph([dependents |-> dependents, runnable |-> runnable]),
           inDegree = [n \in PoolNodes |-> Cardinality(PredsIn(dependents, n))],
           PoolIdle
    PROVE  PoolInv
  <1>1. GraphInv /\ dependents \in [PoolNodes -> Seq(PoolNodes)] /\ runnable \in Seq(PoolNodes)
    BY DEF IsGraph, GraphInv, PoolNodes
  <1>2. /\ inDegree = [n \in PoolNodes |-> Cardinality(PredsIn(dependents, n))]
        /\ PoolIdle
    OBVIOUS
  <1>3. \A n \in PoolNodes : Cardinality(PredsIn(dependents, n)) \in Nat
    <2> TAKE n \in PoolNodes
    <2>1. IsFiniteSet(PredsIn(dependents, n))
      BY <1>1, FS_Subset DEF GraphInv, PredsIn, PoolNodes
    <2> QED BY <2>1, FS_CardinalityType
  <1>4. PoolTypeOK
    <2>1. inDegree \in [PoolNodes -> Nat]
      BY <1>2, <1>3
    <2>2. workCh \in Seq(PoolNodes) /\ newly \in [Workers -> Seq(PoolNodes)]
      BY <1>2 DEF PoolIdle
    <2>3. /\ pc \in [Workers -> Busy \cup {"idle", "select", "close", "exited"}]
          /\ node \in [Workers -> PoolNodes \cup {NoneHeld}]
          /\ rel \in [Workers -> Nat]
      BY <1>2 DEF PoolIdle
    <2>4. chClosed \in BOOLEAN /\ ctxDone \in BOOLEAN
      BY <1>2, Zenon DEF PoolIdle
    <2> QED BY <1>1, <1>2, <2>1, <2>2, <2>3, <2>4 DEF PoolTypeOK, PoolIdle
  <1>5. CounterInv
    BY <1>2, WaitingAtStart DEF CounterInv, PoolIdle
  <1>6. RelInv /\ ExecInv /\ HeldInv
    BY <1>2 DEF RelInv, ExecInv, HeldInv, PoolIdle, Busy
  <1>7. QueueInv /\ NewInv
    <2>1. NoDuplicates(<< >>) /\ Range(<< >>) = {}
      BY DEF NoDuplicates, Range
    <2> QED BY <1>2, <2>1 DEF QueueInv, NewInv, PoolIdle, Queue, New
  <1>8. ActiveInv /\ CountInv /\ CloseInv /\ RunInv
    BY <1>2 DEF ActiveInv, CountInv, CloseInv, RunInv, PoolIdle
  <1> QED BY <1>1, <1>4, <1>5, <1>6, <1>7, <1>8 DEF PoolInv

\* Run is called with a graph that Build returned.
LEMMA PoolInitInv == PoolInit => PoolInv
  <1> SUFFICES ASSUME PoolInit PROVE PoolInv
    OBVIOUS
  <1>1. PICK g \in Graphs : dependents = g.dependents /\ runnable = g.runnable
    BY DEF PoolInit
  <1>2. IsGraph([dependents |-> dependents, runnable |-> runnable])
    BY <1>1, GraphsAssumption DEF IsGraph
  <1> QED BY <1>2, IdleInv DEF PoolInit

\* Run on an empty graph.
LEMMA RunEmptyInv == ASSUME PoolInv, RunEmpty PROVE PoolInv'
  <1>1. /\ UNCHANGED <<dependents, inDegree, runnable, doneClosed, executed, total, workCh,
                       chClosed, remaining, pc, node, rel, newly, ctxDone>>
        /\ runPc = "start" /\ runPc' = "returned" /\ runErr' = "nil"
    BY DEF RunEmpty, nodeVars, chanVars, workerVars
  <1>2. PoolNodes = {} /\ PoolNodes' = {}
    BY <1>1 DEF RunEmpty, PoolInv, GraphInv, PoolNodes
  <1>3. PoolTypeOK'
    BY <1>1 DEF PoolInv, PoolTypeOK, PoolNodes
  <1>4. GraphInv' /\ RelInv' /\ ExecInv' /\ HeldInv' /\ QueueInv' /\ NewInv'
    BY <1>1 DEF PoolInv, GraphInv, PoolNodes, RelInv, ExecInv, HeldInv, QueueInv, NewInv,
                Queue, New
  <1>5. CounterInv' /\ ActiveInv'
    BY <1>2 DEF CounterInv, ActiveInv
  <1>6. CountInv'
    <2>1. PoolNodes' \ Finished' = {}
      BY <1>2
    <2>2. total' = 0 /\ remaining' = 0
      BY <1>1 DEF PoolInv, RunInv
    <2> QED BY <1>2, <2>1, <2>2, FS_EmptySet DEF CountInv
  <1>7. CloseInv' /\ RunInv'
    BY <1>1, <1>2 DEF PoolInv, CloseInv, RunInv
  <1> QED BY <1>3, <1>4, <1>5, <1>6, <1>7 DEF PoolInv

\* Run seeds the channel with the sources: their counters are zero, the
\* others' are not.
LEMMA RunStartInv == ASSUME PoolInv, RunStart PROVE PoolInv'
  <1>1. /\ UNCHANGED <<dependents, inDegree, runnable, doneClosed, executed, chClosed, runErr,
                       node, rel, newly, ctxDone>>
        /\ runPc = "start" /\ runPc' = "running"
        /\ workCh' = runnable
        /\ pc' = [w \in Workers |-> "select"]
    BY DEF RunStart, nodeVars
  <1>2. /\ total' = Cardinality(PoolNodes) /\ remaining' = Cardinality(PoolNodes)
        /\ PoolNodes' = PoolNodes /\ IsFiniteSet(PoolNodes)
        /\ Cardinality(PoolNodes) \in Nat
        /\ PoolNodes # {}
    BY <1>1, FS_CardinalityType DEF RunStart, PoolInv, GraphInv, PoolNodes
  <1>3. /\ \A w \in Workers : pc[w] = "idle" /\ newly[w] = << >> /\ New(w) = {} /\ rel[w] = 1
        /\ doneClosed = {} /\ executed = {} /\ ~chClosed
    <2>1. Range(<< >>) = {}
      BY DEF Range
    <2>2. \A w \in Workers : pc[w] = "idle"
      BY <1>1 DEF PoolInv, RunInv
    <2>3. \A w \in Workers : newly[w] = << >> /\ rel[w] = 1
      BY <2>2 DEF PoolInv, NewInv, RelInv
    <2> QED BY <1>1, <2>1, <2>2, <2>3 DEF PoolInv, RunInv, New
  <1>4. PoolTypeOK'
    BY <1>1, <1>2 DEF PoolInv, PoolTypeOK
  <1>5. GraphInv'
    BY <1>1 DEF PoolInv, GraphInv, PoolNodes
  <1>6. CounterInv'
    BY <1>1, <1>2, <1>3, WaitingFrame DEF PoolInv, CounterInv
  <1>7. RelInv' /\ ExecInv' /\ HeldInv'
    BY <1>1, <1>3 DEF RelInv, ExecInv, HeldInv, Busy
  <1>8. QueueInv' /\ NewInv'
    <2>1. NoDuplicates(<< >>) /\ Range(<< >>) = {}
      BY DEF NoDuplicates, Range
    <2>2. QueueInv'
      BY <1>1, <1>3 DEF QueueInv, PoolInv, GraphInv, Queue
    <2> QED BY <1>1, <1>3, <2>1, <2>2 DEF NewInv, New
  <1>9. ActiveInv'
    <2>1. SUFFICES ASSUME NEW n \in PoolNodes
                   PROVE  inDegree[n] = 0 <=> n \in Range(runnable)
      BY <1>1, <1>2, <1>3 DEF ActiveInv, Queue, New
    <2>2. inDegree[n] = Cardinality(PredsIn(dependents, n)) /\ IsFiniteSet(PredsIn(dependents, n))
      BY <1>3, <1>2, WaitingAtStart, FS_Subset DEF PoolInv, CounterInv, PredsIn, PoolNodes
    <2> QED BY <2>2, FS_EmptySet DEF PoolInv, GraphInv
  <1>10. CountInv'
    <2>1. Finished' = {}
      BY <1>1, <1>3 DEF Finished
    <2> QED BY <1>2, <2>1 DEF CountInv
  <1>11. CloseInv' /\ RunInv'
    BY <1>1, <1>2, <1>3 DEF PoolInv, CloseInv, RunInv
  <1> QED BY <1>4, <1>5, <1>6, <1>7, <1>8, <1>9, <1>10, <1>11 DEF PoolInv

\* Steps that move no node: everything but the closing of the channel and the
\* return of Run is preserved.
LEMMA QuietFrame ==
    ASSUME PoolInv, PoolTypeOK',
           UNCHANGED <<dependents, inDegree, runnable, doneClosed, executed, total, workCh,
                       remaining, node, rel, newly>>,
           runPc' = "start" <=> runPc = "start",
           \A w \in Workers : \/ pc'[w] = pc[w]
                              \/ pc[w] = "commit" /\ pc'[w] = "dispatch"
                              \/ pc[w] \notin Busy /\ pc'[w] \notin Busy,
           CloseInv', RunInv'
    PROVE  PoolInv'
  <1>1. PoolNodes' = PoolNodes /\ Queue' = Queue /\ \A w \in Workers : New(w)' = New(w)
    BY DEF PoolNodes, Queue, New
  <1>2. /\ \A w \in Workers : pc'[w] \in Busy <=> pc[w] \in Busy
        /\ \A w \in Workers : pc'[w] = "release" <=> pc[w] = "release"
        /\ \A w \in Workers : pc'[w] = "execute" <=> pc[w] = "execute"
    BY DEF Busy
  <1>3. GraphInv'
    BY <1>1 DEF PoolInv, GraphInv
  <1>4. CounterInv'
    BY <1>1, <1>2, WaitingFrame DEF PoolInv, CounterInv
  <1>5. RelInv'
    BY <1>2 DEF PoolInv, RelInv
  <1>6. ExecInv'
    BY <1>2 DEF PoolInv, ExecInv, Busy
  <1>7. HeldInv' /\ QueueInv'
    BY <1>1, <1>2 DEF PoolInv, HeldInv, QueueInv
  <1>8. NewInv'
    BY <1>1, <1>2 DEF PoolInv, NewInv, Busy
  <1>9. ActiveInv'
    BY <1>1, <1>2 DEF PoolInv, ActiveInv
  <1>10. CountInv'
    <2>1. \A n : Holders(n)' = Holders(n)
      BY <1>2 DEF Holders
    <2>2. Finished' = Finished
      BY <2>1 DEF Finished
    <2> QED BY <1>1, <2>2 DEF PoolInv, CountInv
  <1> QED BY <1>3, <1>4, <1>5, <1>6, <1>7, <1>8, <1>9, <1>10 DEF PoolInv

\* wg.Wait returns, or the context ends.
LEMMA RunReturnInv == ASSUME PoolInv, RunReturn \/ Cancel PROVE PoolInv'
  <1>1. /\ UNCHANGED <<dependents, inDegree, runnable, doneClosed, executed, total, workCh,
                       chClosed, remaining, pc, node, rel, newly>>
        /\ runPc' = "start" <=> runPc = "start"
    BY DEF RunReturn, Cancel, nodeVars, chanVars, workerVars
  <1>2. PoolTypeOK'
    BY <1>1 DEF PoolInv, PoolTypeOK, PoolNodes, RunReturn, Cancel
  <1>3. CloseInv'
    BY <1>1 DEF PoolInv, CloseInv
  <1>4. RunInv'
    <2>1. CASE Cancel
      BY <1>1, <2>1 DEF PoolInv, RunInv, Cancel, PoolNodes
    <2>2. CASE RunReturn
      BY <1>1, <2>2, WorkersAssumption DEF PoolInv, RunInv, RunReturn, PoolNodes
    <2> QED BY <2>1, <2>2
  <1> QED BY <1>1, <1>2, <1>3, <1>4, QuietFrame

\* A worker leaves the loop, closes the channel, or comes back from Commit.
LEMMA WorkerQuietInv ==
    ASSUME PoolInv, NEW w \in Workers,
           ReceiveClosed(w) \/ SelectDone(w) \/ CommitReturns(w) \/ CloseWork(w)
    PROVE  PoolInv'
  <1>1. /\ UNCHANGED <<dependents, inDegree, runnable, doneClosed, executed, total, workCh,
                       remaining, runPc, runErr, node, rel, newly, ctxDone>>
        /\ PoolNodes' = PoolNodes
    BY DEF ReceiveClosed, SelectDone, CommitReturns, CloseWork, nodeVars, chanVars, PoolNodes
  <1>2. /\ pc' = [pc EXCEPT ![w] = pc'[w]]
        /\ \/ pc[w] = "select" /\ pc'[w] = "exited" /\ (chClosed \/ ctxDone) /\ chClosed' = chClosed
           \/ pc[w] = "commit" /\ pc'[w] = "dispatch" /\ chClosed' = chClosed
           \/ pc[w] = "close" /\ pc'[w] = "select" /\ chClosed' = TRUE
    BY DEF PoolInv, PoolTypeOK, ReceiveClosed, SelectDone, CommitReturns, CloseWork, chanVars
  <1>3. PoolTypeOK'
    BY <1>1, <1>2 DEF PoolInv, PoolTypeOK, Busy
  <1>4. CloseInv'
    BY <1>1, <1>2 DEF PoolInv, CloseInv, PoolTypeOK
  <1>5. runPc = "running"
    BY <1>2 DEF PoolInv, PoolTypeOK, RunInv
  <1>6. RunInv'
    BY <1>1, <1>2, <1>5 DEF PoolInv, RunInv, PoolTypeOK
  <1>7. \A v \in Workers : \/ pc'[v] = pc[v]
                           \/ pc[v] = "commit" /\ pc'[v] = "dispatch"
                           \/ pc[v] \notin Busy /\ pc'[v] \notin Busy
    BY <1>2 DEF PoolInv, PoolTypeOK, Busy
  <1> QED BY <1>1, <1>3, <1>4, <1>6, <1>7, QuietFrame

\* A receive moves a node from the channel into one worker's hands.
LEMMA ReceiveInv == ASSUME PoolInv, NEW w \in Workers, Receive(w) PROVE PoolInv'
  <1> DEFINE x == Head(workCh)
  <1>1. /\ UNCHANGED <<dependents, inDegree, runnable, doneClosed, executed, total, chClosed,
                       remaining, runPc, runErr, rel, newly, ctxDone>>
        /\ PoolNodes' = PoolNodes /\ \A v \in Workers : New(v)' = New(v)
        /\ pc[w] = "select" /\ workCh # << >>
    BY DEF Receive, nodeVars, PoolNodes, New
  <1>2. /\ pc' = [pc EXCEPT ![w] = "execute"] /\ node' = [node EXCEPT ![w] = x]
        /\ workCh' = Tail(workCh)
    BY DEF Receive
  <1>3. /\ x \in Queue /\ x \in PoolNodes /\ Tail(workCh) \in Seq(PoolNodes)
        /\ Queue' = Queue \ {x} /\ NoDuplicates(workCh')
    BY <1>1, <1>2, TailDistinct DEF PoolInv, PoolTypeOK, QueueInv, Queue
  <1>4. /\ \A v \in Workers : v # w => pc'[v] = pc[v] /\ node'[v] = node[v]
        /\ pc'[w] = "execute" /\ node'[w] = x
    BY <1>2 DEF PoolInv, PoolTypeOK
  <1>5. /\ x \notin executed /\ x \notin doneClosed
        /\ \A v \in Workers : x \notin New(v)
        /\ \A v \in Workers : pc[v] \in Busy => node[v] # x
    BY <1>3 DEF PoolInv, QueueInv, ExecInv, NewInv, HeldInv
  <1>6. PoolTypeOK'
    BY <1>1, <1>2, <1>3 DEF PoolInv, PoolTypeOK, Busy
  <1>7. GraphInv'
    BY <1>1 DEF PoolInv, GraphInv
  <1>8. CounterInv'
    <2>1. \A v \in Workers : pc'[v] = "release" <=> pc[v] = "release"
      BY <1>1, <1>4
    <2>2. \A v \in Workers : pc[v] = "release" => node'[v] = node[v] /\ rel'[v] = rel[v]
      BY <1>1, <1>4
    <2> QED BY <1>1, <2>1, <2>2, WaitingFrame DEF PoolInv, CounterInv
  <1>9. RelInv'
    BY <1>1, <1>4 DEF PoolInv, RelInv
  <1>10. ExecInv'
    BY <1>1, <1>4, <1>5 DEF PoolInv, ExecInv
  <1>11. HeldInv'
    BY <1>1, <1>3, <1>4, <1>5 DEF PoolInv, HeldInv
  <1>12. QueueInv' /\ NewInv'
    BY <1>1, <1>3, <1>4, <1>5 DEF PoolInv, QueueInv, NewInv
  <1>13. ActiveInv'
    <2>1. SUFFICES ASSUME runPc # "start", NEW n \in PoolNodes
                   PROVE  \/ n \in Queue'
                          \/ n \in executed
                          \/ \E v \in Workers : n \in New(v)
                          \/ \E v \in Workers : pc'[v] = "execute" /\ node'[v] = n
                          <=>
                          \/ n \in Queue
                          \/ n \in executed
                          \/ \E v \in Workers : n \in New(v)
                          \/ \E v \in Workers : pc[v] = "execute" /\ node[v] = n
      BY <1>1 DEF PoolInv, ActiveInv
    <2>2. (\E v \in Workers : pc'[v] = "execute" /\ node'[v] = n)
          <=> (n = x \/ \E v \in Workers : pc[v] = "execute" /\ node[v] = n)
      BY <1>1, <1>4
    <2> QED BY <1>3, <2>2
  <1>14. CountInv'
    <2>1. \A n \in doneClosed : Holders(n)' = Holders(n)
      BY <1>1, <1>4, <1>5 DEF Holders, Busy
    <2>2. Finished' = Finished
      BY <1>1, <2>1 DEF Finished
    <2> QED BY <1>1, <2>2 DEF PoolInv, CountInv
  <1>15. CloseInv' /\ RunInv'
    <2>1. CloseInv'
      BY <1>1, <1>4 DEF PoolInv, CloseInv
    <2>2. runPc = "running"
      BY <1>1 DEF PoolInv, RunInv, PoolTypeOK
    <2> QED BY <1>1, <1>4, <2>1, <2>2 DEF PoolInv, RunInv
  <1> QED BY <1>6, <1>7, <1>8, <1>9, <1>10, <1>11, <1>12, <1>13, <1>14, <1>15 DEF PoolInv

\* The storage call is over: the holder goes on to release, no edge yet.
LEMMA ExecuteInv == ASSUME PoolInv, NEW w \in Workers, Execute(w) PROVE PoolInv'
  <1> DEFINE x == node[w]
  <1>1. /\ UNCHANGED <<dependents, inDegree, runnable, doneClosed, total, workCh, chClosed,
                       remaining, runPc, runErr, node, rel, newly, ctxDone>>
        /\ PoolNodes' = PoolNodes /\ Queue' = Queue /\ \A v \in Workers : New(v)' = New(v)
        /\ pc[w] = "execute" /\ pc' = [pc EXCEPT ![w] = "release"]
        /\ executed' = executed \cup {x}
    BY DEF Execute, chanVars, PoolNodes, New, Queue
  <1>2. /\ \A v \in Workers : v # w => pc'[v] = pc[v]
        /\ pc'[w] = "release"
    BY <1>1 DEF PoolInv, PoolTypeOK
  <1>3. /\ x \in PoolNodes /\ x \notin Queue /\ x \notin executed /\ x \notin doneClosed
        /\ \A v \in Workers : x \notin New(v)
        /\ \A v \in Workers : (v # w /\ pc[v] \in Busy) => node[v] # x
        /\ rel[w] = 1
    BY <1>1 DEF PoolInv, HeldInv, ExecInv, NewInv, RelInv, Busy
  <1>4. PoolTypeOK'
    BY <1>1, <1>3 DEF PoolInv, PoolTypeOK, Busy
  <1>5. GraphInv'
    BY <1>1 DEF PoolInv, GraphInv
  <1>6. CounterInv'
    <2>1. \A m, n \in PoolNodes : Released(m, n)' <=> Released(m, n)
      <3> TAKE m, n \in PoolNodes
      <3>1. dependents[m] \in Seq(PoolNodes)
        BY DEF PoolInv, PoolTypeOK
      <3>2. \A q \in DOMAIN dependents[m] : ~(q < 1)
        BY <3>1
      <3> QED BY <1>1, <1>2, <1>3, <3>2 DEF Released
    <2>2. \A n \in PoolNodes : Waiting(n)' = Waiting(n)
      BY <1>1, <2>1 DEF Waiting, PredsIn, HasEdge, PoolNodes
    <2> QED BY <1>1, <2>2 DEF PoolInv, CounterInv
  <1>7. RelInv'
    <2>1. dependents[x] \in Seq(PoolNodes)
      BY <1>3 DEF PoolInv, PoolTypeOK
    <2>2. 1 \in 1 .. (Len(dependents[x]) + 1)
      BY <2>1
    <2> QED BY <1>1, <1>2, <1>3, <2>2 DEF PoolInv, RelInv
  <1>8. ExecInv'
    BY <1>1, <1>2, <1>3 DEF PoolInv, ExecInv, Busy
  <1>9. HeldInv'
    BY <1>1, <1>2 DEF PoolInv, HeldInv, Busy
  <1>10. QueueInv' /\ NewInv'
    BY <1>1, <1>2, <1>3 DEF PoolInv, QueueInv, NewInv, Busy
  <1>11. ActiveInv'
    <2>1. SUFFICES ASSUME runPc # "start", NEW n \in PoolNodes
                   PROVE  (n \in executed \cup {x} \/ \E v \in Workers : pc'[v] = "execute" /\ node[v] = n)
                          <=> (n \in executed \/ \E v \in Workers : pc[v] = "execute" /\ node[v] = n)
      BY <1>1 DEF PoolInv, ActiveInv
    <2> QED BY <1>1, <1>2
  <1>12. CountInv'
    <2>1. \A n : Holders(n)' = Holders(n)
      BY <1>1, <1>2 DEF Holders, Busy
    <2>2. Finished' = Finished
      BY <1>1, <2>1 DEF Finished
    <2> QED BY <1>1, <2>2 DEF PoolInv, CountInv
  <1>13. CloseInv' /\ RunInv'
    <2>1. CloseInv'
      BY <1>1, <1>2 DEF PoolInv, CloseInv
    <2>2. runPc = "running"
      BY <1>1 DEF PoolInv, RunInv, PoolTypeOK
    <2> QED BY <1>1, <1>2, <2>1, <2>2 DEF PoolInv, RunInv
  <1> QED BY <1>4, <1>5, <1>6, <1>7, <1>8, <1>9, <1>10, <1>11, <1>12, <1>13 DEF PoolInv

\* One decrement: the edge is not waited for any more, and the worker that
\* brings the counter to zero takes the dependent into its list.
LEMMA ReleaseOneInv == ASSUME PoolInv, NEW w \in Workers, ReleaseOne(w) PROVE PoolInv'
  <1>0. PICK x, d : x = node[w] /\ d = dependents[x][rel[w]]
    OBVIOUS
  <1>1. /\ x = node[w] /\ d = dependents[x][rel[w]]
        /\ UNCHANGED <<dependents, runnable, doneClosed, executed, total, workCh, chClosed,
                       remaining, runPc, runErr, pc, node, ctxDone>>
        /\ PoolNodes' = PoolNodes /\ Queue' = Queue
        /\ pc[w] = "release" /\ rel[w] \in DOMAIN dependents[x]
        /\ rel' = [rel EXCEPT ![w] = rel[w] + 1]
        /\ inDegree' = [inDegree EXCEPT ![d] = inDegree[d] - 1]
        /\ newly' = IF inDegree[d] = 1 THEN [newly EXCEPT ![w] = Append(newly[w], d)] ELSE newly
    BY <1>0 DEF ReleaseOne, chanVars, PoolNodes, Queue
  <1>2. /\ x \in PoolNodes /\ dependents[x] \in Seq(PoolNodes) /\ d \in PoolNodes
        /\ rel[w] \in 1 .. Len(dependents[x])
        /\ NoDuplicates(dependents[x]) /\ x \notin doneClosed
        /\ \A v \in Workers : (v # w /\ pc[v] \in Busy) => node[v] # x
    <2>1. x \in PoolNodes /\ x \notin doneClosed
          /\ \A v \in Workers : (v # w /\ pc[v] \in Busy) => node[v] # x
      BY <1>1 DEF PoolInv, HeldInv, ExecInv, Busy
    <2>2. dependents[x] \in Seq(PoolNodes) /\ NoDuplicates(dependents[x])
      BY <2>1 DEF PoolInv, PoolTypeOK, GraphInv
    <2> QED BY <1>1, <2>1, <2>2
  <1>3. /\ \A v \in Workers : v # w => rel'[v] = rel[v]
        /\ rel'[w] = rel[w] + 1 /\ rel[w] \in Nat
        /\ \A n \in PoolNodes : n # d => inDegree'[n] = inDegree[n]
        /\ inDegree'[d] = inDegree[d] - 1
        /\ runPc = "running"
    BY <1>1, <1>2 DEF PoolInv, PoolTypeOK, RunInv
  <1>4. /\ \A m, n \in PoolNodes : ~(m = x /\ n = d) => (Released(m, n)' <=> Released(m, n))
        /\ Released(x, d)' /\ ~Released(x, d)
    <2>1. ASSUME NEW m \in PoolNodes, NEW n \in PoolNodes, m # x
          PROVE  Released(m, n)' <=> Released(m, n)
      BY <1>1, <1>3, <2>1 DEF Released
    <2>2. ASSUME NEW n \in PoolNodes
          PROVE  /\ Released(x, n) <=> \E q \in DOMAIN dependents[x] : q < rel[w] /\ dependents[x][q] = n
                 /\ Released(x, n)' <=> \E q \in DOMAIN dependents[x] : q < rel[w] + 1 /\ dependents[x][q] = n
      BY <1>1, <1>2, <1>3 DEF Released, Busy
    <2>3. \A q \in DOMAIN dependents[x] : q < rel[w] + 1 <=> q < rel[w] \/ q = rel[w]
      BY <1>2
    <2>4. Released(x, d)' /\ \A n \in PoolNodes : n # d => (Released(x, n)' <=> Released(x, n))
      BY <1>1, <1>2, <2>2, <2>3
    <2>5. ~Released(x, d)
      BY <1>1, <1>2, <2>2 DEF NoDuplicates
    <2> QED BY <1>2, <2>1, <2>4, <2>5
  <1>5. /\ \A n \in PoolNodes : n # d => Waiting(n)' = Waiting(n)
        /\ Waiting(d)' = Waiting(d) \ {x} /\ x \in Waiting(d)
        /\ IsFiniteSet(Waiting(d))
    <2>1. \A n \in PoolNodes : PredsIn(dependents, n)' = PredsIn(dependents, n)
                               /\ PredsIn(dependents, n) \subseteq PoolNodes
      BY <1>1 DEF PredsIn, HasEdge, PoolNodes
    <2>2. x \in PredsIn(dependents, d)
      BY <1>1, <1>2 DEF PredsIn, HasEdge, Range, PoolNodes
    <2>3. \A n \in PoolNodes : n # d => Waiting(n)' = Waiting(n)
      BY <1>4, <2>1 DEF Waiting
    <2>4. Waiting(d)' = Waiting(d) \ {x} /\ x \in Waiting(d)
      BY <1>2, <1>4, <2>1, <2>2 DEF Waiting
    <2>5. Waiting(d) \in SUBSET PoolNodes
      BY <1>2, <2>1 DEF Waiting
    <2> QED BY <2>3, <2>4, <2>5, FS_Subset DEF PoolInv, GraphInv
  <1>6. /\ inDegree[d] = Cardinality(Waiting(d)) /\ inDegree[d] \in Nat /\ inDegree[d] >= 1
        /\ Cardinality(Waiting(d)') = inDegree[d] - 1
    <2>1. inDegree[d] = Cardinality(Waiting(d)) /\ inDegree[d] \in Nat
      BY <1>2 DEF PoolInv, CounterInv, PoolTypeOK
    <2>2. Cardinality(Waiting(d)') = inDegree[d] - 1
      BY <1>5, <2>1, FS_RemoveElement
    <2>3. inDegree[d] # 0
      BY <1>5, <2>1, FS_EmptySet
    <2> QED BY <2>1, <2>2, <2>3
  <1>7. CounterInv'
    BY <1>1, <1>2, <1>3, <1>5, <1>6 DEF PoolInv, CounterInv
  <1>8. /\ d \notin Queue /\ d \notin executed
        /\ \A v \in Workers : d \notin New(v)
        /\ \A v \in Workers : pc[v] \in Busy => node[v] # d
    <2>1. /\ d \notin Queue /\ d \notin executed
          /\ \A v \in Workers : d \notin New(v)
          /\ \A v \in Workers : pc[v] = "execute" => node[v] # d
      BY <1>2, <1>3, <1>6 DEF PoolInv, ActiveInv
    <2>2. \A v \in Workers : pc[v] \in Busy \ {"execute"} => node[v] \in executed
      BY DEF PoolInv, ExecInv, Busy
    <2> QED BY <2>1, <2>2
  <1>9. /\ newly' \in [Workers -> Seq(PoolNodes)]
        /\ \A v \in Workers : v # w => newly'[v] = newly[v] /\ New(v)' = New(v)
        /\ New(w)' = New(w) \cup (IF inDegree[d] = 1 THEN {d} ELSE {})
        /\ \A v \in Workers : NoDuplicates(newly'[v])
    <2>1. newly[w] \in Seq(PoolNodes) /\ NoDuplicates(newly[w]) /\ d \notin Range(newly[w])
      BY <1>8 DEF PoolInv, PoolTypeOK, NewInv, New
    <2>2. /\ Append(newly[w], d) \in Seq(PoolNodes)
          /\ Range(Append(newly[w], d)) = Range(newly[w]) \cup {d}
          /\ NoDuplicates(Append(newly[w], d))
      BY <1>2, <2>1, RangeOfAppend, AppendDistinct
    <2>3. CASE inDegree[d] = 1
      BY <1>1, <2>2, <2>3 DEF PoolInv, PoolTypeOK, NewInv, New
    <2>4. CASE inDegree[d] # 1
      BY <1>1, <2>4 DEF PoolInv, PoolTypeOK, NewInv, New
    <2> QED BY <2>3, <2>4
  <1>10. PoolTypeOK'
    <2>1. inDegree[d] - 1 \in Nat /\ rel[w] + 1 \in Nat
      BY <1>3, <1>6
    <2>2. inDegree \in [PoolNodes -> Nat] /\ rel \in [Workers -> Nat]
      BY DEF PoolInv, PoolTypeOK
    <2>3. inDegree' \in [PoolNodes -> Nat] /\ rel' \in [Workers -> Nat]
      BY <1>1, <1>2, <2>1, <2>2
    <2> QED BY <1>1, <1>9, <2>3 DEF PoolInv, PoolTypeOK
  <1>11. GraphInv'
    BY <1>1 DEF PoolInv, GraphInv
  <1>12. RelInv'
    BY <1>1, <1>2, <1>3 DEF PoolInv, RelInv
  <1>13. ExecInv' /\ HeldInv' /\ QueueInv'
    BY <1>1 DEF PoolInv, ExecInv, HeldInv, QueueInv
  <1>14. NewInv'
    <2>1. \A v \in Workers : newly'[v] # << >> => pc'[v] \in {"release", "commit", "dispatch"}
      BY <1>1, <1>9 DEF PoolInv, NewInv
    <2>2. ASSUME NEW v \in Workers, NEW n \in New(v)'
          PROVE  /\ n \notin Queue' /\ n \notin executed'
                 /\ \A u \in Workers : pc'[u] \in Busy => node'[u] # n
      <3>1. n \in New(v) \/ n = d
        BY <1>9
      <3>2. CASE n = d
        BY <1>1, <1>8, <3>2
      <3>3. CASE n \in New(v)
        BY <1>1, <3>3 DEF PoolInv, NewInv
      <3> QED BY <3>1, <3>2, <3>3
    <2>3. ASSUME NEW v \in Workers, NEW n \in New(v)', NEW u \in Workers, u # v
          PROVE  n \notin New(u)'
      <3>1. (n \in New(v) \/ (n = d /\ v = w)) /\ (n \in New(u)' => n \in New(u) \/ (n = d /\ u = w))
        BY <1>9
      <3>2. n \in New(v) => n \notin New(u) /\ n # d
        BY <1>8, <2>3 DEF PoolInv, NewInv
      <3> QED BY <1>8, <2>3, <3>1, <3>2
    <2> QED BY <1>9, <2>1, <2>2, <2>3 DEF NewInv
  <1>15. ActiveInv'
    <2>1. ASSUME NEW n \in PoolNodes
          PROVE  inDegree'[n] = 0 <=> (inDegree[n] = 0 \/ (n = d /\ inDegree[d] = 1))
      BY <1>2, <1>3, <1>6
    <2>2. ASSUME NEW n \in PoolNodes
          PROVE  (\E v \in Workers : n \in New(v)')
                 <=> ((\E v \in Workers : n \in New(v)) \/ (n = d /\ inDegree[d] = 1))
      BY <1>9
    <2> QED BY <1>1, <1>3, <2>1, <2>2 DEF PoolInv, ActiveInv
  <1>16. CountInv'
    <2>1. Finished' = Finished
      BY <1>1 DEF Finished, Holders
    <2> QED BY <1>1, <2>1 DEF PoolInv, CountInv
  <1>17. CloseInv' /\ RunInv'
    BY <1>1 DEF PoolInv, CloseInv, RunInv
  <1> QED BY <1>7, <1>10, <1>11, <1>12, <1>13, <1>14, <1>15, <1>16, <1>17 DEF PoolInv

\* The end of Release: all the edges were counted down, so that closing done
\* releases nothing new; the node is still held.
LEMMA ReleaseCloseInv == ASSUME PoolInv, NEW w \in Workers, ReleaseClose(w) PROVE PoolInv'
  <1>0. PICK x : x = node[w]
    OBVIOUS
  <1>1. /\ x = node[w]
        /\ UNCHANGED <<dependents, inDegree, runnable, executed, total, workCh, chClosed,
                       remaining, runPc, runErr, node, newly, ctxDone>>
        /\ PoolNodes' = PoolNodes /\ Queue' = Queue /\ \A v \in Workers : New(v)' = New(v)
        /\ pc[w] = "release" /\ rel[w] \notin DOMAIN dependents[x]
        /\ rel' = [rel EXCEPT ![w] = 1]
        /\ pc' = [pc EXCEPT ![w] = "commit"]
        /\ doneClosed' = doneClosed \cup {x}
    BY <1>0 DEF ReleaseClose, chanVars, PoolNodes, Queue, New
  <1>2. /\ x \in PoolNodes /\ dependents[x] \in Seq(PoolNodes)
        /\ x \notin doneClosed /\ x \in executed
        /\ \A v \in Workers : (v # w /\ pc[v] \in Busy) => node[v] # x
    BY <1>1 DEF PoolInv, PoolTypeOK, HeldInv, ExecInv, Busy
  <1>3. rel[w] = Len(dependents[x]) + 1
    BY <1>1, <1>2 DEF PoolInv, RelInv
  <1>4. /\ \A v \in Workers : v # w => rel'[v] = rel[v] /\ pc'[v] = pc[v]
        /\ rel'[w] = 1 /\ pc'[w] = "commit"
        /\ runPc = "running"
    BY <1>1 DEF PoolInv, PoolTypeOK, RunInv
  <1>5. PoolTypeOK'
    BY <1>1, <1>2 DEF PoolInv, PoolTypeOK, Busy
  <1>6. GraphInv'
    BY <1>1 DEF PoolInv, GraphInv
  <1>7. CounterInv'
    <2>1. ASSUME NEW n \in PoolNodes, NEW m \in PredsIn(dependents, n)
          PROVE  Released(m, n)' <=> Released(m, n)
      <3>1. CASE m # x
        BY <1>1, <1>4, <3>1 DEF Released
      <3>2. CASE m = x
        <4>1. PICK q \in DOMAIN dependents[x] : dependents[x][q] = n
          BY <3>2 DEF PredsIn, HasEdge, Range
        <4>2. q < rel[w]
          BY <1>2, <1>3, <4>1
        <4> QED BY <1>1, <3>2, <4>1, <4>2 DEF Released
      <3> QED BY <3>1, <3>2
    <2>2. \A n \in PoolNodes : PredsIn(dependents, n)' = PredsIn(dependents, n)
      BY <1>1 DEF PredsIn, HasEdge
    <2>3. \A n \in PoolNodes : Waiting(n)' = Waiting(n)
      BY <2>1, <2>2 DEF Waiting
    <2> QED BY <1>1, <2>3 DEF PoolInv, CounterInv
  <1>8. RelInv'
    BY <1>1, <1>4 DEF PoolInv, RelInv
  <1>9. ExecInv'
    <2>1. executed' = executed /\ doneClosed' \subseteq executed
      BY <1>1, <1>2 DEF PoolInv, ExecInv
    <2>2. ASSUME NEW v \in Workers
          PROVE  /\ pc'[v] = "execute" => node'[v] \notin executed'
                 /\ pc'[v] = "release" => node'[v] \in executed' /\ node'[v] \notin doneClosed'
                 /\ pc'[v] \in {"commit", "dispatch"} => node'[v] \in doneClosed'
      BY <1>1, <1>2, <1>4 DEF PoolInv, ExecInv, Busy
    <2>3. ASSUME NEW n \in executed'
          PROVE  n \in doneClosed' \/ \E v \in Workers : pc'[v] = "release" /\ node'[v] = n
      BY <1>1, <1>4 DEF PoolInv, ExecInv
    <2> QED BY <2>1, <2>2, <2>3 DEF ExecInv
  <1>10. HeldInv'
    BY <1>1, <1>4 DEF PoolInv, HeldInv, Busy
  <1>11. QueueInv' /\ NewInv'
    BY <1>1, <1>4 DEF PoolInv, QueueInv, NewInv, Busy
  <1>12. ActiveInv'
    <2>1. \A v \in Workers : pc'[v] = "execute" <=> pc[v] = "execute"
      BY <1>1, <1>4
    <2> QED BY <1>1, <2>1 DEF PoolInv, ActiveInv
  <1>13. CountInv'
    <2>1. \A n : Holders(n)' = Holders(n)
      BY <1>1, <1>4 DEF Holders, Busy
    <2>2. w \in Holders(x)
      BY <1>1 DEF Holders, Busy
    <2>3. Finished' = Finished
      BY <1>1, <2>1, <2>2 DEF Finished
    <2> QED BY <1>1, <2>3 DEF PoolInv, CountInv
  <1>14. CloseInv'
    BY <1>1, <1>4 DEF PoolInv, CloseInv
  <1>15. RunInv'
    BY <1>1, <1>4 DEF PoolInv, RunInv
  <1> QED BY <1>5, <1>6, <1>7, <1>8, <1>9, <1>10, <1>11, <1>12, <1>13, <1>14, <1>15 DEF PoolInv

\* A send moves a node from one worker's list into the channel.
LEMMA DispatchInv == ASSUME PoolInv, NEW w \in Workers, Dispatch(w) PROVE PoolInv'
  <1>0. PICK x : x = Head(newly[w])
    OBVIOUS
  <1>1. /\ x = Head(newly[w])
        /\ UNCHANGED <<dependents, inDegree, runnable, doneClosed, executed, total, chClosed,
                       remaining, runPc, runErr, pc, node, rel, ctxDone>>
        /\ PoolNodes' = PoolNodes
        /\ pc[w] = "dispatch" /\ newly[w] # << >>
        /\ workCh' = Append(workCh, x)
        /\ newly' = [newly EXCEPT ![w] = Tail(newly[w])]
    BY <1>0 DEF Dispatch, nodeVars, PoolNodes
  <1>2. newly[w] \in Seq(PoolNodes) /\ NoDuplicates(newly[w]) /\ workCh \in Seq(PoolNodes)
        /\ NoDuplicates(workCh) /\ runPc = "running"
    BY <1>1 DEF PoolInv, PoolTypeOK, NewInv, QueueInv, RunInv
  <1>3. /\ x \in New(w) /\ x \in PoolNodes /\ Tail(newly[w]) \in Seq(PoolNodes)
        /\ Range(Tail(newly[w])) = New(w) \ {x} /\ NoDuplicates(Tail(newly[w]))
    BY <1>1, <1>2, TailDistinct DEF New
  <1>4. /\ x \notin Queue /\ x \notin executed
        /\ \A v \in Workers : v # w => x \notin New(v)
        /\ \A v \in Workers : pc[v] \in Busy => node[v] # x
    BY <1>3 DEF PoolInv, NewInv
  <1>5. Queue' = Queue \cup {x} /\ NoDuplicates(workCh') /\ workCh' \in Seq(PoolNodes)
    BY <1>1, <1>2, <1>3, <1>4, RangeOfAppend, AppendDistinct DEF Queue
  <1>6. /\ newly' \in [Workers -> Seq(PoolNodes)]
        /\ \A v \in Workers : v # w => newly'[v] = newly[v] /\ New(v)' = New(v)
        /\ newly'[w] = Tail(newly[w]) /\ New(w)' = New(w) \ {x}
    BY <1>1, <1>3 DEF PoolInv, PoolTypeOK, New
  <1>7. PoolTypeOK'
    BY <1>1, <1>5, <1>6 DEF PoolInv, PoolTypeOK
  <1>8. GraphInv' /\ RelInv' /\ ExecInv'
    BY <1>1 DEF PoolInv, GraphInv, RelInv, ExecInv
  <1>9. CounterInv'
    BY <1>1, WaitingFrame DEF PoolInv, CounterInv
  <1>10. HeldInv'
    BY <1>1, <1>4, <1>5 DEF PoolInv, HeldInv
  <1>11. QueueInv'
    BY <1>1, <1>4, <1>5 DEF PoolInv, QueueInv
  <1>12. NewInv'
    <2>1. ASSUME NEW v \in Workers
          PROVE  /\ NoDuplicates(newly'[v])
                 /\ newly'[v] # << >> => pc'[v] \in {"release", "commit", "dispatch"}
      BY <1>1, <1>3, <1>6 DEF PoolInv, NewInv
    <2>2. ASSUME NEW v \in Workers, NEW n \in New(v)'
          PROVE  n \in New(v) /\ n # x
      BY <1>4, <1>6
    <2>3. ASSUME NEW v \in Workers, NEW n \in New(v)'
          PROVE  /\ n \notin Queue' /\ n \notin executed'
                 /\ \A u \in Workers : u # v => n \notin New(u)'
                 /\ \A u \in Workers : pc'[u] \in Busy => node'[u] # n
      BY <1>1, <1>5, <1>6, <2>2 DEF PoolInv, NewInv
    <2> QED BY <2>1, <2>3 DEF NewInv
  <1>13. ActiveInv'
    <2>1. ASSUME NEW n \in PoolNodes
          PROVE  (n \in Queue' \/ \E v \in Workers : n \in New(v)')
                 <=> (n \in Queue \/ \E v \in Workers : n \in New(v))
      BY <1>3, <1>5, <1>6
    <2> QED BY <1>1, <2>1 DEF PoolInv, ActiveInv
  <1>14. CountInv'
    <2>1. Finished' = Finished
      BY <1>1 DEF Finished, Holders
    <2> QED BY <1>1, <2>1 DEF PoolInv, CountInv
  <1>15. CloseInv' /\ RunInv'
    BY <1>1, <1>2 DEF PoolInv, CloseInv, RunInv
  <1> QED BY <1>7, <1>8, <1>9, <1>10, <1>11, <1>12, <1>13, <1>14, <1>15 DEF PoolInv

\* The dispatch loop is over: the node becomes finished, which is what the
\* decrement of remaining counts; the last one closes.
LEMMA AccountInv == ASSUME PoolInv, NEW w \in Workers, Account(w) PROVE PoolInv'
  <1>0. PICK x : x = node[w]
    OBVIOUS
  <1>1. /\ x = node[w]
        /\ UNCHANGED <<dependents, inDegree, runnable, doneClosed, executed, total, workCh,
                       chClosed, runPc, runErr, rel, newly, ctxDone>>
        /\ PoolNodes' = PoolNodes /\ Queue' = Queue /\ \A v \in Workers : New(v)' = New(v)
        /\ pc[w] = "dispatch" /\ newly[w] = << >>
        /\ remaining' = remaining - 1
        /\ node' = [node EXCEPT ![w] = NoneHeld]
        /\ pc' = [pc EXCEPT ![w] = IF remaining = 1 THEN "close" ELSE "select"]
    BY <1>0 DEF Account, nodeVars, PoolNodes, Queue, New
  <1>2. /\ x \in PoolNodes /\ x \in doneClosed /\ runPc = "running"
        /\ \A v \in Workers : (v # w /\ pc[v] \in Busy) => node[v] # x
    BY <1>1 DEF PoolInv, PoolTypeOK, HeldInv, ExecInv, RunInv, Busy
  <1>3. /\ \A v \in Workers : v # w => node'[v] = node[v] /\ pc'[v] = pc[v]
        /\ node'[w] = NoneHeld /\ pc'[w] = (IF remaining = 1 THEN "close" ELSE "select")
        /\ pc'[w] \notin Busy
    BY <1>1 DEF PoolInv, PoolTypeOK, Busy
  <1>4. Finished' = Finished \cup {x} /\ x \notin Finished /\ Finished \subseteq PoolNodes
    <2>1. ASSUME NEW n, n # x
          PROVE  Holders(n)' = Holders(n)
      BY <1>1, <1>3, <2>1 DEF Holders
    <2>2. Holders(x)' = {}
      BY <1>1, <1>2, <1>3 DEF Holders
    <2>3. w \in Holders(x)
      BY <1>1 DEF Holders, Busy
    <2>4. doneClosed \subseteq PoolNodes
      BY DEF PoolInv, PoolTypeOK
    <2> QED BY <1>1, <1>2, <2>1, <2>2, <2>3, <2>4 DEF Finished
  <1>5. /\ remaining = Cardinality(PoolNodes \ Finished)
        /\ remaining' = Cardinality(PoolNodes \ Finished')
        /\ remaining \in Nat /\ remaining # 0 /\ remaining' \in Nat
    <2>1. remaining = Cardinality(PoolNodes \ Finished)
      BY <1>2 DEF PoolInv, CountInv
    <2>2. IsFiniteSet(PoolNodes \ Finished) /\ x \in PoolNodes \ Finished
      BY <1>2, <1>4, FS_Subset DEF PoolInv, GraphInv
    <2>3. PoolNodes \ Finished' = (PoolNodes \ Finished) \ {x}
      BY <1>4
    <2>4. Cardinality((PoolNodes \ Finished) \ {x}) = Cardinality(PoolNodes \ Finished) - 1
      BY <2>2, FS_RemoveElement
    <2>5. remaining \in Nat /\ remaining # 0
      BY <2>1, <2>2, FS_CardinalityType, FS_EmptySet
    <2>6. remaining - 1 \in Nat
      BY <2>5
    <2>7. Cardinality(PoolNodes \ Finished') = remaining - 1
      BY <2>1, <2>3, <2>4
    <2> QED BY <1>1, <2>1, <2>5, <2>6, <2>7
  <1>6. ~chClosed /\ \A v \in Workers : pc[v] # "close"
    BY <1>5 DEF PoolInv, CloseInv
  <1>7. PoolTypeOK'
    BY <1>1, <1>5 DEF PoolInv, PoolTypeOK, Busy
  <1>8. GraphInv'
    BY <1>1 DEF PoolInv, GraphInv
  <1>9. CounterInv'
    <2>1. \A v \in Workers : pc'[v] = "release" <=> pc[v] = "release"
      BY <1>1, <1>3
    <2>2. \A v \in Workers : pc[v] = "release" => node'[v] = node[v] /\ rel'[v] = rel[v]
      BY <1>1, <1>3
    <2> QED BY <1>1, <2>1, <2>2, WaitingFrame DEF PoolInv, CounterInv
  <1>10. RelInv'
    BY <1>1, <1>3 DEF PoolInv, RelInv
  <1>11. ExecInv'
    <2>1. ASSUME NEW v \in Workers
          PROVE  /\ pc'[v] = "execute" => node'[v] \notin executed'
                 /\ pc'[v] = "release" => node'[v] \in executed' /\ node'[v] \notin doneClosed'
                 /\ pc'[v] \in {"commit", "dispatch"} => node'[v] \in doneClosed'
      BY <1>1, <1>3 DEF PoolInv, ExecInv
    <2>2. ASSUME NEW n \in executed'
          PROVE  n \in doneClosed' \/ \E v \in Workers : pc'[v] = "release" /\ node'[v] = n
      BY <1>1, <1>3 DEF PoolInv, ExecInv
    <2> QED BY <1>1, <2>1, <2>2 DEF PoolInv, ExecInv
  <1>12. HeldInv'
    BY <1>1, <1>3 DEF PoolInv, HeldInv
  <1>13. QueueInv' /\ NewInv'
    <2>1. QueueInv'
      BY <1>1 DEF PoolInv, QueueInv
    <2>2. \A v \in Workers : pc'[v] \in Busy => pc[v] \in Busy /\ node'[v] = node[v]
      BY <1>3
    <2>3. \A v \in Workers : newly[v] # << >> => pc'[v] \in {"release", "commit", "dispatch"}
      BY <1>1, <1>3 DEF PoolInv, NewInv
    <2> QED BY <1>1, <2>1, <2>2, <2>3 DEF PoolInv, NewInv
  <1>14. ActiveInv'
    <2>1. \A v \in Workers : (pc'[v] = "execute" <=> pc[v] = "execute")
                             /\ (pc[v] = "execute" => node'[v] = node[v])
      BY <1>1, <1>3
    <2>2. \A n : (\E v \in Workers : pc'[v] = "execute" /\ node'[v] = n)
                 <=> (\E v \in Workers : pc[v] = "execute" /\ node[v] = n)
      BY <2>1
    <2> QED BY <1>1, <2>2 DEF PoolInv, ActiveInv
  <1>15. CountInv'
    BY <1>1, <1>5 DEF PoolInv, CountInv
  <1>16. CloseInv'
    BY <1>1, <1>3, <1>5, <1>6 DEF CloseInv
  <1>17. RunInv'
    BY <1>1, <1>2, <1>3 DEF PoolInv, RunInv
  <1> QED BY <1>7, <1>8, <1>9, <1>10, <1>11, <1>12, <1>13, <1>14, <1>15, <1>16, <1>17 DEF PoolInv

-----------------------------------------------------------------------------
\* Every step of the pool keeps the invariant.
LEMMA PoolStepInv == PoolInv /\ [PoolNext]_poolVars => PoolInv'
  <1> SUFFICES ASSUME PoolInv, [PoolNext]_poolVars PROVE PoolInv'
    OBVIOUS
  <1>1. ASSUME NEW w \in Workers, WorkerStep(w) PROVE PoolInv'
    BY <1>1, ReceiveInv, WorkerQuietInv, ExecuteInv, ReleaseOneInv, ReleaseCloseInv,
       DispatchInv, AccountInv DEF WorkerStep
  <1>2. CASE RunStep
    BY <1>2, RunEmptyInv, RunStartInv, RunReturnInv DEF RunStep
  <1>3. CASE Cancel
    BY <1>3, RunReturnInv
  <1>4. CASE UNCHANGED poolVars
    <2>1. UNCHANGED <<dependents, inDegree, runnable, doneClosed, executed, total, workCh,
                      chClosed, remaining, runPc, runErr, pc, node, rel, newly, ctxDone>>
      BY <1>4 DEF poolVars, nodeVars, chanVars, workerVars
    <2>2. PoolTypeOK' /\ CloseInv' /\ RunInv'
      BY <2>1 DEF PoolInv, PoolTypeOK, CloseInv, RunInv, PoolNodes
    <2> QED BY <2>1, <2>2, QuietFrame
  <1> QED BY <1>1, <1>2, <1>3, <1>4 DEF PoolNext, PoolDone

\* A node is in exactly one place of the pool at any time, and its counter is
\* the number of its incoming edges that no Release has counted down yet.
THEOREM PoolInvariant == PoolSpec => []PoolInv
  BY PoolInitInv, PoolStepInv, PTL DEF PoolSpec

\* No counter of the pool leaves its domain; in particular neither inDegree
\* nor remaining is ever decremented below zero.
THEOREM PoolTypeCorrect == PoolSpec => []PoolTypeOK
  <1>1. PoolInv => PoolTypeOK
    BY DEF PoolInv
  <1> QED BY <1>1, PoolInvariant, PTL

\* No send into the closed dispatch channel, no second close of it, and no
\* second close of a node's done channel, for any number of workers.
THEOREM PoolNeverPanics == PoolSpec => []NoPanic
  <1>1. ASSUME PoolInv PROVE NoPanic
    <2> SUFFICES ASSUME NEW w \in Workers
                 PROVE  /\ (pc[w] = "dispatch" /\ newly[w] # << >>) => ~chClosed
                        /\ pc[w] = "close" => ~chClosed
                        /\ pc[w] \in {"execute", "release"} => node[w] \notin doneClosed
      BY DEF NoPanic
    <2>1. ASSUME pc[w] = "dispatch" PROVE ~chClosed
      <3>1. w \in Holders(node[w]) /\ node[w] \in PoolNodes /\ runPc # "start"
        BY <1>1, <2>1 DEF PoolInv, Holders, Busy, HeldInv, RunInv
      <3>2. node[w] \in PoolNodes \ Finished
        BY <3>1 DEF Finished
      <3>3. IsFiniteSet(PoolNodes \ Finished)
        BY <1>1, FS_Subset DEF PoolInv, GraphInv
      <3>4. remaining # 0
        BY <1>1, <3>1, <3>2, <3>3, FS_EmptySet DEF PoolInv, CountInv
      <3> QED BY <1>1, <3>4 DEF PoolInv, CloseInv
    <2>2. pc[w] = "close" => ~chClosed
      BY <1>1 DEF PoolInv, CloseInv
    <2>3. pc[w] \in {"execute", "release"} => node[w] \notin doneClosed
      BY <1>1 DEF PoolInv, ExecInv
    <2> QED BY <2>1, <2>2, <2>3
  <1> QED BY <1>1, PoolInvariant, PTL

\* A worker about to send finds room: the channel holds each node once, and
\* never the one about to be sent, so it holds fewer nodes than there are.
THEOREM SendsNeverBlock == PoolSpec => []SendNeverBlocks
  <1>1. ASSUME PoolInv PROVE SendNeverBlocks
    <2> SUFFICES ASSUME NEW w \in Workers, pc[w] = "dispatch", newly[w] # << >>
                 PROVE  Len(workCh) < total
      BY DEF SendNeverBlocks
    <2>1. /\ newly[w] \in Seq(PoolNodes) /\ NoDuplicates(newly[w])
          /\ workCh \in Seq(PoolNodes) /\ NoDuplicates(workCh)
          /\ IsFiniteSet(PoolNodes) /\ runPc # "start" /\ total = Cardinality(PoolNodes)
      BY <1>1 DEF PoolInv, PoolTypeOK, NewInv, QueueInv, GraphInv, CountInv, RunInv
    <2>2. PICK x \in PoolNodes : x \in New(w)
      BY <2>1, TailDistinct DEF New
    <2>3. x \notin Queue
      BY <1>1, <2>2 DEF PoolInv, NewInv
    <2>4. Queue \subseteq PoolNodes \ {x}
      BY <2>1, <2>3 DEF Queue, Range
    <2>5. IsFiniteSet(PoolNodes \ {x}) /\ Cardinality(PoolNodes \ {x}) = Cardinality(PoolNodes) - 1
      BY <2>1, <2>2, FS_RemoveElement
    <2>6. Cardinality(Queue) <= Cardinality(PoolNodes \ {x})
      BY <2>4, <2>5, FS_Subset
    <2>7. IsFiniteSet(Queue) /\ Cardinality(Queue) = Len(workCh)
      BY <2>1, DistinctLength DEF Queue
    <2>8. Cardinality(PoolNodes) \in Nat /\ Len(workCh) \in Nat
      BY <2>1, FS_CardinalityType
    <2> QED BY <2>1, <2>5, <2>6, <2>7, <2>8
  <1> QED BY <1>1, PoolInvariant, PTL

\* A node whose counter is zero has no edge that was not released, hence no
\* predecessor that was not executed.
LEMMA ZeroMeansReady ==
    ASSUME PoolInv, NEW n \in PoolNodes, inDegree[n] = 0
    PROVE  PredsIn(dependents, n) \subseteq executed
  <1>1. PredsIn(dependents, n) \subseteq PoolNodes
    BY DEF PredsIn, PoolNodes
  <1>2. Waiting(n) \subseteq PoolNodes /\ IsFiniteSet(PoolNodes)
    BY <1>1 DEF Waiting, PoolInv, GraphInv
  <1>3. Waiting(n) = {}
    BY <1>2, FS_Subset, FS_EmptySet DEF PoolInv, CounterInv
  <1>4. \A m \in PredsIn(dependents, n) : Released(m, n)
    BY <1>3 DEF Waiting
  <1> QED BY <1>4 DEF Released, PoolInv, ExecInv

\* The nodes executed, and the one a worker is executing, have had all their
\* predecessors executed.
LEMMA PredsExecuted ==
    ASSUME PoolInv
    PROVE  /\ \A n \in executed : PredsIn(dependents, n) \subseteq executed
           /\ \A w \in Workers : pc[w] \in Busy => PredsIn(dependents, node[w]) \subseteq executed
  <1>1. ASSUME NEW n \in executed PROVE PredsIn(dependents, n) \subseteq executed
    <2>1. n \in PoolNodes /\ runPc # "start"
      BY DEF PoolInv, PoolTypeOK, RunInv
    <2>2. inDegree[n] = 0
      BY <2>1 DEF PoolInv, ActiveInv
    <2> QED BY <2>1, <2>2, ZeroMeansReady
  <1>2. ASSUME NEW w \in Workers, pc[w] \in Busy
        PROVE  PredsIn(dependents, node[w]) \subseteq executed
    <2>1. node[w] \in PoolNodes /\ runPc # "start"
      BY <1>2 DEF PoolInv, HeldInv, RunInv, Busy
    <2>2. node[w] \in executed \/ pc[w] = "execute"
      BY <1>2 DEF PoolInv, ExecInv, Busy
    <2>3. inDegree[node[w]] = 0
      BY <2>1, <2>2 DEF PoolInv, ActiveInv
    <2> QED BY <2>1, <2>3, ZeroMeansReady
  <1> QED BY <1>1, <1>2

\* A node that has left the waiting state has no edge that was not released,
\* hence no predecessor that was not executed; one worker holds it.
THEOREM DependenciesRespected == PoolSpec => []DependencyOrder
  <1>1. ASSUME PoolInv PROVE DependencyOrder
    <2>2. \A w \in Workers : pc[w] \in Busy => PredsIn(dependents, node[w]) \subseteq executed
      BY <1>1, PredsExecuted
    <2>3. ASSUME NEW n \in Queue
          PROVE  PredsIn(dependents, n) \subseteq executed
      <3>1. n \in PoolNodes
        BY <1>1 DEF PoolInv, PoolTypeOK, Queue, Range
      <3>2. runPc # "start"
        BY <1>1 DEF PoolInv, RunInv, Queue, Range
      <3>3. inDegree[n] = 0
        BY <1>1, <3>1, <3>2 DEF PoolInv, ActiveInv
      <3> QED BY <1>1, <3>1, <3>3, ZeroMeansReady
    <2>4. ASSUME NEW n \in PoolNodes
          PROVE  Cardinality(Holders(n)) <= 1
      <3>1. CASE Holders(n) = {}
        BY <3>1, FS_EmptySet
      <3>2. CASE Holders(n) # {}
        <4>1. PICK w : w \in Holders(n)
          BY <3>2
        <4>2. Holders(n) = {w}
          BY <1>1, <4>1 DEF PoolInv, HeldInv, Holders
        <4>3. Cardinality({w}) = 1
          BY FS_Singleton
        <4> QED BY <4>2, <4>3
      <3> QED BY <3>1, <3>2
    <2> QED BY <2>2, <2>3, <2>4 DEF DependencyOrder, Queue
  <1> QED BY <1>1, PoolInvariant, PTL

\* A closed channel was emptied first, and every node was counted.
LEMMA CloseLemma == ASSUME PoolInv PROVE CloseMeansDone
  <1>1. runPc # "start" /\ total # 0 => remaining = Cardinality(PoolNodes \ Finished)
    BY DEF PoolInv, CountInv
  <1>2. ASSUME chClosed PROVE Finished = PoolNodes /\ workCh = << >>
    <2>1. remaining = 0 /\ runPc # "start"
      BY <1>2 DEF PoolInv, CloseInv, RunInv
    <2>2. IsFiniteSet(PoolNodes \ Finished) /\ Cardinality(PoolNodes \ Finished) = 0
      BY <2>1, FS_Subset DEF PoolInv, GraphInv, CountInv
    <2>3. PoolNodes \ Finished = {}
      BY <2>2, FS_EmptySet
    <2>4. Finished \subseteq executed /\ executed \subseteq PoolNodes
      BY DEF PoolInv, PoolTypeOK, ExecInv, Finished
    <2>5. Queue \subseteq PoolNodes
      BY DEF PoolInv, PoolTypeOK, Queue, Range
    <2>6. Queue = {}
      BY <2>3, <2>4, <2>5 DEF PoolInv, QueueInv
    <2>7. workCh = << >>
      <3>1. workCh \in Seq(PoolNodes) /\ NoDuplicates(workCh)
        BY DEF PoolInv, PoolTypeOK, QueueInv
      <3>2. workCh # << >> => Head(workCh) \in Queue
        BY <3>1, TailDistinct DEF Queue
      <3> QED BY <2>6, <3>2
    <2> QED BY <2>3, <2>4, <2>7
  <1> QED BY <1>1, <1>2 DEF CloseMeansDone

\* remaining is the number of unfinished nodes, and the channel is closed
\* only once all are finished and none is left in it.
THEOREM ClosedMeansAllDone == PoolSpec => []CloseMeansDone
  <1> QED BY CloseLemma, PoolInvariant, PTL

\* Run returns nil through the closed channel, or on an empty graph.
LEMMA ReturnLemma == ASSUME PoolInv, CloseMeansDone PROVE ReturnMeansDone
  <1> SUFFICES ASSUME runPc = "returned"
               PROVE  /\ runErr = "nil" => executed = PoolNodes
                      /\ doneClosed = executed
                      /\ \A w \in Workers : pc[w] \in {"idle", "exited"}
    BY DEF ReturnMeansDone
  <1>1. \A w \in Workers : pc[w] \in {"idle", "exited"}
    BY DEF PoolInv, RunInv
  <1>2. doneClosed = executed
    BY <1>1 DEF PoolInv, ExecInv
  <1>3. doneClosed \subseteq PoolNodes /\ Finished \subseteq doneClosed
    BY DEF PoolInv, PoolTypeOK, Finished
  <1>4. runErr = "nil" => PoolNodes = {} \/ Finished = PoolNodes
    BY DEF PoolInv, RunInv, CloseMeansDone
  <1> QED BY <1>1, <1>2, <1>3, <1>4

\* Run returns nil only after the last node was executed and published, and
\* whenever it returns, no worker is left and nothing executed is unpublished.
THEOREM ReturnIsComplete == PoolSpec => []ReturnMeansDone
  <1> QED BY CloseLemma, ReturnLemma, PoolInvariant, PTL

\* No node's Result is written twice: the node a worker is about to execute
\* was never executed before.
THEOREM NoDoubleExecution == PoolSpec => ExecutedOnce
  <1>1. PoolInv => \A w \in Workers : (pc[w] = "execute" /\ pc'[w] # "execute") => node[w] \notin executed
    BY DEF PoolInv, ExecInv
  <1> QED BY <1>1, PoolInvariant, PTL DEF ExecutedOnce
=============================================================================

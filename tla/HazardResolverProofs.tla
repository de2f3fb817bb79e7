------------------------ MODULE HazardResolverProofs ------------------------
(***************************************************************************)
(* Build is correct for every batch: its graph is exactly the hazard       *)
(* relation, its counters count the edges, and it accepts exactly the      *)
(* well-formed batches.  The inductive invariant adds to those properties  *)
(* what the two maps mean between two iterations.                          *)
(***************************************************************************)
EXTENDS HazardResolver, DAGProofs

\* lastWrite[k] is the latest write of k among the processed positions.
LastWriteInv ==
    \A k \in Keys :
      /\ lastWrite[k] # NoNode => /\ lastWrite[k] < pos
                                  /\ batch[lastWrite[k]].Key = k
                                  /\ IsMutation(batch[lastWrite[k]])
      /\ \A m \in Nodes : (m < pos /\ batch[m].Key = k /\ IsMutation(batch[m]))
                             => lastWrite[k] # NoNode /\ m <= lastWrite[k]

\* lastReads[k] holds the processed reads of k with no write of k after them.
LastReadsInv ==
    \A k \in Keys : \A i \in Nodes :
      i \in lastReads[k] <=>
        /\ i < pos
        /\ batch[i].Key = k
        /\ batch[i].Type = OpRead
        /\ \A m \in Nodes : (i < m /\ m < pos /\ batch[m].Key = k) => ~IsMutation(batch[m])

\* Every processed position passed both checks; a refusal names the position
\* the loop stopped at.
AcceptedInv ==
    /\ \A i \in Nodes : i < pos => batch[i].SeqID = i /\ batch[i].Type # UnknownOp
    /\ result = BadSeqID => pos \in Nodes /\ batch[pos].SeqID # pos
    /\ result = BadType => /\ pos \in Nodes
                           /\ batch[pos].SeqID = pos
                           /\ batch[pos].Type = UnknownOp

\* The second loop only runs on the finished graph.
RunnableInv ==
    /\ (scan > 0 \/ result = Built) => pos \notin Nodes
    /\ result = Built => scan \notin Nodes
    /\ Range(runnable) = {n \in Nodes : n < scan /\ inDegree[n] = 0}
    /\ \A p, q \in DOMAIN runnable : p < q => runnable[p] < runnable[q]

HazardInv ==
    /\ HazardTypeOK
    /\ LastWriteInv
    /\ LastReadsInv
    /\ AcceptedInv
    /\ BuildIsExact
    /\ InDegreeCountsEdges
    /\ RunnableInv

-----------------------------------------------------------------------------
\* What the type of a batch gives: its positions are 0..n-1 and finite.
LEMMA BatchFacts ==
    ASSUME HazardTypeOK
    PROVE  /\ IsFiniteSet(Nodes)
           /\ \E n \in Nat : Nodes = 0 .. (n - 1)
           /\ \A i \in Nodes : batch[i] \in Operation /\ i \in Nat
           /\ \A k \in Keys : lastWrite[k] \in Int
  <1>1. IsBatch(batch)
    BY BatchesAssumption DEF HazardTypeOK
  <1>2. IsFiniteSet(Nodes) /\ Len0(batch) \in Nat
    BY <1>1, FS_CardinalityType DEF IsBatch, Nodes, Len0
  <1>3. batch \in [0 .. (Len0(batch) - 1) -> Operation]
    BY <1>1 DEF IsBatch
  <1>4. Nodes = 0 .. (Len0(batch) - 1)
    BY <1>3 DEF Nodes
  <1>5. \A x \in Nodes \cup {NoNode} : x \in Int
    BY <1>4 DEF NoNode
  <1>6. \A k \in Keys : lastWrite[k] \in Int
    BY <1>5 DEF HazardTypeOK
  <1> QED BY <1>2, <1>3, <1>4, <1>6

\* The predecessors the maps give for the current position are exactly the
\* positions it has a direct hazard with.
LEMMA MapsGiveHazards ==
    ASSUME HazardInv, InLoop, Dense
    PROVE  /\ op.Type = OpRead =>
                \A i \in Nodes : i \in LastWriter(op.Key) <=> DirectHazard(batch, i, pos)
           /\ IsMutation(op) =>
                \A i \in Nodes : i \in LastWriter(op.Key) \cup lastReads[op.Key]
                                   <=> DirectHazard(batch, i, pos)
  <1> DEFINE k == op.Key
             w == lastWrite[k]
  <1>0. /\ pos \in Nodes
        /\ k \in Keys
        /\ w \in Nodes \cup {NoNode}
        /\ \A i \in Nodes : i \in Nat
        /\ pos \in Nat
        /\ NoNode \notin Nodes
    BY BatchFacts DEF HazardInv, HazardTypeOK, InLoop, op, Operation, NoNode
  <1>1. /\ w # NoNode => /\ w < pos
                         /\ batch[w].Key = k
                         /\ IsMutation(batch[w])
        /\ \A m \in Nodes : (m < pos /\ batch[m].Key = k /\ IsMutation(batch[m]))
                               => w # NoNode /\ m <= w
    BY <1>0 DEF HazardInv, LastWriteInv
  <1>2. \A i \in Nodes : i \in LastWriter(k) <=> (w # NoNode /\ i = w)
    BY <1>0 DEF LastWriter
  <1>3. \A i \in Nodes : (i \in LastWriter(k)) <=>
                           (DirectHazard(batch, i, pos) /\ IsMutation(batch[i]))
    <2> TAKE i \in Nodes
    <2>1. ASSUME i \in LastWriter(k)
          PROVE  DirectHazard(batch, i, pos) /\ IsMutation(batch[i])
      BY <2>1, <1>0, <1>1, <1>2 DEF DirectHazard, Conflict, Nodes, op
    <2>2. ASSUME DirectHazard(batch, i, pos), IsMutation(batch[i])
          PROVE  i \in LastWriter(k)
      BY <2>2, <1>0, <1>1, <1>2 DEF DirectHazard, Conflict, Nodes, op
    <2> QED BY <2>1, <2>2
  <1>4. ASSUME op.Type = OpRead
        PROVE  \A i \in Nodes : i \in LastWriter(k) <=> DirectHazard(batch, i, pos)
    BY <1>3, <1>4 DEF DirectHazard, Conflict, IsMutation, op, OpRead, OpWrite, OpDelete
  <1>5. ASSUME IsMutation(op)
        PROVE  \A i \in Nodes : i \in LastWriter(k) \cup lastReads[k]
                                  <=> DirectHazard(batch, i, pos)
    <2>1. \A i \in Nodes : i < pos => (IsMutation(batch[i]) <=> batch[i].Type # OpRead)
      BY BatchFacts DEF HazardInv, AcceptedInv, IsMutation, Operation, OperationType,
                        OpRead, OpWrite, OpDelete, UnknownOp
    <2>2. \A i \in Nodes : i \in lastReads[k] <=>
            /\ i < pos
            /\ batch[i].Key = k
            /\ batch[i].Type = OpRead
            /\ \A m \in Nodes : (i < m /\ m < pos /\ batch[m].Key = k) => ~IsMutation(batch[m])
      BY <1>0 DEF HazardInv, LastReadsInv
    <2>3. \A i \in Nodes : i \in lastReads[k] <=>
            DirectHazard(batch, i, pos) /\ ~IsMutation(batch[i])
      BY <2>1, <2>2, <1>0, <1>5 DEF DirectHazard, Conflict, Nodes, op
    <2> QED BY <2>3, <1>3
  <1> QED BY <1>4, <1>5

\* Wiring the current node below the positions it has a direct hazard with
\* keeps the graph exact, the counters right and the fan-out lists sorted.
LEMMA WiringStep ==
    ASSUME HazardInv, InLoop, NEW P \in SUBSET Nodes,
           \A i \in Nodes : i \in P <=> DirectHazard(batch, i, pos),
           AddDependencies(P, pos),
           pos' = pos + 1, batch' = batch
    PROVE  /\ dependents' \in [Nodes -> Seq(Nodes)]
           /\ inDegree' \in [Nodes -> Nat]
           /\ BuildIsExact'
           /\ InDegreeCountsEdges'
  <1>0. /\ pos \in Nodes
        /\ pos \in Nat
        /\ IsFiniteSet(Nodes)
        /\ \A i \in Nodes : i \in Nat
        /\ dependents \in [Nodes -> Seq(Nodes)]
        /\ inDegree \in [Nodes -> Nat]
    BY BatchFacts DEF HazardInv, HazardTypeOK, InLoop
  <1>a. Nodes' = Nodes
    BY DEF Nodes
  <1>b. /\ dependents' = [m \in Nodes |-> IF m \in P THEN Append(dependents[m], pos)
                                                     ELSE dependents[m]]
        /\ inDegree' = [inDegree EXCEPT ![pos] = @ + Cardinality(P)]
    BY DEF AddDependencies
  <1>1. Cardinality(P) \in Nat /\ IsFiniteSet(P)
    BY <1>0, FS_Subset, FS_CardinalityType
  <1>2. dependents' \in [Nodes -> Seq(Nodes)]
    BY <1>0, <1>b, RangeOfAppend
  <1>3. inDegree' \in [Nodes -> Nat]
    BY <1>0, <1>b, <1>1
  <1>4. \A i, j \in Nodes : Edge(i, j)' <=> (Edge(i, j) \/ (i \in P /\ j = pos))
    <2> TAKE i, j \in Nodes
    <2>1. CASE i \in P
      <3>1. dependents'[i] = Append(dependents[i], pos)
        BY <2>1, <1>b
      <3>2. Range(dependents'[i]) = Range(dependents[i]) \cup {pos}
        BY <3>1, <1>0, RangeOfAppend
      <3> QED BY <3>2, <2>1 DEF Edge, HasEdge
    <2>2. CASE i \notin P
      BY <2>2, <1>b DEF Edge, HasEdge
    <2> QED BY <2>1, <2>2
  <1>5. \A i, j \in Nodes : Edge(i, j) <=> (j < pos /\ DirectHazard(batch, i, j))
    BY DEF HazardInv, BuildIsExact
  <1>6. BuildIsExact'
    <2>1. \A i, j \in Nodes : (Edge(i, j)') <=> (j < pos + 1 /\ DirectHazard(batch, i, j))
      BY <1>0, <1>4, <1>5
    <2> QED BY <2>1, <1>a DEF BuildIsExact
  <1>7. \A n \in Nodes : inDegree'[n] = Cardinality(Preds(n)')
    <2> TAKE n \in Nodes
    <2>0. Preds(n)' = {m \in Nodes : Edge(m, n)'}
      BY <1>2 DEF Preds, PredsIn, Edge
    <2>1. inDegree[n] = Cardinality(Preds(n))
      BY DEF HazardInv, InDegreeCountsEdges
    <2>2. CASE n = pos
      <3>1. Preds(n) = {}
        BY <2>2, <1>0, <1>5 DEF Preds, PredsIn, Edge, HasEdge
      <3>2. Preds(n)' = P
        BY <2>0, <2>2, <1>0, <1>4, <1>5
      <3> QED BY <3>1, <3>2, <2>1, <2>2, <1>0, <1>1, <1>b, FS_EmptySet
    <2>3. CASE n # pos
      <3>1. Preds(n)' = Preds(n)
        <4>1. Preds(n) = {m \in Nodes : Edge(m, n)}
          BY <1>0 DEF Preds, PredsIn, Edge
        <4> QED BY <4>1, <2>0, <2>3, <1>4
      <3> QED BY <3>1, <2>1, <2>3, <1>0, <1>b
    <2> QED BY <2>2, <2>3
  <1>8. ASSUME NEW n \in Nodes, NEW p \in DOMAIN dependents'[n],
               NEW q \in DOMAIN dependents'[n], p < q
        PROVE  dependents'[n][p] < dependents'[n][q]
    <2>1. \A x, y \in DOMAIN dependents[n] : x < y => dependents[n][x] < dependents[n][y]
      BY DEF HazardInv, InDegreeCountsEdges
    <2>2. CASE n \in P
      <3>1. dependents'[n] = Append(dependents[n], pos)
        BY <2>2, <1>b
      <3>2. /\ DOMAIN dependents'[n] = 1 .. (Len(dependents[n]) + 1)
            /\ \A x \in 1 .. Len(dependents[n]) : dependents'[n][x] = dependents[n][x]
            /\ dependents'[n][Len(dependents[n]) + 1] = pos
            /\ DOMAIN dependents[n] = 1 .. Len(dependents[n])
            /\ Len(dependents[n]) \in Nat
        BY <3>1, <1>0, RangeOfAppend
      <3>3. \A x \in 1 .. Len(dependents[n]) : dependents[n][x] < pos
        <4> TAKE x \in 1 .. Len(dependents[n])
        <4>1. dependents[n][x] \in Nodes /\ Edge(n, dependents[n][x])
          BY <3>2, <1>0 DEF Edge, HasEdge, Range
        <4> QED BY <4>1, <1>5
      <3>4. p \in 1 .. Len(dependents[n])
        BY <3>2, <1>8
      <3>5. CASE q = Len(dependents[n]) + 1
        BY <3>2, <3>3, <3>4, <3>5
      <3>6. CASE q # Len(dependents[n]) + 1
        BY <3>2, <3>4, <3>6, <2>1, <1>8
      <3> QED BY <3>5, <3>6
    <2>3. CASE n \notin P
      BY <2>3, <2>1, <1>b, <1>8
    <2> QED BY <2>2, <2>3
  <1>9. InDegreeCountsEdges'
    BY <1>7, <1>8, <1>a DEF InDegreeCountsEdges
  <1> QED BY <1>2, <1>3, <1>6, <1>9

-----------------------------------------------------------------------------
\* Build starts with empty maps and a graph without edges.
LEMMA HazardInitInv == HazardInit => HazardInv
  <1> SUFFICES ASSUME HazardInit PROVE HazardInv
    OBVIOUS
  <1> USE DEF HazardInit
  <1>1. HazardTypeOK
    BY DEF HazardTypeOK, Building
  <1>2. \A i \in Nodes : i \in Nat
    BY <1>1, BatchFacts
  <1>3. LastWriteInv /\ LastReadsInv
    BY <1>2 DEF LastWriteInv, LastReadsInv
  <1>4. AcceptedInv
    BY <1>2 DEF AcceptedInv, Building, BadSeqID, BadType
  <1>5. \A n \in Nodes : Range(dependents[n]) = {}
    BY DEF Range
  <1>6. BuildIsExact
    BY <1>2, <1>5 DEF BuildIsExact, Edge, HasEdge
  <1>7. InDegreeCountsEdges
    <2>1. \A n \in Nodes : Preds(n) = {}
      BY <1>5 DEF Preds, PredsIn, Edge, HasEdge
    <2>2. \A n \in Nodes : inDegree[n] = 0 /\ DOMAIN dependents[n] = {}
      OBVIOUS
    <2> QED BY <2>1, <2>2, FS_EmptySet DEF InDegreeCountsEdges
  <1>8. RunnableInv
    <2>1. Range(runnable) = {}
      BY DEF Range
    <2> QED BY <2>1, <1>2 DEF RunnableInv, Building, Built
  <1> QED BY <1>1, <1>3, <1>4, <1>6, <1>7, <1>8 DEF HazardInv

\* An iteration of the first loop, whichever case it takes.
LEMMA FirstLoopRest ==
    ASSUME HazardInv, InLoop, Dense, op.Type # UnknownOp,
           pos' = pos + 1, UNCHANGED <<batch, scan, runnable, result>>
    PROVE  /\ AcceptedInv'
           /\ RunnableInv'
  <1>0. /\ pos \in Nodes /\ pos \in Nat /\ scan \in Nat
        /\ result = Building
        /\ \A i \in Nodes : i \in Nat
        /\ Nodes' = Nodes
    BY BatchFacts DEF HazardInv, HazardTypeOK, InLoop, Nodes
  <1>1. AcceptedInv'
    BY <1>0 DEF HazardInv, AcceptedInv, Dense, op, Building, BadSeqID, BadType
  <1>2. scan = 0
    BY <1>0 DEF HazardInv, RunnableInv
  <1>3. \A n \in Nodes : ~(n < scan)
    BY <1>0, <1>2
  <1>4. Range(runnable) = {}
    BY <1>3 DEF HazardInv, RunnableInv
  <1>5. RunnableInv'
    <2>1. ~(scan > 0) /\ result # Built
      BY <1>0, <1>2 DEF Building, Built
    <2>2. {n \in Nodes : n < scan /\ inDegree'[n] = 0} = {}
      BY <1>3
    <2>3. \A p, q \in DOMAIN runnable : p < q => runnable[p] < runnable[q]
      BY DEF HazardInv, RunnableInv
    <2> QED BY <2>1, <2>2, <2>3, <1>0, <1>4 DEF RunnableInv
  <1> QED BY <1>1, <1>5

\* A read adds its RAW edge and joins lastReads.
LEMMA BuildReadInv == ASSUME HazardInv, BuildRead PROVE HazardInv'
  <1>0. /\ InLoop /\ Dense /\ op.Type = OpRead
        /\ pos \in Nodes /\ pos \in Nat
        /\ op.Key \in Keys
        /\ \A i \in Nodes : i \in Nat
        /\ Nodes' = Nodes
        /\ pos' = pos + 1 /\ batch' = batch
        /\ op = batch[pos]
    BY BatchFacts DEF HazardInv, HazardTypeOK, InLoop, BuildRead, op, Operation, Nodes
  <1>1. LastWriter(op.Key) \in SUBSET Nodes
    BY <1>0 DEF LastWriter, HazardInv, HazardTypeOK
  <1>2. /\ dependents' \in [Nodes -> Seq(Nodes)]
        /\ inDegree' \in [Nodes -> Nat]
        /\ BuildIsExact'
        /\ InDegreeCountsEdges'
    BY <1>0, <1>1, MapsGiveHazards, WiringStep DEF BuildRead
  <1>3. lastReads' = [lastReads EXCEPT ![op.Key] = @ \cup {pos}]
    BY DEF BuildRead
  <1>4. HazardTypeOK'
    BY <1>0, <1>2, <1>3 DEF HazardInv, HazardTypeOK, BuildRead
  <1>5. LastWriteInv'
    <2>1. ~IsMutation(batch[pos])
      BY <1>0 DEF IsMutation, OpRead, OpWrite, OpDelete
    <2>2. ASSUME NEW k \in Keys
          PROVE  lastWrite[k] < pos => lastWrite[k] < pos + 1
      <3>1. lastWrite[k] \in Int
        BY BatchFacts DEF HazardInv
      <3> QED BY <3>1, <1>0
    <2>3. \A m \in Nodes : (m < pos + 1 /\ IsMutation(batch[m])) => m < pos
      BY <2>1, <1>0
    <2>4. lastWrite' = lastWrite
      BY DEF BuildRead
    <2> QED BY <1>0, <2>2, <2>3, <2>4 DEF HazardInv, LastWriteInv
  <1>6. LastReadsInv'
    <2>1. ~IsMutation(batch[pos])
      BY <1>0 DEF IsMutation, OpRead, OpWrite, OpDelete
    <2>2. ASSUME NEW k \in Keys, NEW i \in Nodes
          PROVE  i \in lastReads'[k] <=>
                   /\ i < pos + 1
                   /\ batch[i].Key = k
                   /\ batch[i].Type = OpRead
                   /\ \A m \in Nodes : (i < m /\ m < pos + 1 /\ batch[m].Key = k)
                                         => ~IsMutation(batch[m])
      <3>1. i \in lastReads'[k] <=> (i \in lastReads[k] \/ (k = op.Key /\ i = pos))
        BY <1>0, <1>3 DEF HazardInv, HazardTypeOK
      <3>2. i \in lastReads[k] <=>
              /\ i < pos
              /\ batch[i].Key = k
              /\ batch[i].Type = OpRead
              /\ \A m \in Nodes : (i < m /\ m < pos /\ batch[m].Key = k)
                                    => ~IsMutation(batch[m])
        BY DEF HazardInv, LastReadsInv
      <3>3. \A m \in Nodes : m < pos + 1 <=> (m < pos \/ m = pos)
        BY <1>0
      <3>4. CASE i = pos
        <4>1. \A m \in Nodes : ~(i < m /\ m < pos + 1)
          BY <3>4, <1>0
        <4> QED BY <4>1, <3>1, <3>2, <3>3, <3>4, <1>0
      <3>5. CASE i # pos
        BY <3>1, <3>2, <3>3, <3>5, <2>1
      <3> QED BY <3>4, <3>5
    <2> QED BY <2>2, <1>0 DEF LastReadsInv
  <1>7. AcceptedInv' /\ RunnableInv'
    <2>1. op.Type # UnknownOp
      BY <1>0 DEF OpRead, UnknownOp
    <2> QED BY <2>1, <1>0, FirstLoopRest DEF BuildRead
  <1> QED BY <1>2, <1>4, <1>5, <1>6, <1>7 DEF HazardInv

\* A write or delete adds its WAW and WAR edges and resets both maps for its key.
LEMMA BuildMutationInv == ASSUME HazardInv, BuildMutation PROVE HazardInv'
  <1>0. /\ InLoop /\ Dense /\ IsMutation(op)
        /\ pos \in Nodes /\ pos \in Nat
        /\ op.Key \in Keys
        /\ \A i \in Nodes : i \in Nat
        /\ Nodes' = Nodes
        /\ pos' = pos + 1 /\ batch' = batch
        /\ op = batch[pos]
    BY BatchFacts DEF HazardInv, HazardTypeOK, InLoop, BuildMutation, op, Operation, Nodes
  <1>1. LastWriter(op.Key) \cup lastReads[op.Key] \in SUBSET Nodes
    BY <1>0 DEF LastWriter, HazardInv, HazardTypeOK
  <1>2. /\ dependents' \in [Nodes -> Seq(Nodes)]
        /\ inDegree' \in [Nodes -> Nat]
        /\ BuildIsExact'
        /\ InDegreeCountsEdges'
    BY <1>0, <1>1, MapsGiveHazards, WiringStep DEF BuildMutation
  <1>3. /\ lastReads' = [lastReads EXCEPT ![op.Key] = {}]
        /\ lastWrite' = [lastWrite EXCEPT ![op.Key] = pos]
        /\ lastReads \in [Keys -> SUBSET Nodes]
        /\ lastWrite \in [Keys -> Nodes \cup {NoNode}]
    BY DEF BuildMutation, HazardInv, HazardTypeOK
  <1>4. HazardTypeOK'
    BY <1>0, <1>2, <1>3 DEF HazardInv, HazardTypeOK, BuildMutation
  <1>5. LastWriteInv'
    <2>1. ASSUME NEW k \in Keys
          PROVE  /\ lastWrite'[k] # NoNode => /\ lastWrite'[k] < pos + 1
                                              /\ batch[lastWrite'[k]].Key = k
                                              /\ IsMutation(batch[lastWrite'[k]])
                 /\ \A m \in Nodes :
                      (m < pos + 1 /\ batch[m].Key = k /\ IsMutation(batch[m]))
                        => lastWrite'[k] # NoNode /\ m <= lastWrite'[k]
      <3>1. CASE k = op.Key
        BY <3>1, <1>0, <1>3 DEF NoNode
      <3>2. CASE k # op.Key
        <4>1. lastWrite'[k] = lastWrite[k] /\ lastWrite[k] \in Nodes \cup {NoNode}
          BY <3>2, <1>3
        <4>2. \A m \in Nodes : (m < pos + 1 /\ batch[m].Key = k) => m < pos
          BY <3>2, <1>0
        <4>3. lastWrite[k] < pos => lastWrite[k] < pos + 1
          <5>1. lastWrite[k] \in Int
            BY BatchFacts DEF HazardInv
          <5> QED BY <5>1, <1>0
        <4> QED BY <4>1, <4>2, <4>3 DEF HazardInv, LastWriteInv
      <3> QED BY <3>1, <3>2
    <2> QED BY <2>1, <1>0 DEF LastWriteInv
  <1>6. LastReadsInv'
    <2>1. batch[pos].Type # OpRead
      BY <1>0 DEF IsMutation, OpRead, OpWrite, OpDelete
    <2>2. ASSUME NEW k \in Keys, NEW i \in Nodes
          PROVE  i \in lastReads'[k] <=>
                   /\ i < pos + 1
                   /\ batch[i].Key = k
                   /\ batch[i].Type = OpRead
                   /\ \A m \in Nodes : (i < m /\ m < pos + 1 /\ batch[m].Key = k)
                                         => ~IsMutation(batch[m])
      <3>1. CASE k = op.Key
        BY <3>1, <2>1, <1>0, <1>3
      <3>2. CASE k # op.Key
        BY <3>2, <1>0, <1>3 DEF HazardInv, LastReadsInv
      <3> QED BY <3>1, <3>2
    <2> QED BY <2>2, <1>0 DEF LastReadsInv
  <1>7. AcceptedInv' /\ RunnableInv'
    <2>1. op.Type # UnknownOp
      BY <1>0 DEF IsMutation, OpWrite, OpDelete, UnknownOp
    <2> QED BY <2>1, <1>0, FirstLoopRest DEF BuildMutation
  <1> QED BY <1>2, <1>4, <1>5, <1>6, <1>7 DEF HazardInv

\* An error return leaves the graph alone and records the first fault.
LEMMA BuildRejectInv == ASSUME HazardInv, BuildReject PROVE HazardInv'
  <1>0. Nodes' = Nodes /\ pos \in Nodes /\ result = Building /\ scan \in Nat
    BY DEF BuildReject, InLoop, Nodes, HazardInv, HazardTypeOK
  <1>1. result' \in {BadSeqID, BadType}
    BY DEF BuildReject
  <1>2. HazardTypeOK'
    BY <1>0, <1>1 DEF HazardInv, HazardTypeOK, BuildReject
  <1>3. LastWriteInv' /\ LastReadsInv'
    BY <1>0 DEF HazardInv, LastWriteInv, LastReadsInv, BuildReject
  <1>4. AcceptedInv'
    BY <1>0 DEF HazardInv, AcceptedInv, BuildReject, Dense, op, BadSeqID, BadType
  <1>5. BuildIsExact' /\ InDegreeCountsEdges'
    BY <1>0 DEF HazardInv, BuildIsExact, InDegreeCountsEdges, Preds, PredsIn, Edge, HasEdge, BuildReject
  <1>6. RunnableInv'
    BY <1>0, <1>1 DEF HazardInv, RunnableInv, BuildReject, BadSeqID, BadType, Built
  <1> QED BY <1>2, <1>3, <1>4, <1>5, <1>6 DEF HazardInv

\* The second loop changes neither the graph nor the maps.
LEMMA SecondLoopRest ==
    ASSUME HazardInv, result = Building, result' \in {Building, Built},
           UNCHANGED <<batch, pos, lastWrite, lastReads, dependents, inDegree>>
    PROVE  /\ Nodes' = Nodes
           /\ LastWriteInv' /\ LastReadsInv' /\ AcceptedInv'
           /\ BuildIsExact' /\ InDegreeCountsEdges'
  <1>1. Nodes' = Nodes
    BY DEF Nodes
  <1>2. LastWriteInv' /\ LastReadsInv'
    BY <1>1 DEF HazardInv, LastWriteInv, LastReadsInv
  <1>3. AcceptedInv'
    BY <1>1 DEF HazardInv, AcceptedInv, Building, Built, BadSeqID, BadType
  <1>4. BuildIsExact' /\ InDegreeCountsEdges'
    BY <1>1 DEF HazardInv, BuildIsExact, InDegreeCountsEdges, Preds, PredsIn, Edge, HasEdge
  <1> QED BY <1>1, <1>2, <1>3, <1>4

\* The second loop extends the runnable list by one position.
LEMMA BuildCollectInv == ASSUME HazardInv, BuildCollect PROVE HazardInv'
  <1>1. /\ Nodes' = Nodes
        /\ LastWriteInv' /\ LastReadsInv' /\ AcceptedInv'
        /\ BuildIsExact' /\ InDegreeCountsEdges'
    BY SecondLoopRest DEF BuildCollect
  <1>2. /\ scan \in Nodes /\ scan \in Nat
        /\ runnable \in Seq(Nodes)
        /\ \A i \in Nodes : i \in Nat
        /\ scan' = scan + 1
        /\ inDegree' = inDegree
        /\ pos' = pos /\ pos \notin Nodes
        /\ result' = result /\ result = Building
        /\ Range(runnable) = {n \in Nodes : n < scan /\ inDegree[n] = 0}
        /\ \A p, q \in DOMAIN runnable : p < q => runnable[p] < runnable[q]
    BY BatchFacts DEF BuildCollect, HazardInv, HazardTypeOK, RunnableInv
  <1>3. /\ runnable' \in Seq(Nodes)
        /\ Range(runnable') = {n \in Nodes : n < scan + 1 /\ inDegree[n] = 0}
        /\ \A p, q \in DOMAIN runnable' : p < q => runnable'[p] < runnable'[q]
    <2>1. CASE inDegree[scan] = 0
      <3>1. runnable' = Append(runnable, scan)
        BY <2>1 DEF BuildCollect
      <3>2. /\ runnable' \in Seq(Nodes)
            /\ Range(runnable') = Range(runnable) \cup {scan}
            /\ DOMAIN runnable' = 1 .. (Len(runnable) + 1)
            /\ \A p \in 1 .. Len(runnable) : runnable'[p] = runnable[p]
            /\ runnable'[Len(runnable) + 1] = scan
            /\ DOMAIN runnable = 1 .. Len(runnable)
            /\ Len(runnable) \in Nat
        BY <3>1, <1>2, RangeOfAppend
      <3>3. Range(runnable') = {n \in Nodes : n < scan + 1 /\ inDegree[n] = 0}
        <4>1. \A n \in Nodes : n < scan + 1 <=> (n < scan \/ n = scan)
          BY <1>2
        <4> QED BY <4>1, <3>2, <2>1, <1>2
      <3>4. \A p \in 1 .. Len(runnable) : runnable[p] < scan
        BY <3>2, <1>2 DEF Range
      <3>5. ASSUME NEW p \in DOMAIN runnable', NEW q \in DOMAIN runnable', p < q
            PROVE  runnable'[p] < runnable'[q]
        <4>1. p \in 1 .. Len(runnable)
          BY <3>2, <3>5
        <4>2. CASE q = Len(runnable) + 1
          BY <4>1, <4>2, <3>2, <3>4
        <4>3. CASE q # Len(runnable) + 1
          BY <4>1, <4>3, <3>2, <3>5, <1>2
        <4> QED BY <4>2, <4>3
      <3> QED BY <3>2, <3>3, <3>5
    <2>2. CASE inDegree[scan] # 0
      <3>1. runnable' = runnable
        BY <2>2 DEF BuildCollect
      <3>2. \A n \in Nodes : (n < scan + 1 /\ inDegree[n] = 0) <=> (n < scan /\ inDegree[n] = 0)
        BY <2>2, <1>2
      <3> QED BY <3>1, <3>2, <1>2
    <2> QED BY <2>1, <2>2
  <1>4. HazardTypeOK'
    BY <1>1, <1>2, <1>3 DEF HazardInv, HazardTypeOK, BuildCollect
  <1>5. RunnableInv'
    BY <1>1, <1>2, <1>3 DEF RunnableInv, Building, Built
  <1> QED BY <1>1, <1>4, <1>5 DEF HazardInv

\* The final return changes nothing but the result.
LEMMA BuildReturnInv == ASSUME HazardInv, BuildReturn PROVE HazardInv'
  <1>1. /\ Nodes' = Nodes
        /\ LastWriteInv' /\ LastReadsInv' /\ AcceptedInv'
        /\ BuildIsExact' /\ InDegreeCountsEdges'
    BY SecondLoopRest DEF BuildReturn
  <1>2. HazardTypeOK'
    BY <1>1 DEF HazardInv, HazardTypeOK, BuildReturn
  <1>3. RunnableInv'
    BY <1>1 DEF HazardInv, RunnableInv, BuildReturn, Building, Built
  <1> QED BY <1>1, <1>2, <1>3 DEF HazardInv

\* Every step of Build preserves the inductive invariant.
LEMMA HazardStepInv == HazardInv /\ [HazardNext]_hazardVars => HazardInv'
  <1> SUFFICES ASSUME HazardInv, [HazardNext]_hazardVars PROVE HazardInv'
    OBVIOUS
  <1>1. CASE Build
    BY <1>1, BuildReadInv, BuildMutationInv, BuildRejectInv, BuildCollectInv,
       BuildReturnInv DEF Build
  <1>2. CASE UNCHANGED hazardVars
    BY <1>2 DEF hazardVars, HazardInv, HazardTypeOK, LastWriteInv, LastReadsInv, AcceptedInv,
                BuildIsExact, InDegreeCountsEdges, RunnableInv, Preds, PredsIn, Edge, HasEdge, Nodes
  <1> QED BY <1>1, <1>2 DEF HazardNext, HazardDone

-----------------------------------------------------------------------------
\* A set closed under the fan-out lists that contains a position contains
\* every later position that conflicts with it: two positions at minimal
\* distance that break this have no write of their key between them, so there
\* is an edge from one to the other.
LEMMA ClosedContainsConflicts ==
    ASSUME HazardInv, result = Built, NEW S \in SUBSET Nodes, Closed(dependents, S),
           NEW a \in S, NEW c \in Nodes, a < c, Conflict(batch, a, c)
    PROVE  c \in S
  <1> DEFINE Bad(i, j) == i \in S /\ j \notin S /\ i < j /\ Conflict(batch, i, j)
             D == {d \in Nat : \E i, j \in Nodes : Bad(i, j) /\ d = j - i}
  <1>0. /\ \A i \in Nodes : i \in Nat
        /\ \A i \in Nodes : i < pos
        /\ DOMAIN batch = Nodes
    <2>1. pos \in Nat /\ pos \notin Nodes
      BY DEF HazardInv, HazardTypeOK, RunnableInv
    <2> QED BY <2>1, BatchFacts DEF HazardInv, Nodes
  <1>1. SUFFICES ASSUME c \notin S PROVE FALSE
    OBVIOUS
  <1>2. Bad(a, c) /\ a \in Nodes /\ c - a \in Nat
    BY <1>0, <1>1
  <1>3. D # {} /\ D \in SUBSET Nat
    BY <1>2
  <1>4. PICK d \in D : \A e \in D : d <= e
    <2> HIDE DEF D
    <2> QED BY <1>3, LeastNatural
  <1>5. PICK i \in Nodes, j \in Nodes : Bad(i, j) /\ d = j - i
    BY <1>4
  <1>6. ~DirectHazard(batch, i, j)
    <2>1. SUFFICES ASSUME DirectHazard(batch, i, j) PROVE FALSE
      OBVIOUS
    <2>2. j \in Range(dependents[i])
      BY <2>1, <1>0, <1>5 DEF HazardInv, BuildIsExact, Edge, HasEdge
    <2> QED BY <2>2, <1>5 DEF Closed
  <1>7. PICK m \in Nodes : i < m /\ m < j /\ batch[m].Key = batch[j].Key /\ IsMutation(batch[m])
    BY <1>0, <1>5, <1>6 DEF DirectHazard
  <1>8. Conflict(batch, i, m) /\ Conflict(batch, m, j)
    BY <1>5, <1>7 DEF Conflict
  <1>9. CASE m \in S
    <2>1. Bad(m, j) /\ j - m \in Nat /\ j - m < j - i
      BY <1>0, <1>5, <1>7, <1>8, <1>9
    <2>2. j - m \in D
      BY <2>1, <1>5
    <2> QED BY <2>1, <2>2, <1>0, <1>4, <1>5
  <1>10. CASE m \notin S
    <2>1. Bad(i, m) /\ m - i \in Nat /\ m - i < j - i
      BY <1>0, <1>5, <1>7, <1>8, <1>10
    <2>2. m - i \in D
      BY <2>1, <1>5
    <2> QED BY <2>1, <2>2, <1>0, <1>4, <1>5
  <1> QED BY <1>9, <1>10

\* The path from i to j is the membership of j in every closed set around i.
LEMMA ConflictsOrderedLemma == HazardInv => ConflictsOrdered
  <1> SUFFICES ASSUME HazardInv, result = Built, NEW i \in Nodes, NEW j \in Nodes,
                      i < j, Conflict(batch, i, j)
               PROVE  j \in reachableNodes(dependents, {i})
    BY DEF ConflictsOrdered
  <1>1. DOMAIN dependents = Nodes
    BY DEF HazardInv, HazardTypeOK
  <1>2. ASSUME NEW S \in SUBSET Nodes, {i} \subseteq S, Closed(dependents, S)
        PROVE  j \in S
    BY <1>2, ClosedContainsConflicts
  <1> QED BY <1>1, <1>2 DEF reachableNodes

\* The least node outside a closed set that contains the runnable nodes would
\* have a predecessor, which is smaller and hence inside.
LEMMA RunnableGroundsLemma == HazardInv => RunnableGroundsDAG
  <1> SUFFICES ASSUME HazardInv, result = Built PROVE RunnableGroundsDAG
    BY DEF RunnableGroundsDAG
  <1>0. /\ \A i \in Nodes : i \in Nat
        /\ \A i \in Nodes : i < scan
        /\ DOMAIN dependents = Nodes
        /\ IsFiniteSet(Nodes)
    <2>1. scan \in Nat /\ scan \notin Nodes
      BY DEF HazardInv, HazardTypeOK, RunnableInv
    <2> QED BY <2>1, BatchFacts DEF HazardInv, HazardTypeOK
  <1>1. \A n \in Nodes : (inDegree[n] = 0) <=> (Preds(n) = {})
    <2> TAKE n \in Nodes
    <2>1. IsFiniteSet(Preds(n))
      BY <1>0, FS_Subset DEF Preds, PredsIn
    <2> QED BY <2>1, FS_EmptySet DEF HazardInv, InDegreeCountsEdges
  <1>2. Range(runnable) = {n \in Nodes : Preds(n) = {}}
    BY <1>0, <1>1 DEF HazardInv, RunnableInv
  <1>3. ASSUME NEW S \in SUBSET Nodes, Range(runnable) \subseteq S, Closed(dependents, S)
        PROVE  Nodes \subseteq S
    <2>1. SUFFICES ASSUME Nodes \ S # {} PROVE FALSE
      OBVIOUS
    <2>2. PICK n \in Nodes \ S : \A m \in Nodes \ S : n <= m
      <3>1. Nodes \ S \in SUBSET Nat
        BY <1>0
      <3> QED BY <2>1, <3>1, LeastNatural
    <2>3. PICK p \in Nodes : Edge(p, n)
      BY <2>2, <1>2, <1>3, <1>0 DEF Preds, PredsIn, Edge
    <2>4. p < n
      BY <2>2, <2>3 DEF HazardInv, BuildIsExact, DirectHazard
    <2>5. p \in S
      BY <2>2, <2>4, <1>0
    <2> QED BY <2>2, <2>3, <2>5, <1>3 DEF Closed, Edge, HasEdge
  <1>4. reachableNodes(dependents, Range(runnable)) = Nodes
    BY <1>0, <1>3 DEF reachableNodes
  <1> QED BY <1>2, <1>4 DEF RunnableGroundsDAG, HazardInv, RunnableInv

\* Acceptance follows from what the first loop has checked so far.
LEMMA AcceptsExactlyLemma == HazardInv => AcceptsExactly
  <1> SUFFICES ASSUME HazardInv PROVE AcceptsExactly
    OBVIOUS
  <1> DEFINE Bad(i) == batch[i].SeqID # i \/ batch[i].Type = UnknownOp
  <1>0. \A i \in Nodes : i \in Nat
    BY BatchFacts DEF HazardInv
  <1>1. \A i \in Nodes : i < pos => ~Bad(i)
    BY DEF HazardInv, AcceptedInv
  <1>2. ASSUME result = Built PROVE \A i \in Nodes : ~Bad(i)
    <2>1. pos \in Nat /\ pos \notin Nodes
      BY <1>2 DEF HazardInv, HazardTypeOK, RunnableInv
    <2>2. \A i \in Nodes : i < pos
      BY <2>1, BatchFacts DEF HazardInv
    <2> QED BY <2>2, <1>1
  <1>3. ASSUME result \in {BadSeqID, BadType}
        PROVE  /\ pos \in Nodes
               /\ Bad(pos)
               /\ (result = BadSeqID) <=> (batch[pos].SeqID # pos)
    BY <1>3 DEF HazardInv, AcceptedInv, BadSeqID, BadType
  <1> QED BY <1>1, <1>2, <1>3 DEF AcceptsExactly

\* The number of edges, counted at their ends: two edges from a write into one
\* node would have the later write between the earlier one and the node, and
\* two edges from one read would have the first write between the read and the
\* second.  So the edges from writes are at most as many as the nodes
\* processed, and those from reads at most as many as the reads processed.
LEMMA EdgesLinearLemma == HazardInv => EdgesLinear
  <1> SUFFICES ASSUME HazardInv PROVE EdgesLinear
    OBVIOUS
  <1> DEFINE E  == {e \in Nodes \X Nodes : Edge(e[1], e[2])}
             EW == {e \in E : IsMutation(batch[e[1]])}
             ER == {e \in E : ~IsMutation(batch[e[1]])}
             R  == {n \in Nodes : n < pos /\ batch[n].Type = OpRead}
             fw == [e \in EW |-> e[2]]
             fr == [e \in ER |-> e[1]]
  <1>0. /\ \A i \in Nodes : i \in Nat /\ batch[i] \in Operation
        /\ IsFiniteSet(Nodes)
        /\ pos \in Nat
        /\ DOMAIN batch = Nodes
    BY BatchFacts DEF HazardInv, HazardTypeOK, Nodes
  <1>1. \A i, j \in Nodes : Edge(i, j) <=> (j < pos /\ DirectHazard(batch, i, j))
    BY DEF HazardInv, BuildIsExact
  <1>2. /\ IsFiniteSet(0 .. (pos - 1)) /\ Cardinality(0 .. (pos - 1)) = pos
        /\ IsFiniteSet(R) /\ Cardinality(R) \in Nat
    <2>1. IsFiniteSet(0 .. (pos - 1)) /\ Cardinality(0 .. (pos - 1)) = pos
      BY <1>0, FS_Interval
    <2>2. IsFiniteSet(R)
      BY <1>0, FS_Subset
    <2> QED BY <2>1, <2>2, FS_CardinalityType
  <1>3. ASSUME NEW e \in E
        PROVE  /\ e[1] \in Nodes /\ e[2] \in Nodes /\ e = <<e[1], e[2]>>
               /\ e[2] \in 0 .. (pos - 1) /\ e[1] < e[2] /\ e[1] < pos
               /\ Conflict(batch, e[1], e[2])
               /\ \A m \in Nodes : (e[1] < m /\ m < e[2] /\ batch[m].Key = batch[e[2]].Key)
                                     => ~IsMutation(batch[m])
    <2>1. e[1] \in Nodes /\ e[2] \in Nodes /\ e = <<e[1], e[2]>> /\ Edge(e[1], e[2])
      OBVIOUS
    <2>2. e[2] < pos /\ DirectHazard(batch, e[1], e[2])
      BY <2>1, <1>1
    <2>3. e[1] \in Nat /\ e[2] \in Nat
      BY <2>1, <1>0
    <2> QED BY <2>1, <2>2, <2>3, <1>0 DEF DirectHazard
  <1>4. fw \in Injection(EW, 0 .. (pos - 1))
    <2>1. fw \in [EW -> 0 .. (pos - 1)]
      BY <1>3
    <2>2. ASSUME NEW a \in EW, NEW b \in EW, a[2] = b[2] PROVE a = b
      <3>1. a[1] \in Nat /\ b[1] \in Nat
        BY <1>0, <1>3
      <3>2. batch[a[1]].Key = batch[a[2]].Key /\ batch[b[1]].Key = batch[a[2]].Key
        BY <1>3, <2>2 DEF Conflict
      <3>3. ~(a[1] < b[1])
        BY <1>3, <2>2, <3>2
      <3>4. ~(b[1] < a[1])
        BY <1>3, <2>2, <3>2
      <3>5. a[1] = b[1]
        BY <3>1, <3>3, <3>4
      <3> QED BY <1>3, <2>2, <3>5
    <2> QED BY <2>1, <2>2 DEF Injection, IsInjective
  <1>5. fr \in Injection(ER, R)
    <2>1. ASSUME NEW e \in ER
          PROVE  batch[e[1]].Type = OpRead /\ IsMutation(batch[e[2]])
      <3>1. batch[e[1]].Type # UnknownOp
        BY <1>3 DEF HazardInv, AcceptedInv
      <3>2. batch[e[1]].Type \in OperationType
        BY <1>0, <1>3 DEF Operation
      <3> QED BY <1>3, <3>1, <3>2 DEF Conflict, IsMutation, OperationType, OpRead, OpWrite,
                                     OpDelete, UnknownOp
    <2>2. fr \in [ER -> R]
      BY <1>3, <2>1
    <2>3. ASSUME NEW a \in ER, NEW b \in ER, a[1] = b[1] PROVE a = b
      <3>1. a[2] \in Nat /\ b[2] \in Nat
        BY <1>0, <1>3
      <3>2. batch[a[2]].Key = batch[a[1]].Key /\ batch[b[2]].Key = batch[a[1]].Key
        BY <1>3, <2>3 DEF Conflict
      <3>3. ~(a[2] < b[2])
        BY <1>3, <2>1, <2>3, <3>2
      <3>4. ~(b[2] < a[2])
        BY <1>3, <2>1, <2>3, <3>2
      <3>5. a[2] = b[2]
        BY <3>1, <3>3, <3>4
      <3> QED BY <1>3, <2>3, <3>5
    <2> QED BY <2>2, <2>3 DEF Injection, IsInjective
  <1>6. /\ IsFiniteSet(EW) /\ Cardinality(EW) <= pos
        /\ IsFiniteSet(ER) /\ Cardinality(ER) <= Cardinality(R)
    <2> HIDE DEF EW, ER, R, fw, fr
    <2>1. IsFiniteSet(EW) /\ Cardinality(EW) <= pos
      BY <1>2, <1>4, FS_Injection
    <2>2. IsFiniteSet(ER) /\ Cardinality(ER) <= Cardinality(R)
      BY <1>2, <1>5, FS_Injection
    <2> QED BY <2>1, <2>2
  <1>7. EW \cup ER = E /\ EW \cap ER = {}
    OBVIOUS
  <1>8. Cardinality(E) <= pos + Cardinality(R)
    <2> HIDE DEF E, EW, ER, R
    <2>1. Cardinality(E) = Cardinality(EW) + Cardinality(ER) - Cardinality({})
      BY <1>6, <1>7, FS_Union
    <2>2. Cardinality(EW) \in Nat /\ Cardinality(ER) \in Nat /\ Cardinality({}) = 0
      BY <1>6, FS_CardinalityType, FS_EmptySet
    <2> QED BY <2>1, <2>2, <1>0, <1>2, <1>6
  <1> QED BY <1>8 DEF EdgesLinear

\* The graph at the end of Build, as the worker pool takes it.
LEMMA GraphLemma ==
    ASSUME HazardInv, RunnableGroundsDAG, result = Built
    PROVE  /\ IsGraph([dependents |-> dependents, runnable |-> runnable])
           /\ inDegree = [n \in Nodes |-> Cardinality(PredsIn(dependents, n))]
  <1>1. DOMAIN dependents = Nodes /\ dependents \in [Nodes -> Seq(Nodes)]
        /\ runnable \in Seq(Nodes) /\ inDegree \in [Nodes -> Nat]
    BY DEF HazardInv, HazardTypeOK
  <1>2. IsFiniteSet(Nodes) /\ Nodes \subseteq Nat
    BY BatchFacts DEF HazardInv
  <1>3. ASSUME NEW s \in Seq(Nodes), \A p, q \in DOMAIN s : p < q => s[p] < s[q]
        PROVE  NoDuplicates(s)
    <2> SUFFICES ASSUME NEW p \in DOMAIN s, NEW q \in DOMAIN s, p # q PROVE s[p] # s[q]
      BY DEF NoDuplicates
    <2>0. s[p] \in Nodes /\ s[q] \in Nodes /\ p \in Int /\ q \in Int
      OBVIOUS
    <2>1. p \in Int /\ q \in Int /\ s[p] \in Nat /\ s[q] \in Nat
      BY <1>2, <2>0
    <2>2. p < q \/ q < p
      BY <2>1
    <2> QED BY <1>3, <2>1, <2>2
  <1>4. \A n \in Nodes : NoDuplicates(dependents[n])
    BY <1>1, <1>3 DEF HazardInv, InDegreeCountsEdges
  <1>5. /\ NoDuplicates(runnable)
        /\ Range(runnable) = {n \in Nodes : PredsIn(dependents, n) = {}}
        /\ reachableNodes(dependents, Range(runnable)) = Nodes
    BY <1>1, <1>3 DEF RunnableGroundsDAG, Preds
  <1>6. \A n \in Nodes : inDegree[n] = Cardinality(PredsIn(dependents, n))
    BY <1>1 DEF HazardInv, InDegreeCountsEdges, Preds
  <1>7. inDegree = [n \in Nodes |-> Cardinality(PredsIn(dependents, n))]
    BY <1>1, <1>6
  <1> QED BY <1>1, <1>2, <1>4, <1>5, <1>7 DEF IsGraph

-----------------------------------------------------------------------------
\* The inductive invariant holds throughout Build, for every batch.
THEOREM HazardInvariant == HazardSpec => []HazardInv
  <1> QED BY HazardInitInv, HazardStepInv, PTL DEF HazardSpec

\* Build keeps its state well typed.
THEOREM HazardTypeCorrect == HazardSpec => []HazardTypeOK
  <1>1. HazardInv => HazardTypeOK
    BY DEF HazardInv
  <1> QED BY <1>1, HazardInvariant, PTL

\* For every batch the graph Build wires is exactly the hazard relation.
THEOREM BuildExact == HazardSpec => []BuildIsExact
  <1>1. HazardInv => BuildIsExact
    BY DEF HazardInv
  <1> QED BY <1>1, HazardInvariant, PTL

\* For every batch the in-degree counters equal the number of incoming edges.
THEOREM InDegreeExact == HazardSpec => []InDegreeCountsEdges
  <1>1. HazardInv => InDegreeCountsEdges
    BY DEF HazardInv
  <1> QED BY <1>1, HazardInvariant, PTL

\* For every batch, conflicting operations are connected in batch order.
THEOREM ConflictsAlwaysOrdered == HazardSpec => []ConflictsOrdered
  <1> QED BY ConflictsOrderedLemma, HazardInvariant, PTL

\* For every batch, the runnable nodes are the sources of the graph and reach
\* all of it.
THEOREM RunnableAlwaysGrounds == HazardSpec => []RunnableGroundsDAG
  <1> QED BY RunnableGroundsLemma, HazardInvariant, PTL

\* Build accepts exactly the dense batches of known operation types.
THEOREM BuildAcceptsExactly == HazardSpec => []AcceptsExactly
  <1> QED BY AcceptsExactlyLemma, HazardInvariant, PTL

\* For every batch the number of edges is linear: at most one per operation
\* and one more per read, however many pairs of operations conflict.
THEOREM EdgesAlwaysLinear == HazardSpec => []EdgesLinear
  <1> QED BY EdgesLinearLemma, HazardInvariant, PTL

\* What Build returns is what the worker pool assumes of its argument: a
\* finite graph without duplicate entries, with in-degrees that count the
\* edges and the sources as runnable nodes, from which all nodes are reached.
THEOREM BuildReturnsGraph ==
    HazardSpec => [](result = Built =>
                       /\ IsGraph([dependents |-> dependents, runnable |-> runnable])
                       /\ inDegree = [n \in Nodes |-> Cardinality(PredsIn(dependents, n))])
  <1> QED BY GraphLemma, RunnableGroundsLemma, HazardInvariant, PTL
=============================================================================

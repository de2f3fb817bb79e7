---------------------------- MODULE MCWorkerPool ----------------------------
(***************************************************************************)
(* Every graph on at most MaxNodes nodes whose edges point forward, which  *)
(* is every shape Build can produce and more, with its sources in batch    *)
(* order.                                                                  *)
(***************************************************************************)
EXTENDS WorkerPool, SequencesExt

CONSTANT MaxNodes

Ascending(S) == SetToSortSeq(S, <)

ForwardGraphs(n) ==
    LET N == 0 .. (n - 1)
    IN  {[m \in N |-> Ascending({e[2] : e \in {d \in E : d[1] = m}})] :
            E \in SUBSET {e \in N \X N : e[1] < e[2]}}

WithSources(dep) ==
    [dependents |-> dep,
     runnable |-> Ascending({n \in DOMAIN dep : PredsIn(dep, n) = {}})]

MCGraphs == {WithSources(dep) : dep \in UNION {ForwardGraphs(n) : n \in 0 .. MaxNodes}}

WorkerSymmetry == Permutations(Workers)
=============================================================================

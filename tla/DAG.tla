-------------------------------- MODULE DAG ---------------------------------
(***************************************************************************)
(* The dependency graph as types.go keeps it: each DAGNode has a fan-out   *)
(* list, so a graph is a function dep from nodes to sequences of nodes.    *)
(***************************************************************************)
EXTENDS Integers, Sequences, FiniteSets, Functions

\* m.AddDependency(n) was called: n waits for m.
HasEdge(dep, m, n) == n \in Range(dep[m])

PredsIn(dep, n) == {m \in DOMAIN dep : HasEdge(dep, m, n)}

Closed(dep, S) == \A m \in S : Range(dep[m]) \subseteq S

\* What the breadth-first search of reachableNodes visits: the smallest set
\* that contains the roots and is closed under the fan-out lists.
reachableNodes(dep, roots) ==
    {n \in DOMAIN dep : \A S \in SUBSET (DOMAIN dep) :
                           (roots \subseteq S /\ Closed(dep, S)) => n \in S}

\* A fan-out list names a dependent at most once.
NoDuplicates(s) == \A p, q \in DOMAIN s : p # q => s[p] # s[q]

\* The graphs the worker pool can run: fan-out lists without duplicates, and
\* the list of the nodes without predecessor, from which everything is
\* reachable.
IsGraph(g) ==
    LET N == DOMAIN g.dependents
    IN  /\ IsFiniteSet(N)
        /\ g.dependents \in [N -> Seq(N)]
        /\ \A n \in N : NoDuplicates(g.dependents[n])
        /\ g.runnable \in Seq(N)
        /\ NoDuplicates(g.runnable)
        /\ Range(g.runnable) = {n \in N : PredsIn(g.dependents, n) = {}}
        /\ reachableNodes(g.dependents, Range(g.runnable)) = N
=============================================================================

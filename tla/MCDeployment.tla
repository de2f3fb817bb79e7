---------------------------- MODULE MCDeployment ----------------------------
(***************************************************************************)
(* Clients 0 and 1 against one process, and what the simulator computes    *)
(* by itself.                                                              *)
(***************************************************************************)
EXTENDS Deployment, Config

\* Whatever the environment says, the pool has a worker (its theorems assume
\* one) and a batch has time.
ASSUME PoolHasWorkers ==
    \A v \in {Unset, Malformed} \cup (-2 .. 2) : workerCount(v) > 0 /\ batchTimeout(v) > 0

\* With the defaults a handler may already outlast the grace period: the body
\* may take the read timeout and the batch its own.
ASSUME GraceCanExpire == readTimeout + batchTimeout(Unset) > gracePeriod

\* Every batch is one that translateRequest accepts, and two clients never
\* write the same rider up to a batch size of 1000.
ASSUME BatchesAreDense ==
    \A size \in {0, 1, 50} : \A c \in 0 .. 3 :
      LET b == buildBatch(size, c)
      IN  /\ Len(b) = size
          /\ {b[i].SeqID : i \in 1 .. size} = 0 .. (size - 1)

ASSUME RidersAreDisjoint ==
    /\ \A i, j \in 0 .. 999 : riderID(0, i) # riderID(1, j)
    /\ riderID(0, 1000) = riderID(1, 0)

\* An index never leaves the samples, and a higher percentile never comes
\* before a lower one.
ASSUME IndexInRange ==
    \A n \in 1 .. 300 : /\ 0 <= idx(50, n) /\ idx(99, n) < n
                        /\ idx(50, n) <= idx(95, n) /\ idx(95, n) <= idx(99, n)

\* The percentile is a sample with at least that share of the other samples at
\* or below it, less one.
ASSUME PercentilesAreSamples ==
    \A n \in 1 .. 4 : \A l \in [1 .. n -> 1 .. 3] :
      LET p == percentiles(l)
          AtMost(v) == Cardinality({i \in 1 .. n : l[i] <= v})
          Below(v) == Cardinality({i \in 1 .. n : l[i] < v})
      IN  /\ 2 * AtMost(p.p50) >= n /\ 2 * Below(p.p50) <= n
          /\ p.p50 <= p.p95 /\ p.p95 <= p.p99
          /\ 100 * AtMost(p.p99) > 99 * (n - 1)
ASSUME NoSamples == percentiles(<< >>) = [p50 |-> 0, p95 |-> 0, p99 |-> 0]
=============================================================================

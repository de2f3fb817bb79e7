---------------------------- MODULE MCShardedMap ----------------------------
(***************************************************************************)
(* The sharded map with three real keys: "24" and "51" hash to one shard,  *)
(* "1" to another.                                                         *)
(***************************************************************************)
EXTENDS ShardedMap, FNV1a, FiniteSets

MCKeys == {<<50, 52>>, <<53, 49>>, <<49>>}

MCShardFor == [k \in MCKeys |-> IF k = <<49>> THEN 28 ELSE 51]

MCShards == {28, 51}

\* That is where the hash sends them.
ASSUME RoutedByHash == \A k \in MCKeys : MCShardFor[k] = shardIndex(k)

\* The published hashes of "", "a" and "foobar".
ASSUME PublishedVectors ==
    /\ fnv1a(<< >>) = <<197, 157, 28, 129>>
    /\ fnv1a(<<97>>) = <<44, 41, 12, 228>>
    /\ fnv1a(<<102, 111, 111, 98, 97, 114>>) = <<104, 249, 156, 191>>

\* The multiplier is odd, so the last byte alone spreads keys over all shards:
\* keys that differ in their last byte only never share one.
ASSUME LastByteSpreads ==
    \A prefix \in {<< >>, <<50>>, <<114, 105, 100>>} :
      Cardinality({shardIndex(Append(prefix, b)) : b \in Byte}) = 256
=============================================================================

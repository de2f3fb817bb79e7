SPECIFICATION ShardFairSpec
CONSTANTS
    Keys <- MCKeys
    Values = {v1}
    Callers = {g1, g2, g3}
    Absent = Absent
    Shards <- MCShards
    shardFor <- MCShardFor
    Free = Free
INVARIANTS
    NoMapRace
PROPERTIES
    ImplementsAtomicStore
    CallsReturn

----------------------------- MODULE ShardedMap -----------------------------
(***************************************************************************)
(* ShardedMap (storage.go): Get, Set and Delete on a map that is split     *)
(* into shards, each with its own data and its own sync.RWMutex, called by *)
(* the workers of all the batches in progress.  A caller may call again    *)
(* and again, so nothing here is bounded but the sets of keys, values and  *)
(* callers.                                                                *)
(*                                                                         *)
(* The RWMutex is Go's: a writer first gets an inner mutex, which          *)
(* announces it and makes later readers wait, then waits for the readers   *)
(* that are inside; when it unlocks, the readers that waited are let in.   *)
(***************************************************************************)
CONSTANTS
    Keys,
    Values,
    Callers,   \* goroutines inside the engine
    Absent,    \* the key is not in the map
    Shards,
    shardFor,  \* key -> shard, the routing by hash
    Free       \* no writer

ASSUME ShardForAssumption == shardFor \in [Keys -> Shards]
ASSUME NoneAssumption == Absent \notin Values /\ Free \notin Callers

VARIABLES
    data,     \* the map of each shard: what it holds for any key
    readers,  \* goroutines that hold the shard's read lock
    writer,   \* the announced writer of the shard, or Free
    rwait,    \* readers that arrived after the announcement
    pc,       \* where each goroutine is in its call
    call,     \* the call it is in
    reply     \* its answer, from the access to the unlock

lockVars == <<readers, writer, rwait>>
shardVars == <<data, lockVars, pc, call, reply>>

\* The promise, over the union of the shards' maps: a key is looked up in its
\* own shard.
Store == INSTANCE AtomicStore WITH content <- [k \in Keys |-> data[shardFor[k]][k]]

ShardTypeOK ==
    /\ data \in [Shards -> [Keys -> Values \cup {Absent}]]
    /\ readers \in [Shards -> SUBSET Callers]
    /\ writer \in [Shards -> Callers \cup {Free}]
    /\ rwait \in [Shards -> SUBSET Callers]
    /\ pc \in [Callers -> {"idle", "lock", "wait", "access", "unlock"}]
    /\ call \in [Callers -> Store!Calls \cup {Store!NoCall}]
    /\ reply \in [Callers -> {Store!Pending} \cup [val : Values \cup {Absent}]]

\* NewShardedMap.
ShardInit ==
    /\ data = [s \in Shards |-> [k \in Keys |-> Absent]]
    /\ readers = [s \in Shards |-> {}]
    /\ writer = [s \in Shards |-> Free]
    /\ rwait = [s \in Shards |-> {}]
    /\ pc = [c \in Callers |-> "idle"]
    /\ call = [c \in Callers |-> Store!NoCall]
    /\ reply = [c \in Callers |-> Store!Pending]

-----------------------------------------------------------------------------
Goto(c, l) == pc' = [pc EXCEPT ![c] = l]

\* The shard a goroutine works on, and whether it only reads.
My(c) == shardFor[call[c].key]
Reads(c) == call[c].op = "get"

\* The call hands its answer to the caller.
ReturnFrom(c) ==
    /\ call' = [call EXCEPT ![c] = Store!NoCall]
    /\ reply' = [reply EXCEPT ![c] = Store!Pending]

\* A call whose context is alive when it looks at it; it does not look again.
\* One whose context has ended returns the error and has touched nothing: it is
\* no step of this module.
Invoke(c) ==
    /\ pc[c] = "idle"
    /\ \E o \in Store!Calls : call' = [call EXCEPT ![c] = o]
    /\ Goto(c, "lock")
    /\ UNCHANGED <<data, lockVars, reply>>

\* s.mu.RLock(): at once, or behind an announced writer.
RLock(c) ==
    LET s == My(c) IN
    /\ pc[c] = "lock" /\ Reads(c)
    /\ IF writer[s] = Free
       THEN /\ readers' = [readers EXCEPT ![s] = @ \cup {c}]
            /\ Goto(c, "access")
            /\ UNCHANGED rwait
       ELSE /\ rwait' = [rwait EXCEPT ![s] = @ \cup {c}]
            /\ Goto(c, "wait")
            /\ UNCHANGED readers
    /\ UNCHANGED <<data, writer, call, reply>>

\* Mutant: Set and Delete take the read lock.
LockShared(c) ==
    LET s == My(c) IN
    /\ pc[c] = "lock" /\ ~Reads(c)
    /\ readers' = [readers EXCEPT ![s] = @ \cup {c}]
    /\ Goto(c, "access")
    /\ UNCHANGED <<data, writer, rwait, call, reply>>

\* s.mu.Lock(), first half: the inner mutex, and the announcement.
Lock(c) ==
    LET s == My(c) IN
    /\ pc[c] = "lock" /\ ~Reads(c)
    /\ writer[s] = Free
    /\ writer' = [writer EXCEPT ![s] = c]
    /\ Goto(c, "wait")
    /\ UNCHANGED <<data, readers, rwait, call, reply>>

\* Second half: the readers that were inside have left.
LockDrained(c) ==
    /\ pc[c] = "wait" /\ ~Reads(c)
    /\ readers[My(c)] = {}
    /\ Goto(c, "access")
    /\ UNCHANGED <<data, lockVars, call, reply>>

\* Mutant: a shard keeps one value only, whatever the key.
AccessWholeShard(c) ==
    LET s == My(c) IN
    /\ pc[c] = "access"
    /\ data' = IF Reads(c) THEN data
               ELSE [data EXCEPT ![s] = [k \in Keys |-> Store!After(call[c], @)[call[c].key]]]
    /\ reply' = [reply EXCEPT ![c] = Store!AnswerOf(call[c], data[s])]
    /\ Goto(c, "unlock")
    /\ UNCHANGED <<lockVars, call>>

\* v, ok := s.data[key], s.data[key] = value, delete(s.data, key).
Access(c) ==
    LET s == My(c) IN
    /\ pc[c] = "access"
    /\ data' = [data EXCEPT ![s] = Store!After(call[c], @)]
    /\ reply' = [reply EXCEPT ![c] = Store!AnswerOf(call[c], data[s])]
    /\ Goto(c, "unlock")
    /\ UNCHANGED <<lockVars, call>>

\* s.mu.RUnlock() and the return.
RUnlock(c) ==
    LET s == My(c) IN
    /\ pc[c] = "unlock" /\ Reads(c)
    /\ readers' = [readers EXCEPT ![s] = @ \ {c}]
    /\ Goto(c, "idle")
    /\ ReturnFrom(c)
    /\ UNCHANGED <<data, writer, rwait>>

\* Mutant: Set and Delete return with the lock held.
UnlockForgotten(c) ==
    /\ pc[c] = "unlock" /\ ~Reads(c)
    /\ Goto(c, "idle")
    /\ ReturnFrom(c)
    /\ UNCHANGED <<data, lockVars>>

\* s.mu.Unlock(): the readers that waited hold the lock now.
Unlock(c) ==
    LET s == My(c) IN
    /\ pc[c] = "unlock" /\ ~Reads(c)
    /\ writer' = [writer EXCEPT ![s] = Free]
    /\ readers' = [readers EXCEPT ![s] = rwait[s]]
    /\ rwait' = [rwait EXCEPT ![s] = {}]
    /\ pc' = [d \in Callers |-> IF d = c THEN "idle"
                                ELSE IF d \in rwait[s] THEN "access" ELSE pc[d]]
    /\ ReturnFrom(c)
    /\ UNCHANGED data

\* What a goroutine does by itself once it has made a call.
CallStep(c) ==
    \/ RLock(c) \/ LockDrained(c) \/ Access(c) \/ RUnlock(c) \/ Unlock(c)

ShardNext == \E c \in Callers : Invoke(c) \/ CallStep(c) \/ Lock(c)

ShardSpec == ShardInit /\ [][ShardNext]_shardVars

\* Goroutines inside a call are scheduled.  A sync.Mutex hands itself to the
\* goroutine that has waited too long, so a writer that finds it free again
\* and again gets it; no goroutine has to make a call.
ShardFairSpec ==
    /\ ShardSpec
    /\ \A c \in Callers : WF_shardVars(CallStep(c)) /\ SF_shardVars(Lock(c))

-----------------------------------------------------------------------------
\* Two goroutines are never in one shard's map at the same time unless both
\* only read: Go ends the process on a concurrent map read and map write.
\* Keys that hash alike share the map, so this is about shards, not keys.
NoMapRace ==
    \A c, d \in Callers :
      (c # d /\ pc[c] = "access" /\ pc[d] = "access" /\ My(c) = My(d))
        => Reads(c) /\ Reads(d)

\* The shards together are one linearizable map, whatever keys collide.
ImplementsAtomicStore == Store!StoreSpec

\* No call hangs: readers do not starve writers, nor writers readers.
CallsReturn == \A c \in Callers : (pc[c] # "idle") ~> (pc[c] = "idle")
=============================================================================

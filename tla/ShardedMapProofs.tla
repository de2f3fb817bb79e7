-------------------------- MODULE ShardedMapProofs --------------------------
(***************************************************************************)
(* The sharded map, for any keys, shards, routing and goroutines.  The     *)
(* invariant says that each lock and each program counter are two views of *)
(* one fact: who holds a shard's lock is who is past it in the code.  From *)
(* it follows that no two goroutines race on a shard's map, and that the   *)
(* access under the lock is the instant at which a call takes effect.      *)
(***************************************************************************)
EXTENDS ShardedMap, TLAPS

Stored == Values \cup {Absent}

\* A goroutine that is past its Lock or RLock.
Inside(c) == pc[c] \in {"access", "unlock"}

\* A goroutine is between two calls exactly when it has none, and has its
\* answer exactly from the access on.
CallInv ==
    \A c \in Callers :
      /\ pc[c] = "idle" <=> call[c] = Store!NoCall
      /\ pc[c] = "unlock" <=> reply[c] # Store!Pending

\* The holders of a read lock, the readers that wait for one, and the announced
\* writer of a shard are the goroutines that are at these points of a call.
ReadersInv ==
    \A s \in Shards, c \in Callers :
      c \in readers[s] <=> (Inside(c) /\ Reads(c) /\ My(c) = s)

WaitersInv ==
    \A s \in Shards, c \in Callers :
      c \in rwait[s] <=> (pc[c] = "wait" /\ Reads(c) /\ My(c) = s)

WriterInv ==
    \A s \in Shards, c \in Callers :
      writer[s] = c <=> ((pc[c] = "wait" \/ Inside(c)) /\ ~Reads(c) /\ My(c) = s)

\* A writer that is inside waited until the readers had left.
DrainedInv == \A c \in Callers : (Inside(c) /\ ~Reads(c)) => readers[My(c)] = {}

ShardInv ==
    /\ ShardTypeOK /\ CallInv
    /\ ReadersInv /\ WaitersInv /\ WriterInv /\ DrainedInv

-----------------------------------------------------------------------------
\* What is known of a call: it names a key, so it has a shard, and it is not
\* the absence of a call.
LEMMA CallFacts ==
    ASSUME NEW o \in Store!Calls
    PROVE  /\ o.op \in {"get", "set", "delete"}
           /\ o.key \in Keys
           /\ o.op = "set" => o.value \in Values
           /\ shardFor[o.key] \in Shards
           /\ o # Store!NoCall
  BY ShardForAssumption DEF Store!Calls, Store!NoCall

\* A call changes a map at its own key only, and what it leaves under a key
\* depends on what was there.
LEMMA AfterFacts ==
    ASSUME NEW o \in Store!Calls, NEW m \in [Keys -> Stored]
    PROVE  /\ Store!After(o, m) \in [Keys -> Stored]
           /\ \A k \in Keys : Store!After(o, m)[k] =
                               IF k # o.key \/ o.op = "get" THEN m[k]
                               ELSE IF o.op = "set" THEN o.value ELSE Absent
  <1>1. o.op \in {"get", "set", "delete"} /\ o.key \in Keys /\ (o.op = "set" => o.value \in Values)
    BY CallFacts
  <1>2. CASE o.op = "get"
    BY <1>2 DEF Store!After
  <1>3. CASE o.op = "set"
    BY <1>1, <1>3 DEF Store!After, Stored
  <1>4. CASE o.op = "delete"
    BY <1>1, <1>4 DEF Store!After, Stored
  <1> QED BY <1>1, <1>2, <1>3, <1>4

\* An answer is a value of the map, never the mark for an open call.
LEMMA AnswerFacts ==
    ASSUME NEW o \in Store!Calls, NEW m \in [Keys -> Stored]
    PROVE  Store!AnswerOf(o, m) \in [val : Values \cup {Absent}]
  BY CallFacts DEF Store!AnswerOf, Stored

\* An answer can be told from a missing one.
LEMMA PendingFacts == \A r \in [val : Values \cup {Absent}] : r # Store!Pending
  BY DEF Store!Pending

\* Where a goroutine in a call is.
LEMMA InCall ==
    ASSUME ShardInv, NEW c \in Callers, pc[c] # "idle"
    PROVE  call[c] \in Store!Calls /\ My(c) \in Shards
  BY CallFacts DEF ShardInv, ShardTypeOK, CallInv, My

-----------------------------------------------------------------------------
\* NewShardedMap starts with every lock free and nobody inside.
LEMMA ShardInitInv == ShardInit => ShardInv
  <1> SUFFICES ASSUME ShardInit PROVE ShardInv
    OBVIOUS
  <1>1. ShardTypeOK
    BY DEF ShardInit, ShardTypeOK
  <1>2. CallInv
    BY DEF ShardInit, CallInv
  <1>3. ReadersInv /\ WaitersInv /\ WriterInv /\ DrainedInv
    BY NoneAssumption DEF ShardInit, ReadersInv, WaitersInv, WriterInv, DrainedInv, Inside
  <1> QED BY <1>1, <1>2, <1>3 DEF ShardInv

\* A new call holds nothing yet.
LEMMA InvokeInv == ASSUME ShardInv, NEW c \in Callers, Invoke(c) PROVE ShardInv'
  <1> USE DEF Inside, Reads, My
  <1>1. PICK o \in Store!Calls : call' = [call EXCEPT ![c] = o]
    BY DEF Invoke
  <1>2. pc[c] = "idle" /\ Goto(c, "lock") /\ UNCHANGED <<data, lockVars, reply>>
    BY DEF Invoke
  <1>3. o # Store!NoCall
    BY CallFacts
  <1>4. ShardTypeOK'
    BY <1>1, <1>2 DEF ShardInv, ShardTypeOK, Goto, lockVars
  <1>5. CallInv'
    BY <1>1, <1>2, <1>3 DEF ShardInv, ShardTypeOK, CallInv, Goto
  <1>6. /\ \A d \in Callers : d # c => pc'[d] = pc[d] /\ call'[d] = call[d]
        /\ pc'[c] = "lock"
    BY <1>1, <1>2 DEF ShardInv, ShardTypeOK, Goto
  <1>7. ReadersInv' /\ WaitersInv' /\ WriterInv'
    BY <1>2, <1>6 DEF ShardInv, ReadersInv, WaitersInv, WriterInv, lockVars
  <1>8. DrainedInv'
    BY <1>2, <1>6 DEF ShardInv, DrainedInv, lockVars
  <1> QED BY <1>4, <1>5, <1>7, <1>8 DEF ShardInv

\* A reader goes in only while there is no writer, and waits otherwise.
LEMMA RLockInv == ASSUME ShardInv, NEW c \in Callers, RLock(c) PROVE ShardInv'
  <1> USE DEF Inside, Reads, My
  <1> DEFINE s == My(c)
  <1>1. pc[c] = "lock" /\ Reads(c) /\ UNCHANGED <<data, writer, call, reply>>
    BY DEF RLock
  <1>2. s \in Shards
    BY <1>1, InCall
  <1>3. CASE writer[s] = Free
    <2>1. /\ readers' = [readers EXCEPT ![s] = @ \cup {c}]
          /\ Goto(c, "access") /\ UNCHANGED rwait
      BY <1>3 DEF RLock
    <2>2. ShardTypeOK' /\ CallInv'
      BY <1>1, <1>2, <2>1 DEF ShardInv, ShardTypeOK, CallInv, Goto
    <2>3. /\ \A d \in Callers : d # c => pc'[d] = pc[d]
          /\ pc'[c] = "access"
      BY <2>1 DEF ShardInv, ShardTypeOK, Goto
    <2>4. ReadersInv' /\ WaitersInv' /\ WriterInv'
      BY <1>1, <1>2, <2>1, <2>3 DEF ShardInv, ShardTypeOK, ReadersInv, WaitersInv, WriterInv
    <2>5. DrainedInv'
      <3> SUFFICES ASSUME NEW d \in Callers, Inside(d)', ~Reads(d)' PROVE readers'[My(d)'] = {}
        BY DEF DrainedInv
      <3>1. Inside(d) /\ ~Reads(d) /\ My(d)' = My(d) /\ My(d) \in Shards
        BY <1>1, <2>3, InCall
      <3>2. My(d) # s
        BY <1>2, <1>3, <3>1, NoneAssumption DEF ShardInv, WriterInv
      <3> QED BY <2>1, <3>1, <3>2 DEF ShardInv, ShardTypeOK, DrainedInv
    <2> QED BY <2>2, <2>4, <2>5 DEF ShardInv
  <1>4. CASE writer[s] # Free
    <2>1. /\ rwait' = [rwait EXCEPT ![s] = @ \cup {c}]
          /\ Goto(c, "wait") /\ UNCHANGED readers
      BY <1>4 DEF RLock
    <2>2. ShardTypeOK' /\ CallInv'
      BY <1>1, <1>2, <2>1 DEF ShardInv, ShardTypeOK, CallInv, Goto
    <2>3. /\ \A d \in Callers : d # c => pc'[d] = pc[d]
          /\ pc'[c] = "wait"
      BY <2>1 DEF ShardInv, ShardTypeOK, Goto
    <2>4. ReadersInv' /\ WaitersInv' /\ WriterInv'
      BY <1>1, <1>2, <2>1, <2>3 DEF ShardInv, ShardTypeOK, ReadersInv, WaitersInv, WriterInv
    <2>5. DrainedInv'
      BY <1>1, <2>1, <2>3 DEF ShardInv, DrainedInv
    <2> QED BY <2>2, <2>4, <2>5 DEF ShardInv
  <1> QED BY <1>3, <1>4

\* One writer at a time is announced.
LEMMA LockInv == ASSUME ShardInv, NEW c \in Callers, Lock(c) PROVE ShardInv'
  <1> USE DEF Inside, Reads, My
  <1> DEFINE s == My(c)
  <1>1. /\ pc[c] = "lock" /\ ~Reads(c) /\ writer[s] = Free
        /\ writer' = [writer EXCEPT ![s] = c]
        /\ Goto(c, "wait") /\ UNCHANGED <<data, readers, rwait, call, reply>>
    BY DEF Lock
  <1>2. s \in Shards
    BY <1>1, InCall
  <1>3. ShardTypeOK' /\ CallInv'
    BY <1>1, <1>2 DEF ShardInv, ShardTypeOK, CallInv, Goto
  <1>4. /\ \A d \in Callers : d # c => pc'[d] = pc[d]
        /\ pc'[c] = "wait"
    BY <1>1 DEF ShardInv, ShardTypeOK, Goto
  <1>5. ReadersInv' /\ WaitersInv' /\ DrainedInv'
    BY <1>1, <1>4 DEF ShardInv, ReadersInv, WaitersInv, DrainedInv
  <1>6. WriterInv'
    BY <1>1, <1>2, <1>4, NoneAssumption DEF ShardInv, ShardTypeOK, WriterInv
  <1> QED BY <1>3, <1>5, <1>6 DEF ShardInv

\* The announced writer goes in when the last reader has left.
LEMMA LockDrainedInv == ASSUME ShardInv, NEW c \in Callers, LockDrained(c) PROVE ShardInv'
  <1> USE DEF Inside, Reads, My
  <1>1. /\ pc[c] = "wait" /\ ~Reads(c) /\ readers[My(c)] = {}
        /\ Goto(c, "access") /\ UNCHANGED <<data, lockVars, call, reply>>
    BY DEF LockDrained
  <1>2. ShardTypeOK' /\ CallInv'
    BY <1>1 DEF ShardInv, ShardTypeOK, CallInv, Goto, lockVars
  <1>3. /\ \A d \in Callers : d # c => pc'[d] = pc[d]
        /\ pc'[c] = "access"
    BY <1>1 DEF ShardInv, ShardTypeOK, Goto
  <1>4. ReadersInv' /\ WaitersInv' /\ WriterInv' /\ DrainedInv'
    BY <1>1, <1>3 DEF ShardInv, ReadersInv, WaitersInv, WriterInv, DrainedInv, lockVars
  <1> QED BY <1>2, <1>4 DEF ShardInv

\* The access gives the call its answer and moves no lock.
LEMMA AccessInv == ASSUME ShardInv, NEW c \in Callers, Access(c) PROVE ShardInv'
  <1> USE DEF Inside, Reads, My
  <1> DEFINE s == My(c)
  <1>1. /\ pc[c] = "access"
        /\ data' = [data EXCEPT ![s] = Store!After(call[c], data[s])]
        /\ reply' = [reply EXCEPT ![c] = Store!AnswerOf(call[c], data[s])]
        /\ Goto(c, "unlock") /\ UNCHANGED <<lockVars, call>>
    BY DEF Access
  <1>2. call[c] \in Store!Calls /\ s \in Shards
    BY <1>1, InCall
  <1>3. data[s] \in [Keys -> Stored]
    BY <1>2 DEF ShardInv, ShardTypeOK, Stored
  <1>4. Store!After(call[c], data[s]) \in [Keys -> Stored]
    BY <1>2, <1>3, AfterFacts
  <1>5. Store!AnswerOf(call[c], data[s]) \in [val : Values \cup {Absent}]
    BY <1>2, <1>3, AnswerFacts
  <1>6. ShardTypeOK'
    <2>1. data' \in [Shards -> [Keys -> Values \cup {Absent}]]
      BY <1>1, <1>2, <1>4 DEF ShardInv, ShardTypeOK, Stored
    <2>2. reply' \in [Callers -> {Store!Pending} \cup [val : Values \cup {Absent}]]
      BY <1>1, <1>5 DEF ShardInv, ShardTypeOK
    <2> QED BY <1>1, <2>1, <2>2 DEF ShardInv, ShardTypeOK, Goto, lockVars
  <1>7. /\ \A d \in Callers : d # c => pc'[d] = pc[d] /\ reply'[d] = reply[d]
        /\ pc'[c] = "unlock"
        /\ reply'[c] = Store!AnswerOf(call[c], data[s])
    BY <1>1 DEF ShardInv, ShardTypeOK, Goto
  <1>8. CallInv'
    BY <1>1, <1>5, <1>7, PendingFacts DEF ShardInv, CallInv
  <1>9. ReadersInv' /\ WaitersInv' /\ WriterInv' /\ DrainedInv'
    BY <1>1, <1>7 DEF ShardInv, ReadersInv, WaitersInv, WriterInv, DrainedInv, lockVars
  <1> QED BY <1>6, <1>8, <1>9 DEF ShardInv

\* A reader leaves.
LEMMA RUnlockInv == ASSUME ShardInv, NEW c \in Callers, RUnlock(c) PROVE ShardInv'
  <1> USE DEF Inside, Reads, My
  <1> DEFINE s == My(c)
  <1>1. /\ pc[c] = "unlock" /\ Reads(c)
        /\ readers' = [readers EXCEPT ![s] = @ \ {c}]
        /\ Goto(c, "idle") /\ ReturnFrom(c) /\ UNCHANGED <<data, writer, rwait>>
    BY DEF RUnlock
  <1>2. s \in Shards
    BY <1>1, InCall
  <1>3. ShardTypeOK' /\ CallInv'
    BY <1>1, <1>2 DEF ShardInv, ShardTypeOK, CallInv, Goto, ReturnFrom
  <1>4. /\ \A d \in Callers : d # c => pc'[d] = pc[d] /\ call'[d] = call[d]
        /\ pc'[c] = "idle"
    BY <1>1 DEF ShardInv, ShardTypeOK, Goto, ReturnFrom
  <1>5. ReadersInv' /\ WaitersInv' /\ WriterInv'
    BY <1>1, <1>2, <1>4 DEF ShardInv, ShardTypeOK, ReadersInv, WaitersInv, WriterInv
  <1>6. DrainedInv'
    BY <1>1, <1>2, <1>4, InCall DEF ShardInv, ShardTypeOK, DrainedInv
  <1> QED BY <1>3, <1>5, <1>6 DEF ShardInv

\* A writer leaves, and the readers that waited hold the lock.
LEMMA UnlockInv == ASSUME ShardInv, NEW c \in Callers, Unlock(c) PROVE ShardInv'
  <1> USE DEF Inside, Reads, My
  <1> DEFINE s == My(c)
  <1>1. /\ pc[c] = "unlock" /\ ~Reads(c)
        /\ writer' = [writer EXCEPT ![s] = Free]
        /\ readers' = [readers EXCEPT ![s] = rwait[s]]
        /\ rwait' = [rwait EXCEPT ![s] = {}]
        /\ pc' = [d \in Callers |-> IF d = c THEN "idle"
                                    ELSE IF d \in rwait[s] THEN "access" ELSE pc[d]]
        /\ ReturnFrom(c) /\ UNCHANGED data
    BY DEF Unlock
  <1>2. s \in Shards /\ writer[s] = c /\ readers[s] = {}
    BY <1>1, InCall DEF ShardInv, WriterInv, DrainedInv
  <1>3. \A d \in Callers : d \in rwait[s] <=> (pc[d] = "wait" /\ Reads(d) /\ My(d) = s)
    BY <1>2 DEF ShardInv, WaitersInv
  <1>4. /\ \A d \in Callers : d # c => call'[d] = call[d] /\ reply'[d] = reply[d]
        /\ call'[c] = Store!NoCall /\ reply'[c] = Store!Pending
    BY <1>1 DEF ShardInv, ShardTypeOK, ReturnFrom
  <1>5. ShardTypeOK'
    BY <1>1, <1>2 DEF ShardInv, ShardTypeOK, ReturnFrom
  <1>6. CallInv'
    BY <1>1, <1>3, <1>4 DEF ShardInv, CallInv
  <1>7. ReadersInv'
    BY <1>1, <1>2, <1>3, <1>4 DEF ShardInv, ShardTypeOK, ReadersInv
  <1>8. WaitersInv'
    BY <1>1, <1>2, <1>3, <1>4 DEF ShardInv, ShardTypeOK, WaitersInv
  <1>9. WriterInv'
    BY <1>1, <1>2, <1>3, <1>4, NoneAssumption DEF ShardInv, ShardTypeOK, WriterInv
  <1>10. DrainedInv'
    <2> SUFFICES ASSUME NEW d \in Callers, Inside(d)', ~Reads(d)' PROVE readers'[My(d)'] = {}
      BY DEF DrainedInv
    <2>1. d # c /\ Inside(d) /\ ~Reads(d) /\ My(d)' = My(d)
      BY <1>1, <1>3, <1>4
    <2>2. My(d) \in Shards /\ My(d) # s
      BY <1>2, <2>1, InCall DEF ShardInv, WriterInv
    <2> QED BY <1>1, <2>1, <2>2 DEF ShardInv, ShardTypeOK, DrainedInv
  <1> QED BY <1>5, <1>6, <1>7, <1>8, <1>9, <1>10 DEF ShardInv

\* Every step of a goroutine keeps the invariant.
LEMMA ShardNextInv == ShardInv /\ [ShardNext]_shardVars => ShardInv'
  <1> SUFFICES ASSUME ShardInv, [ShardNext]_shardVars PROVE ShardInv'
    OBVIOUS
  <1>1. CASE ShardNext
    BY <1>1, InvokeInv, RLockInv, LockInv, LockDrainedInv, AccessInv, RUnlockInv, UnlockInv
    DEF ShardNext, CallStep
  <1>2. CASE UNCHANGED shardVars
    BY <1>2 DEF shardVars, lockVars, ShardInv, ShardTypeOK, CallInv, ReadersInv, WaitersInv,
                WriterInv, DrainedInv, Inside, Reads, My
  <1> QED BY <1>1, <1>2

\* Locks and program counters agree, always (Get, Set and Delete, storage.go).
THEOREM ShardInvariant == ShardSpec => []ShardInv
  BY ShardInitInv, ShardNextInv, PTL DEF ShardSpec

\* The variables keep their types.
THEOREM ShardTypeCorrect == ShardSpec => []ShardTypeOK
  <1>1. ShardInv => ShardTypeOK
    BY DEF ShardInv
  <1> QED BY <1>1, ShardInvariant, PTL

\* No concurrent map read and map write in any shard (storage.go): two
\* goroutines at the access of one shard both only read.
THEOREM NoMapRaceHolds == ShardSpec => []NoMapRace
  <1>1. ShardInv => NoMapRace
    <2> SUFFICES ASSUME ShardInv, NEW c \in Callers, NEW d \in Callers, c # d,
                        pc[c] = "access", pc[d] = "access", My(c) = My(d)
                 PROVE  Reads(c) /\ Reads(d)
      BY DEF NoMapRace
    <2>1. My(c) \in Shards
      BY InCall
    <2>2. ASSUME ~Reads(c) PROVE FALSE
      BY <2>1, <2>2 DEF ShardInv, ReadersInv, WriterInv, DrainedInv, Inside
    <2>3. ASSUME ~Reads(d) PROVE FALSE
      BY <2>1, <2>3 DEF ShardInv, ReadersInv, WriterInv, DrainedInv, Inside
    <2> QED BY <2>2, <2>3
  <1> QED BY <1>1, ShardInvariant, PTL

-----------------------------------------------------------------------------
\* What the shards hold together: each key in its own shard.
Content == [k \in Keys |-> data[shardFor[k]][k]]

\* The access to one shard's map is the call on the whole content: no other
\* key of the shard changes, and no key of another shard.
LEMMA AccessIsEffect ==
    ASSUME ShardInv, NEW c \in Callers, Access(c)
    PROVE  /\ Content' = Store!After(call[c], Content)
           /\ reply' = [reply EXCEPT ![c] = Store!AnswerOf(call[c], Content)]
  <1> DEFINE s == My(c)
             o == call[c]
  <1>1. /\ pc[c] = "access"
        /\ data' = [data EXCEPT ![s] = Store!After(o, data[s])]
        /\ reply' = [reply EXCEPT ![c] = Store!AnswerOf(o, data[s])]
    BY DEF Access
  <1>2. o \in Store!Calls /\ s \in Shards /\ s = shardFor[o.key] /\ o.key \in Keys
    BY <1>1, InCall, CallFacts DEF My
  <1>3. \A k \in Keys : shardFor[k] \in Shards /\ data[shardFor[k]] \in [Keys -> Stored]
    BY ShardForAssumption DEF ShardInv, ShardTypeOK, Stored
  <1>4. Content \in [Keys -> Stored] /\ data[s] \in [Keys -> Stored]
    BY <1>2, <1>3 DEF Content
  <1>5. Content[o.key] = data[s][o.key]
    BY <1>2 DEF Content
  <1>6. Store!After(o, Content) \in [Keys -> Stored]
    BY <1>2, <1>4, AfterFacts
  <1>7. Content' = [k \in Keys |-> data'[shardFor[k]][k]]
    BY DEF Content
  <1>8. ASSUME NEW k \in Keys PROVE data'[shardFor[k]][k] = Store!After(o, Content)[k]
    <2>1. Store!After(o, Content)[k] = IF k # o.key \/ o.op = "get" THEN Content[k]
                                       ELSE IF o.op = "set" THEN o.value ELSE Absent
      BY <1>2, <1>4, AfterFacts
    <2>2. Store!After(o, data[s])[k] = IF k # o.key \/ o.op = "get" THEN data[s][k]
                                       ELSE IF o.op = "set" THEN o.value ELSE Absent
      BY <1>2, <1>4, AfterFacts
    <2>3. Content[k] = data[shardFor[k]][k]
      BY DEF Content
    <2>4. data'[shardFor[k]] = IF shardFor[k] = s THEN Store!After(o, data[s]) ELSE data[shardFor[k]]
      BY <1>1, <1>3 DEF ShardInv, ShardTypeOK
    <2> QED BY <1>2, <2>1, <2>2, <2>3, <2>4
  <1>9. Content' = Store!After(o, Content)
    BY <1>6, <1>7, <1>8
  <1>10. Store!AnswerOf(o, data[s]) = Store!AnswerOf(o, Content)
    BY <1>5 DEF Store!AnswerOf
  <1> QED BY <1>1, <1>9, <1>10

\* Every step of the sharded map is a step of the atomic store, or none.
LEMMA ShardStepRefines ==
    ASSUME ShardInv, [ShardNext]_shardVars
    PROVE  [Store!StoreNext]_(Store!storeVars)
  <1> USE DEF Store!storeVars
  <1>1. ASSUME NEW c \in Callers, Invoke(c) PROVE Store!Invoke(c)
    BY <1>1 DEF Invoke, Store!Invoke, ShardInv, CallInv
  <1>2. ASSUME NEW c \in Callers, RLock(c) \/ Lock(c) \/ LockDrained(c)
        PROVE  UNCHANGED Store!storeVars
    BY <1>2 DEF RLock, Lock, LockDrained
  <1>3. ASSUME NEW c \in Callers, Access(c) PROVE Store!TakeEffect(c)
    <2>1. pc[c] = "access" /\ UNCHANGED call
      BY <1>3 DEF Access
    <2>2. call[c] # Store!NoCall /\ reply[c] = Store!Pending
      BY <2>1 DEF ShardInv, CallInv
    <2> QED BY <1>3, <2>1, <2>2, AccessIsEffect DEF Store!TakeEffect, Content
  <1>4. ASSUME NEW c \in Callers, RUnlock(c) \/ Unlock(c) PROVE Store!Return(c)
    <2>1. pc[c] = "unlock" /\ ReturnFrom(c) /\ UNCHANGED data
      BY <1>4 DEF RUnlock, Unlock
    <2>2. reply[c] # Store!Pending
      BY <2>1 DEF ShardInv, CallInv
    <2> QED BY <2>1, <2>2 DEF Store!Return, ReturnFrom
  <1>5. CASE UNCHANGED shardVars
    BY <1>5 DEF shardVars
  <1>6. CASE ShardNext
    BY <1>1, <1>2, <1>3, <1>4, <1>6 DEF ShardNext, CallStep, Store!StoreNext
  <1> QED BY <1>5, <1>6

\* The sharded map implements the atomic store, for any routing of any keys:
\* Get, Set and Delete (storage.go) are linearizable.
THEOREM ShardedMapIsAtomic == ShardSpec => ImplementsAtomicStore
  <1>1. ShardInit => Store!StoreInit
    <2> SUFFICES ASSUME ShardInit PROVE Store!StoreInit
      OBVIOUS
    <2>1. [k \in Keys |-> data[shardFor[k]][k]] = [k \in Keys |-> Absent]
      BY ShardForAssumption DEF ShardInit
    <2> QED BY <2>1 DEF ShardInit, Store!StoreInit
  <1>2. ShardInv /\ [ShardNext]_shardVars => [Store!StoreNext]_(Store!storeVars)
    BY ShardStepRefines
  <1> QED BY <1>1, <1>2, ShardInvariant, PTL DEF ShardSpec, ImplementsAtomicStore, Store!StoreSpec
=============================================================================

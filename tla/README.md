# Khaos in TLA+

Khaos executes batches of READ / WRITE / DELETE operations out of order on a
pool of goroutines and returns the results in submission order. This directory
models that engine, its storage, the HTTP handler and the process around it, and
the two clients in front of it; checks the models with TLC; and proves with
TLAPS every safety property that the passing runs check, for all values of the
constants: of each component, of their composition (which implements an abstract
batch and computes what sequential execution computes), of the sharded map (which
implements an atomic one), of the process and of both clients.

## 1. The system

| Part | Source | State it keeps | Operations | What makes it correct |
|---|---|---|---|---|
| Operations, DAG node | `types.go` | operation, fan-out list, atomic in-degree, `done` channel | `AddDependency`, `Release`, `Done` | counter = number of unreleased in-edges; `done` closed once |
| Hazard resolver | `hazard.go` | `lastWrite`, `lastReads` (local to the call) | `Build` | the graph is exactly the RAW/WAR/WAW relation; runnable list grounds it |
| Worker pool | `workerpool.go` | dispatch channel, `remaining` | `Run`, worker loop | each node once and after its predecessors; no panic, no blocked send, `Run` returns |
| Reorder buffer | `reorder.go` | `pending`, `nextExpected`, `flushed`, mutex | `Drain`, `Commit` | SeqID order; while the context lasts, close means complete; no commit hangs |
| In-memory storage | `storage.go` | 256 shards, each a map and an `RWMutex` | `Get`, `Set`, `Delete` | together one linearizable map; no concurrent access to a Go map; every call returns |
| PostgreSQL storage | `postgres_storage.go` | three prepared statements | `NewPostgresStorageEngine`, `Get`, `Set`, `Delete`, `Close` | a call takes effect atomically, or fails; no statement is left open or closed under a request |
| Gateway handler | `server.go` | one context per request | `translateRequest`, `handleBatch` | a 200 means a complete, sequentially explainable batch; every request ends |
| PHP dispatcher | `php/KhaosDispatcher.php` | buffer of pings | `addRiderUpdate`, `dispatchBatch` | a ping that leaves the buffer was written; the newest ping wins |
| Server lifecycle | `server.go` | HTTP server, `serveErrCh` | `NewServer`, `Run`, `Shutdown` | a signal ends the process; exit status 0 means a clean end; shutting down does not show in answers |
| API process | `api/main.go` | DB handle, signal context | `loadConfig`, `waitForDB`, `run` | it comes to serve or ends |
| Load simulator | `cmd/simulator/main.go` | counters | `runClient`, `recordStatus`, `printReport` | its exit status can be trusted as a gate |

How they interact. `handleBatch` decodes and translates the body, calls
`Build` (single-threaded), creates a reorder buffer and calls `Drain`, starts a
goroutine that calls `Run`, and reads the buffer's unbuffered channel until it
is closed or the context ends. Workers share the dispatch channel, the atomic
counters of the nodes, `remaining`, the store and the buffer's mutex. `Commit`
*sends to the handler while it holds that mutex*. One context, with the batch
timeout, is watched by the handler, by every worker between two nodes, by every
storage call when it starts and by a blocked send in `Commit`; nothing watches
it anywhere else.

Around this, `run` waits for the database, prepares three statements, starts a
goroutine in `ListenAndServe` and waits for a signal or for that goroutine.
`Shutdown` waits for the handlers - not for the workers a timed-out handler left
behind - and closes the statements, each of which waits for the calls inside it.
Deferred calls then undo the signal handling and close the database.

The hard parts are therefore: decrements of one counter by several workers; a
channel whose receivers are also its senders, closed by one of them; a send
under a lock; cancellation that reaches each goroutine at a different point; a
storage call that started before the context ended and takes effect after it;
and, on the client's side, retries that overlap a request the gateway has not
finished with. In the process: a signal at any point between `main` and the
exit; statements and a database that are closed while something may still use
them; a grace period that handlers may outlast. `PROJECT.json` lists them under `hazards`, each at its line.

## 2. The modules

| Module | Models | Notes |
|---|---|---|
| `Operations` | operation types, batches, `Conflict`, `DirectHazard` | the hazard relation is defined from the operations alone and is the reference for `Build` |
| `DAG` | fan-out lists, `reachableNodes`, `IsGraph` | BFS as "smallest closed set containing the roots" |
| `HazardResolver` | `Build` | one action per loop iteration: `BuildRead`, `BuildMutation`, `BuildReject`, `BuildCollect`, `BuildReturn` |
| `WorkerPool` | `Run`, the worker loop, `Release` | one action per shared access: receive, decrement, close `done`, send, decrement `remaining`, close |
| `ReorderBuffer` | `Drain`, `Commit`, consumer | `Commit` is two kinds of step: lock-and-buffer up to a blocking send, and the end of that send |
| `Storage` | effect and answer of a storage call, `simulateSequentially` | the value written by position *i* is *i* |
| `SerialBatch` | **abstract specification** of a batch | operations take effect atomically, after the earlier ones they conflict with |
| `BatchEngine` | `handleBatch` from `Build` to the response | INSTANCEs the resolver, the pool and the buffer over shared variables and adds storage, handler and context |
| `Gateway` | decode, `translateRequest`, `parseOperationType` | what reaches `Build` |
| `Dispatcher` | the PHP client against a gateway reduced to what `BatchEngine` establishes | retries, lost answers, abandoned requests |
| `AtomicStore` | **abstract specification** of an in-memory store | a call takes effect at one instant between invocation and return |
| `ShardedMap` | `Get`, `Set`, `Delete` over shards and locks | one action per lock operation and map access; Go's `RWMutex` with its announced writer |
| `FNV1a` | the hash and the shard mask | a `uint32` as four bytes |
| `Config` | environment variables and `NewServer`'s defaults | operators |
| `ServerLifecycle` | the process from `main` to its exit, `ListenAndServe`, handlers, left-over workers | one action per step of `run`; `net/http` and `database/sql` are external |
| `Simulator` | the load simulator | clients, counters, report, exit status; `buildBatch`, `percentiles` as operators |
| `Deployment` | simulator and API process together | connections refused and cut, client timeouts, answers of a process that has ended |
| `DAGProofs` | lemmas on sequences, fan-out lists and naturals | shared by the modules below |
| `HazardResolverProofs`, `WorkerPoolProofs`, `ReorderBufferProofs` | theorems about the three components of the engine | section 4 |
| `BatchEngineProofs` | theorems about their composition | INSTANCEs the three modules above and uses their lemmas |
| `ShardedMapProofs`, `DeploymentProofs` | theorems about the in-memory store, and about the process and the simulator | section 4 |
| `RequestProofs` | theorems about a request at its two ends: `Gateway` and `Dispatcher` | section 4 |
| `MC*` | instances for TLC | batches, graphs and bodies as sets; symmetry |

Composition: `BatchEngine` uses the actions of `HazardResolver`, `WorkerPool`
and `ReorderBuffer` unchanged. `P!Execute` is refined into the storage steps
(`StorageRefuse`, `StorageEnter`, `StorageAccess`, `StorageFault`), and
`P!CommitReturns` happens with the step in which the buffer's `Commit` returns.
`pool.Run` is called with the graph `Build` returned; `IsGraph` is what the pool
assumes of it and what theorem `BuildReturnsGraph` proves of it. `BatchEngine` treats a storage call as a
context check and one atomic access; `ShardedMap` shows that the shards and
locks provide that: nobody else is at a shard's map during an access
(`NoMapRace`, which catches a missing or a wrong lock), so that one step may stand
for it, and the access reads or changes the row of its own key alone, at an instant
between call and return (`ImplementsAtomicStore`). `ServerLifecycle` reduces a
batch to its storage calls and keeps from `BatchEngine` when a handler may answer
what: 200 only after `Run` has returned with a live context, 504 at once, leaving
the workers to themselves. `Deployment` joins a client's step with the server's
where they meet.

Definitions whose comment starts with "Mutant" are faulty variants of the
definition that follows. They are not part of any specification: substituting
one for the correct definition must make a given property fail, which shows
that the property says something about that code (`PROJECT.json`, `mutants`).

What is abstracted. Keys are only compared, so they are model values. Values
are positions. A node is its position. Slices that are only ranged over are
sets where order cannot matter (`lastReads`). The steps of `Build` read and
write local state only. Log lines, messages and JSON layout are left out.
`ExecutionState` is left out because the code never changes it after
`NewDAGNode`.

## 3. The runs

Passing runs:

- **hazard_build** - every batch of at most 5 operations (`MaxLen`) on 2 keys
  with dense SeqIDs, and every batch of at most 2 (`MaxBadLen`) with arbitrary
  SeqIDs and an unknown type. Five operations are enough for two writes with
  several reads before, between and after them, and two keys for the maps to be
  confused. `BuildIsExact` is checked at every iteration. `EdgesLinear` is the
  comment "never O(N^2)" with its exact constant: one edge per mutation, two
  per read.
- **worker_pool** - 3 workers, every graph with forward edges on at most 4
  nodes (`MaxNodes`), which includes diamonds, chains, fans and isolated nodes,
  with cancellation at any point. Two predecessors released by two workers
  while a third holds the dependent need exactly this size.
- **reorder_buffer** - 3 committers, batch sizes 0 to 5, any commit order,
  cancellation at any point. `ClosedMeansComplete` speaks of a live context only:
  of a cancelled one the interface says something else (see the observations), and
  what is delivered then is bounded by `InOrder` and `AtMostOneLost`.
  `CommitReturns` is about the commit that has the lock; that those waiting for it
  return too is `NoLeak` of engine_faults.
- **engine** - everything together with the in-memory store: all batches of at
  most 3 operations on 2 keys and of at most 4 on one key, 2 workers (as a
  symmetry set; all properties of this run are safety properties). The context
  may end after `Build`. `OkIsSequential` and `SuccessIsSequential` compare with
  `simulateSequentially`, the reference of the repository's integration test;
  `ImplementsSerialBatch` is the refinement.
- **engine_faults** - the same with a store whose calls may fail with or without
  effect, and with the liveness properties; no symmetry here. For PostgreSQL this
  presumes canonical rider IDs (section 5).
- **dispatcher** - 2 riders, 3 pings, 3 requests, a body limit of 2 items, so
  that a batch can have two pings of one rider, be retried twice, and outgrow
  the limit.
- **gateway** - all bodies of at most 2 items over every field the code looks
  at, and 3 items over seq_id and type.

- **sharded_map** - three goroutines that call for ever, so nothing but the sets
  is bounded: keys "24" and "51", which the hash sends to one shard, and "1" in
  another; one value and its absence. Three goroutines are what it takes to have
  a reader inside, a writer announced and a reader behind it. `NoMapRace` is about
  shards, not keys. The hash is checked against published vectors, and the routing
  of the instance against the hash.
- **deployment** - two clients, batches of 2 operations, the process from `main`
  to its exit. Failures of every step of the startup, signals before, during and
  after `NotifyContext`, a listener that never opens or breaks, the grace period,
  errors of `Close`, clients that time out, batches that do. Two requests are
  needed for one to be abandoned with a worker inside a statement while another is
  active. The ASSUMEs of `MCDeployment` check `buildBatch`, `percentiles` and the
  settings: the pool always gets a worker; with the default timeouts a handler may
  outlast the grace period.

Runs that are expected to fail. Each states what a comment or document of the
repository says and shows what the code does instead:

- **dependents_fail** - `types.go:108-111` says an error marks the dependents as
  failed. They run and succeed.
- **lost_ping** - `README.md:86-90` promises at-least-once delivery. A 200 whose
  items carry errors clears the buffer. `DropsOnlyReported` is the guarantee
  that is left: a ping that is dropped unwritten was reported as failed in the
  very answer that dropped it.
- **stale_ping** - `README.md:92` concludes "effectively-once behavior". If a
  retry overlaps the abandoned request, an old upsert may come last.
  `NewestWinsWithoutOverlap` shows that the overlap is the only cause.

Observations that are not runs:

- When the deadline passes after the last result was delivered but before `Run`
  returns, a complete batch is answered with 500.
- `interfaces.go:69-71` says that the channel of `Drain` is closed "once `total`
  operations have been drained, or immediately if ctx is cancelled first". The first
  half is `ClosedMeansComplete`. For the second there is no code: when the context
  ends, `Commit` returns (`reorder.go:75`) and nobody closes the channel. The
  handler does not depend on the promise, it watches the context itself
  (`HandlerReturns`), and `AllDelivered` asks for the close only while the context
  lasts.
- `types.go:174-175` says a dependent waits for its predecessors to commit. It
  waits for their counters, and `Release` decrements those before it closes
  `done`. What holds, and what the results need, is `DependencyOrder`: the
  predecessors have been *executed*.
- `storage.go:82-85` says `Get` does not block with `Set` and `Delete` on different
  keys. It does when the keys share a shard (`RLock` behind an announced writer);
  `CallsReturn` bounds the harm.
- The "missing seq_id" error of `translateRequest` cannot occur
  (`MissingIsUnreachable`).
- A `NAN` coordinate passes the comparisons of `addRiderUpdate`, makes
  `json_encode` throw, and stays in the buffer; so does a buffer that has outgrown
  the body limit. In both cases no later dispatch can succeed.
- `Run` returns nil for `http.ErrServerClosed` out of its select. Nobody else calls
  `Shutdown`, so that branch is never taken.
- After a forced shutdown or a failed listener, `db.Close` runs with handlers
  active: a batch may still be answered with 200 whose items say "database is
  closed". `AnswersUntouched` shows that these are the only two ways.
- The wait in `Stmt.Close` has no deadline: `SignalEnds` needs that the driver ends
  a call whose context has ended.
- The simulator counts a 200 without looking at its items, so that its gate passes
  when every write failed in the database; and its report says nothing at all
  when the only failures were 4xx.

Fairness. With one exception every fairness assumption is weak fairness of a
goroutine that is inside the code: the Go scheduler runs a runnable goroutine, and `net/http` and
the storage drivers return from their calls. A `select` with several ready
cases is a disjunction under one fairness condition, so no case is guaranteed
to be taken. Nothing makes a context end: liveness holds for batches that are
never cancelled as well. `sync.Mutex` needs weak fairness only, because the
properties ask that a commit that has the lock returns, and that all work is
done eventually, not that a given goroutine gets the lock while others keep
taking it. `ShardedMap` does ask that: there `Lock` is strongly fair, which is
what the starvation mode of `sync.Mutex`, the inner lock of an `RWMutex`, gives a
goroutine that has waited for a millisecond. In `ServerLifecycle` timeouts pass
(the deadline of `waitForDB`, the batch timeout; the read timeout bounds the
decoding), and a database call returns; no request, signal, operation or step of
a client is assumed to happen. `Dispatcher` and `Gateway` have safety properties
only.

Deadlock is checked in every run; the `*Done`, `*Quiet` and `*Rest` actions are
the states in which there is nothing left to do.

## 4. The proofs

Every theorem holds for all values of the constants that satisfy the named
assumptions: every batch, every number of workers or committers, every graph,
every request body, any number of goroutines, requests, clients and pings. Each
module has the same shape: an inductive invariant, the lemma that it holds
initially, one lemma per action or per group of actions that differ in nothing
the invariant sees, and the theorems that follow from it. Each inductive invariant
was also checked with TLC, on the instance of its run or a smaller one. The specifications in the theorems need no fairness; where a run's specification
adds some, it implies the one of the theorem.

**`HazardResolverProofs`** (assumes `BatchesAssumption`: a batch is a slice)

| Theorem | States |
|---|---|
| `HazardTypeCorrect` | `[]HazardTypeOK` |
| `BuildExact` | `[]BuildIsExact` - the graph is the hazard relation, at every iteration |
| `InDegreeExact` | `[]InDegreeCountsEdges` |
| `ConflictsAlwaysOrdered` | `[]ConflictsOrdered` - conflicting operations are connected by a path |
| `RunnableAlwaysGrounds` | `[]RunnableGroundsDAG` |
| `BuildAcceptsExactly` | `[]AcceptsExactly` |
| `EdgesAlwaysLinear` | `[]EdgesLinear` - at most one edge per operation and one more per read |
| `BuildReturnsGraph` | what is returned satisfies `IsGraph`, with in-degrees that count the edges |

`BuildIsExact` alone is not inductive, because it says nothing of the two maps
that produce the next edges. `HazardInv` adds what they contain: `lastWrite[k]`
is the greatest position before `pos` that mutates `k`, and `lastReads[k]` is the
set of reads of `k` after it. With that, the edges added at `pos` are exactly
the direct hazards that end there. The path theorem needs no induction over
data: if some closed set contained a position but not a later one that
conflicts with it, take such a pair at minimal distance (`LeastNatural`); no
write of the key stands between them, so there is an edge. Nor does the number
of edges: an edge that starts at a write is determined by its end, one that
starts at a read by its start, so that each kind injects into the positions it is
counted by (`FS_Injection`).

**`WorkerPoolProofs`** (assumes `WorkersAssumption`: finitely many workers, at
least one; `GraphsAssumption`: `Run` gets a graph as in `IsGraph`, which
`BuildReturnsGraph` discharges)

| Theorem | States |
|---|---|
| `PoolTypeCorrect` | `[]PoolTypeOK` - the atomic counters never go below zero |
| `PoolNeverPanics` | `[]NoPanic` |
| `SendsNeverBlock` | `[]SendNeverBlocks` |
| `DependenciesRespected` | `[]DependencyOrder` |
| `ClosedMeansAllDone` | `[]CloseMeansDone` |
| `ReturnIsComplete` | `[]ReturnMeansDone` |
| `NoDoubleExecution` | `ExecutedOnce` (an action property) |

`PoolInv` follows a node through the pool. `CounterInv`: `inDegree[n]` is the
number of edges into `n` that no `Release` has counted down, counting the part
of its list that a worker inside `Release` has already gone through. `ActiveInv`:
the counter is zero exactly when `n` has left the waiting state; and by
`HeldInv`, `QueueInv`, `NewInv` and `ExecInv` it is then in one place only: one
worker's `newlyRunnable`, the channel, one worker's hands, or finished. So only
the worker that brings the counter to zero ever queues `n`; the channel holds
each node once and never the one about to be sent, hence has room for it
(`DistinctLength` and the cardinality theorems). `CountInv` ties `remaining` to
the unfinished nodes: a worker that still holds one keeps it above zero, so that
the channel cannot be closed under a sender, nor twice.

**`ReorderBufferProofs`** (assumes `TotalsAssumption`, sizes are naturals, and
`FreeAssumption`, the value of an unlocked mutex is no goroutine)

| Theorem | States |
|---|---|
| `RobTypeCorrect` | `[]RobTypeOK` |
| `DeliveryInOrder` | `[]InOrder` |
| `CloseIsComplete` | `[]ClosedMeansComplete` - while the context lasts, closed exactly when everything was received |
| `CommitsExclude` | `[]CommitExclusive` |
| `LossIsBounded` | `[]AtMostOneLost` |
| `HeadNeverStranded` | `[]NoStrandedHead` |

`RobInv` says where a committed operation is: received when it is before
`nextExpected`, pending when it is after, and at `nextExpected` in the hands of
the one sender, or dropped by a cancelled send. The three counts of what was
delivered (`nextExpected`, `flushed`, the consumer's) agree.

**`BatchEngineProofs`** (assumes `BatchesAssumption`; `WorkersAssumption`:
finitely many workers, at least one, none of them the value of an unlocked mutex;
`NonEmptyAssumption`: `handleBatch` answers an empty batch before `Build`, which is
in `Gateway`; `StoreAssumption`, `FaultsAssumption`: types)

| Theorem | States |
|---|---|
| `EngineInvariant`, `EngineTypeCorrect` | `[]EngineInv`, `[]EngineTypeOK` |
| `EngineIsSerial` | `ImplementsSerialBatch` - the engine implements `SerialBatch`, with or without faults |
| `CopiesStayFinal` | `CopiesAreFinal` (an action property) |
| `SuccessesAreSequential` | `[]OkIsSequential`, when `Faults = FALSE` |
| `SuccessResponseIsSequential` | `[]SuccessIsSequential`, when `Faults = FALSE` |

`Faults = FALSE` is the in-memory store; with a store that may fail after the
effect the two statements are false, and `SerialBatch` is what holds.

The module instantiates the proof modules of the three components over the
engine's variables. Every step of the engine is a step of the pool, of the buffer,
of both, or of neither, so their lemmas carry `PoolInv` and `RobInv` over
(`LaunchedInv`); before the launch `HazardInv` holds (`BuildingInv`), and at the
launch `GraphLemma` turns it into what the pool assumes: no assumption on graphs is
left (`Graphs <- {}`). `EngineInv` adds what relates them: an operation has an
outcome exactly when its node is executed (`OutcomeInv`), it is committed once and
by the worker that executed and released it (`CommittedInv`), and the handler's
view of the channel and of `Run` agrees with both (`HandlerInv`).

*Refinement.* The abstract batch is read off the engine's own `batch`, `store` and
`outcome`. A storage step is one atomic operation, for which the abstract
specification asks that the earlier conflicting operations have outcomes. That is
`EarlierConflictsExecuted`: predecessors of executed nodes are executed, so the
nodes that are neither executed nor the one at hand are closed under the fan-out
lists; an earlier conflicting operation among them would have a path to the node at
hand (`ConflictsOrdered`) that never leaves the set. All other steps are stutters.

*Sequential execution.* `SequentialInv` says that an operation that succeeded, or
that the store has let in, comes after conflicting operations that all succeeded
(`PrefixInv`: the context, once ended, stays so), that its answer is the sequential
one (`AnswerInv`), and that a row holds the sequential value after its latest
successful write (`StoreInv`). `simulateSequentially` is a recursive function. That
it has a value at all, and that it does not change a row between two writes of it,
is induction over the batch; the proofs take a least counterexample instead
(`LeastNatural` in `SimulationExists`, `SequentialType`, `SequentialFrame`).

**`ShardedMapProofs`** (assumes `ShardForAssumption`: every key has a shard, by any
function; `NoneAssumption`: absence is no value, an unlocked mutex no goroutine)

| Theorem | States |
|---|---|
| `ShardInvariant`, `ShardTypeCorrect` | `[]ShardInv`, `[]ShardTypeOK` |
| `NoMapRaceHolds` | `[]NoMapRace` |
| `ShardedMapIsAtomic` | `ImplementsAtomicStore` - `Get`, `Set` and `Delete` are linearizable |

`ShardInv`: the state of each lock and the program counters are two views of one
fact; who is recorded as reader, waiting reader or writer of a shard is who is at
that point of a call that is routed there, and a writer that is inside has waited
for the readers to leave. For the refinement the abstract store is the union of
the shards' maps, and the access under the lock is the instant of the call.

**`DeploymentProofs`** (assumes `ConcurrencyAssumption`: finitely many clients;
`ClientsAssumption`: each sends one request; `MaxCallsAssumption`)

| Theorem | States |
|---|---|
| `DeploymentInvariant`, `DeploymentTypeCorrect` | `[]DeploymentInv`, `[]DeploymentTypeOK` - the simulator's counters included |
| `CleanExitHolds` | `[]CleanExit` |
| `AnswersUntouchedHolds` | `[]AnswersUntouched` |
| `ReportAccountsHolds` | `[]ReportAccounts` |
| `GateIsSoundHolds` | `[]GateIsSound` |

`ServerInv` follows `run` through its phases: what each of them implies for the
listener (`PhaseInv`), for the three statements (`StmtInv`), for the database
(`DBInv`) and for every request (`RequestInv`: a handler is active only before the
drain, unless the grace period was exceeded or the listener failed; a worker is
only inside an open statement). `SimInv` ties each counter to the set of clients it
counts; `success` is at most the number of clients that the server has answered
with 200, so that the gate, which compares it with the number of clients, implies
that all were.

**`RequestProofs`** (assumes `BodiesAssumption`, a body is a slice of items,
`NoRiderAssumption`, the empty rider ID is no key, and `DispatcherAssumption`, the
bounds are naturals)

| Theorem | States |
|---|---|
| `GatewayTypeCorrect` | `[]GatewayTypeOK` - no index out of range |
| `NoMissingSeqID` | `[]MissingIsUnreachable` |
| `TranslationAccepted` | `[]TranslatedIsAccepted` - `Build` accepts what is handed to it |
| `TranslationPermutes` | `[]TranslationIsPermutation` |
| `TranslationExact` | `[]TranslationIsExact` - both |
| `DispatcherInvariant`, `DispatcherTypeCorrect` | `[]DispatcherInv`, `[]DispatcherTypeOK` - buffer, requests and rows name pings of the history |
| `DropsAreReported` | `[]DropsOnlyReported` |
| `NewestWins` | `[]NewestWinsWithoutOverlap` |

`GatewayInv` counts: after `idx` items, `idx` distinct positions are taken, so
that after the last one all are, and the second loop finds no gap.

`DispatcherInv`: the buffer is the end of the history of pings (`BufferInv`); the
client waits for the answer to exactly what it has in the buffer, and items of the
last request that are still to be executed are still in it (`SentInv`); an executed
item and a 200 are never taken back (`Grows`). That gives `DropsOnlyReported`. For
the newest ping: without overlap only the last request can write (`OnlyLastInv`);
within it a rider's row is its last item written (`LastWrittenInv`), since items of
one rider are executed in order; and a rider without a ping in the buffer has its
newest ping in its row (`ConfirmedInv`), which holds at rest and between retries,
where `NewestWinsWithoutOverlap` itself says nothing and so is not inductive.

Only model-checked, because fairness and `ENABLED` are out of the prover's reach:
the liveness properties `RunReturns`, `CommitReturns`, `AllDelivered`,
`HandlerReturns`, `NoLeak`, `CallsReturn`, `SignalEnds` and `StartsOrExits`, and the
absence of deadlock. What the hash, `buildBatch`, `percentiles` and the settings
compute is checked by the ASSUMEs of `MCShardedMap` and `MCDeployment` on sample
inputs. The three runs that end in a violation are about single behaviours and
have nothing to prove.

## 5. Not modelled

- `dsn()`, the limits of the connection pool and SQL text: no property depends on
  them.
- Column conversions. The models identify a key with its row. `Build` compares
  rider IDs as strings (`hazard.go:74-86`), the in-memory store does the same, but
  `rider_id` is a UUID column (`schema.sql:2`), and PostgreSQL accepts several
  spellings of one UUID (upper case, braces, no hyphens). Two spellings in one batch
  get no edge and yet hit one row. Nothing in `translateRequest` or
  `addRiderUpdate` normalises them. So `ImplementsSerialBatch` with faults and
  `NewestWinsWithoutOverlap` hold against PostgreSQL only when each rider ID is
  always spelled the same way; against the in-memory store there is no such
  condition.
- The 400 for an error of `Build` (`server.go:200-203`) is no action of
  `BatchEngine`: `Gateway` hands over only what `Build` accepts
  (`TranslationIsExact`, `AcceptsExactly`), so the handler never takes it.
- `net/http`, `database/sql` and `sync` are modelled by what the code relies on.
  `DB.Close` is taken not to wait for calls in progress. A request on a kept-alive
  connection is a new request; the write timeout is left out.
- The workers of one batch in `ServerLifecycle`: one call at a time per batch.
  Their concurrency is in `BatchEngine`.
- `ExecutionState`, its `String` methods and `SetState`: never used for a decision,
  and never written after `NewDAGNode`.
- Two batches of `BatchEngine` at once. They share only the store; the order
  between them is left open by the code. `Dispatcher` has the case that matters.

## 6. Plan

1. Done: all components, their composition and both refinements, modelled and
   checked; every safety property of the passing runs proved.
2. Open: the safety half of the liveness properties. For each of them, that in
   every reachable state in which the promised event has not happened some step
   of a goroutine that is assumed fair is possible, and that each such step
   lowers a measure (nodes not executed, results not delivered). TLC checks the
   properties themselves; the prover could do these two halves for every batch
   and every number of workers, without fairness.

# A TLA+ verification of Sink

Sink puts one gRPC data API in front of MongoDB, Elasticsearch and OpenSearch.
It batches concurrent requests, bounds the memory of the process, folds several
writes of a document into one conditional commit, merges documents with Lua
programs, and can accept writes into Kafka and apply them later. This directory
models the parts of the implementation whose correctness depends on concurrency,
failures, retries and limits. TLC checks the models on small instances; TLAPS
proves theorems about six of them for every instance.

`PROJECT.json` lists the components, the runs, the source lines behind every
definition (`map`), a mutant for every property, the hazards and the theorems.
Paths below are relative to `src/internal`.

## The system and its parts

A synchronous request takes this path: gateway (route by store, resolve and
connect, split over engines) → engine (identity check) → protocol layer (request
memory) → batcher → server (admission, grouping, Lua merges, commit with retries)
→ storage adapter. A write that returns after acceptance goes from the server to
the Kafka publisher; the worker consumes it, orders it by key and applies it
through the same server. Around this are the configuration, the topics of a store,
the life of a process and its command line.

| Part | Code | Modules |
|---|---|---|
| Process memory pool | `capacity/pool.go` | CapacityPool, CapacityPoolProofs |
| Memory of an RPC | `capacity/scope.go`, `protocol` | RpcMemory |
| Request batcher | `service/batcher.go` | RequestBatcher, RecordQueue (abstract), RequestBatcherInvariant, RequestBatcherProofs, BatchContexts |
| Batched mutations | `service/batching_server.go`, `mutation_batches.go` | MutationBatches, LuaPrograms |
| Document writes | `service/write*.go`, `storage/memory` | DocumentWrites, AtomicRecords (abstract), WriteReturns |
| Reads and queries | `service/read.go`, `query.go` | ReadBatches, QueryPages |
| Native commands | `service/native.go`, `storage/mongodb/native*.go` | NativeWrites |
| Admission | `service/admission*.go`, `reservation.go` | Admission |
| MongoDB adapter | `storage/mongodb` | MongoWrites, MongoScan, QueryPages |
| Search adapter | `storage/search` | SearchWrites, SearchScan, QueryPages |
| Scan cursors | `storage/scan.go` | ScanPages |
| Lua engine and libraries | `merge` | LuaEngine, LuaBridge, LuaPatterns, LuaSubstitutions, LuaTables, LuaSort, SinkArrays |
| Gateway, engine, forwarding | `gateway`, `engine`, `forwarding` | GatewayRouting, GatewayConnections, DnsRefresh, ForwardStream |
| Publication, dead-letter replay | `service/publish.go`, `queue` | AsyncPublish |
| Kafka topics | `queue/kafka/topics.go`, `topic_manager.go` | KafkaTopics |
| Kafka worker and processor | `queue/kafka/worker.go`, `worker` | KafkaWorker, KafkaWorkerProofs |
| Process life | `app` | AppLifecycle |
| Configuration, memory detection | `config`, `capacity/detect.go`, constructors | Configuration |
| Offline test of Lua programs | `cmd/sink/lua_*.go` | LuaCommand |
| Logging and metrics | `logging`, `metrics` | not modelled: nothing in the system reads them |

## How the modules correspond to the code

Every module starts with a comment that says what it stands for, and `PROJECT.json`
gives the lines of each definition. The conventions are the same everywhere:

* One variable per piece of state that outlives a step. An action is a whole
  critical section, callback, or stretch of a goroutine between two points where
  others can run: a lock, a channel, a call to another process.
* Inputs, external answers, losses and cancellations are choices. A refusal of
  memory is a choice where `CapacityPool` is not part of the module.
* Data is reduced to what a property tells apart: a document is the sequence of
  operations it was made from, a number of bytes, or a revision; a program is a
  name. Integers keep their width where it matters (indices of Lua tables, page
  offsets, configured delays), scaled down so that the limits are reached.
* The mutated form of a definition, a plausible bug, stands before it.

The modules with the longest arguments:

**CapacityPool.** `used`, `opaque`, `burstOwner`, `waiters` are fields of `Pool`,
`owned` is `Owner.bytes`, `held`, `closed`, `isOpaque` are fields of `Lease`.
`growMu` lets a lease have one `Grow` call, so `call[l]` is that call and its waiter.
`dispatch()` takes one step per iteration with the mutex `mu` held; every other
action is a critical section. `GrowResume`, `GrowClosed` and `GrowExpire` are the
three ways a waiting call continues, and race with the grant. `entitled` is a
history variable: what the lease held when its last `Grow` succeeded, less later
`Shrink`s.

**RequestBatcher** has the submitting callers, the dispatcher `run()` and a
goroutine per batch; the channels `input`, `wake`, `recordsDone` and `completed` are
variables, and the bounded ones block. A batch may publish results per record
before it ends, may fail, and may skip callers that were cancelled. **RecordQueue**
is what it promises: a call starts when no running call may still mutate one of its
records and no earlier waiting call shares one; on each record the earliest takes
effect first. `ImplementsQueue` is the
refinement, with the history variables `arrivals` and `settled` in the mapping.

**DocumentWrites** is the execution of `Server.write`: grouping by record, waves for
operations that return their document, direct puts, and attempts over chunks of
snapshots, evaluation, conditional commit, retry of conflicts and deferral. Every
await is a step boundary. The store is `storage/memory` plus one thing real
backends do: an item may be applied and reported as failed. **AtomicRecords** is the
promise "atomicity is per record, never per request": a contiguous part of a call's
operations on one record takes effect in one step, in request order.

**KafkaWorker.** A poll takes records past `position`, `HandleBatch` applies them in
waves of one record per key, temporary failures are retried with a limit,
permanent ones are copied to the dead-letter topic, the resolved prefix of each
partition is committed, and the rest is rewound. `Handover` is a crash or a
rebalance: a successor continues at the committed offsets. While `outage` holds,
every external call may fail, apply with its reply lost, or run into the deadline.

**Configuration** follows a decoded file through the resolution of each section to
the constructors of the components, which check again with limits of their own,
and to the memory that detection finds for the pool.

## Runs

Runs of the four core components use a module of their own. The other components are
checked on their instances in three modules (`MCEngine` for `service` and `storage`,
`MCProcess`, `MCLua`), each with a variable `component` that an initial state chooses:
the variables of the others stay idle, and a property reads "in this component, ...".

| Run | States | What it shows |
|---|---|---|
| `capacity_pool` | 1,270,696 | Counters equal the sums over leases; the reserve has one borrower; nobody sleeps who fits; failed growth leaves nothing behind. |
| `batcher` | 578,245 | Counters, occupancy, retained memory and batch limits are exact; a drain leaves nobody behind; refinement of `RecordQueue`. |
| `batcher_live` | 35,223 | Every accepted call is answered, also when the batcher stops. |
| `document_writes` | 364,574 | Refinement of `AtomicRecords`; results are true, and final once published. |
| `document_writes_live` | 13,800 | Under exhausted budgets, refused memory, failing items, malformed operations and deferrals every execution ends, and its results are true. |
| `kafka_worker` | 585,198 | Nothing is lost or skipped, keys keep their order, replay takes no document back (unless a commit's reply was lost); with recovered dependencies every partition is committed to its end. |
| `service` | 543,127 | Joined mutations keep queue order; shared work lives as long as a caller waits; a batch is transparent to its readers; merges run their own program; admission counts exactly and loses no wake-up; what an RPC can still read stays charged. |
| `storage` | 886,434 | Outcomes of storage writes are true in spite of lost replies, splits and retries; native commands hide no change from conditional writes; scans and pages return what they name. |
| `process` | 588,215 | Gateway, Kafka and process: callers get the results of their own engine; what they are told to repeat was not executed; nothing is closed in use; the DNS view never goes back; ACCEPTED means durable; a store's gate opens only on topics with the configured policy; nothing is used after its release; a configuration that is accepted starts, its delays do not overflow and its pool fits the machine. |
| `lua` | 2,006,986 | The engine and its cache; the types of merged documents; the libraries against the definitions of the Lua reference; sort under any order function; the reports of `sink lua test`. |

Every property has a mutant in `PROJECT.json` under which TLC finds it violated.

### Bounds, and why they are enough

* Pool: three leases of two owners, two sizes. 1024 bytes with a 50% reserve give a
  normal limit of 524, so two small allocations fit, more need the reserve, and the
  large one waits behind smaller ones that fit. With two places in the queue the
  third waiter is refused.
* Batcher: three calls in which `callA` and `callC` are linked only through `callB`, which
  touches both records and can be cancelled; `callC` belongs to another partition. Any
  two of the calls fit into the queue and the third is refused; two batches may run at
  once. The live run has an isolated call and one slot.
* Document writes: two calls meet on one record; one combines two RPCs, the other
  returns a document. Two attempts let the second conflict be final. The faults are
  divided over the two runs.
* Kafka: two records of one key before one that cannot be decoded, a second
  partition, two attempts, one crash, polls of at most two records, so that polls are
  full, partial or repeated.
* `service`, `storage`, `process`, `lua`: the comment before each instance in the MC module says
  what it contains. Each has the smallest sets in which its actors meet (two or
  three RPCs that share a record, a pool with room for one, a scan with a page of one
  document) and at least one input of every kind the code refuses.

`Max...` constants (crashes, deletes, faults, foreign writes, changes, losses) bound
how often the environment acts; `Cancellable`, `DriverLeases` and `Faults` select who
is affected. Nothing else is capped.

### Fairness

* Batcher: weak fairness of `run()`, of a caller between reservation and send, and of
  every execution (storage calls have deadlines); strong fairness of the launch,
  `completed` and `recordsDone` branches, since Go's `select` chooses uniformly among
  the ready ones. Nothing is assumed of callers.
* Document writes: weak fairness of every execution. Deletes need not happen.
* Kafka: weak fairness of the worker's next step and of the end of the outage. Crashes
  are not fair, and bounded. With a dependency that fails for ever the code makes no
  progress, and none is promised.

Deadlock is checked in every run. Where a component may stop, it or the MC module says in
which states (`Done`, `Finished`, `Ended`): any other stop is an error.

### What is assumed of external code

* Kafka client (`AsyncPublish`): records of one partition are stored in the order in which
  they were handed over; a record that is reported as failed may have been stored, and
  the failure has any of the codes the publisher tells apart. That ACCEPTED means stored rests on the acknowledgement the client is
  configured to wait for.
* Kafka broker (`KafkaWorker`): an offset that was committed is what a successor reads.
* Lua tables (`SinkArrays`, `LuaBridge`, `LuaTables`): for a table with holes the length is
  any border, as the reference manual says. The array functions compare it with
  the number of items, which refuses every array with one gap; with more gaps a border
  can be that number (2, for the cells 2 and 4), and nothing is claimed.
* Storages: a request whose reply is lost was executed or not; one that was answered was
  executed as the answer says.

Two configurations of the code are not the same model. `Admission` is the execution pool
that `admission.go` uses when the process has no memory pool; with one, `RpcMemory` and
`CapacityPool` take its place. In `AppLifecycle` a health probe is a detached call that
may outlive whoever asked for it, and that no shutdown waits for.

## Proofs

All theorems hold for every value of the constants that the named assumption
admits; TLC evaluates the assumptions on the instances of the runs.

**CapacityPoolProofs** (`PoolAssumption`: finitely many leases, at least 1024 bytes, the
minimum `New` accepts). `LedgerExact`, `OneBorrower`, `NothingLeaks`, `NoWakeupLost` are
the invariants of the run. `PoolTypes` (the types) and `ResponsesGoFirst` (the order of
grants) are proved and not part of a run. The inductive invariant has three layers:

* `PoolInv`, the bytes: types, ledger and exclusive reserve. An owner is never in debt
  only because `Owner.bytes` is the sum over its leases.
* `CallInv`, the calls: the queue has only open, ungranted leases, each once, and a
  call that returned has no grant outstanding. `NewLease` resets a closed lease,
  which keeps the ledger only because a closed lease holds nothing (`NoLeak`).
* `WakeInv`, the queue: every waiting call is queued, and what the scan of `dispatch()`
  has passed does not fit. The single pass is enough because the scan only
  consumes: a grant lowers what is left, and taking the reserve excludes
  other owners, so a waiter that did not fit before it does not fit after it.

**RequestBatcherInvariant and RequestBatcherProofs** (`BatcherAssumption`; any set of calls and
records, also infinite). The first has the invariant, the lemmas about its parts and the steps that
start no batch, the second the other steps and the theorems.
`AccountsAlwaysExact`, `DrainAlwaysComplete` and `BatcherImplementsQueue` are the three
properties of the run `batcher`, and `EffectsKeepArrivalOrder` is what the refinement is for: on
each record calls take effect in arrival order. `BatcherInvariant` is the invariant they
follow from:

* `Lines`: `input` and `pending` hold exactly the calls that wait, in the order of arrival,
  and all of `pending` arrived before all of `input`.
* `Batched`: every launched call is in exactly one batch, in arrival order; only calls
  without an answer hold records; a failed chunk mutates no more.
* `Occupied`: the count of a record is the number of its holders plus the releases
  under way in `recordsDone`, and at least that once the batcher has stopped and
  releases may be dropped.
* `Counted`: `running` is the number of batches plus the completions not yet received,
  and what each stage of shutdown has emptied.
* the conjuncts of `AccountsExact` themselves (queue counters, exclusiveness, memory,
  limits), which need `Lines` and `Occupied` to be preserved by `selectReady` and
  `Withdraw`.

For the refinement each action of the batcher is one step of the queue or a stutter:
sending to `input` arrives, a launch starts its whole batch, a mutation settles its
record, the end of an execution or a failed chunk abandons the rest, and a
cancelled caller or the drain leaves. Two steps need the invariant. A launch may start
its calls because `selectReady` passes over whatever depends on an occupied record
or on a call it left behind, and `Occupied` makes the counts cover every holder. A
mutation may settle because the holders of a record are all in one batch
(`RecordExclusive`), which is worked off in arrival order.

**RecordQueue** (`QueueAssumption`). `QueueInvariant` and `EffectsInOrder`: the abstract
queue applies effects on each record in arrival order. Whoever may still touch
a record arrived after everyone who has.

**KafkaWorkerProofs** (`WorkerAssumption`: a record is in one partition, and so is a key).
`DeliveryNeverLoses`, `KeysInOrder`, `ReplayNeverRollsBack` are the safety properties of the run.
`WorkerInv` adds `Round` (how far `HandleBatch` is with each fetched record, and that
per key the finished come before the tried), `Truth` (a final result is true), `Prefix`
(what is committed is done; between the committed offset and the position everything
is fetched) and, unless a commit's reply was lost, `Forward` (no round repeats what
is committed).

**LuaSort** (`SortAssumption`). `SortStaysInRange`: whatever the order function answers or
writes, a sort of a table of any length touches only cells of its range. The
invariant `Placed` says where the cursors stand between two comparisons and that every
range waiting on the stack is part of the table.

**WriteReturns** (`ReturnsAssumption`). `ReturnsConserved`: what an RPC may still reserve and
what its operations hold add up to its grant, over any number of lost compare-and-sets.

**SumTheorems** has what the ledgers need of sums over finite sets, derived from the
definition in the community modules by an induction whose predicate is a set, and what
the queues need of appending, removing the head and concatenating.

### Only model-checked

* Liveness (`Answered`, `Terminates`, `Delivered`): fairness and ENABLED are
  out of the prover's reach.
* The library properties of Lua (`LibraryExact`, sortedness), patterns, bridges and
  pages: they compare recursive definitions with reference definitions, which needs
  induction over data.
* `DocumentWrites` and its refinement of `AtomicRecords`: the documents are folds over
  chains of operations, so the step correspondence needs the same induction.
* The other components of `service`, `storage` and `process`; their invariants have the shape of the
  proved ones (exact counters, order per record), on smaller state.

## Not modelled, and why

* Metrics, logging and the texts of errors: the system does not read them.
* Durations: a timer may fire at any time. The exception is `Configuration`, where delays
  are doubled until they could overflow.
* Decoding of YAML, JSON, BSON and addresses, the notation of byte sizes, character
  sets, `string.format`, `string.pack` and the decimal forms of numbers in BSON: pure
  conversions. The numbers of `sink lua test` are modelled, since its report depends
  on them.
* The Lua runtime, the gRPC transport, the Kafka client and broker, the storages and the
  file system: external, modelled from their use.
* Native requests to search storages, the HTTP client with its endpoints, the
  result budget of a merge, what the callers of a health probe are told (the probe itself is
  in `AppLifecycle`), and the estimates of memory
  by which a batch is cut. `PROJECT.json` lists the hazards that stay uncovered for
  these reasons.

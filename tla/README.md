# SLOG in TLA+

SLOG is a geographically distributed, deterministic data store. Regions
(*replicas* in the code) each hold all data, split over partitions; every key has
a master region. This directory models SLOG from its clients to its hash map,
checks the models with TLC on small instances, and proves the main results about
the default lock manager and the latch of the storage with TLAPS for every instance.

## The system

A transaction travels through the modules of `src/module`, each a single-threaded
event loop, connected by ZeroMQ sockets (FIFO per sender and receiver, no loss, no
duplicates, no retries anywhere in the code):

    client -> Server -> Forwarder -> Sequencer ------------------> Interleaver -> Scheduler -> Worker -> Server
                              \-> MultiHomeOrderer -> Sequencer        ^
                                     (GlobalPaxos)     LocalPaxos -----/

| Part | State | Operations | Hard behaviour |
|---|---|---|---|
| Clients | sent and answered transactions | send, receive, stop | answers of several servers in any order |
| Server | pending responses, partly finished txns | client request, finished sub-txn, statistics | sub-transactions merged in any order |
| Forwarder | txns waiting for master lookups | forward, lookup request and response | stale masters, batched lookups |
| MultiHomeOrderer | current batch, log of multi-home batches | forward, data, order | data and order race |
| Sequencer | batches, counters, callbacks | forward, timed callbacks | batches fill before the timer; delayed replication |
| Paxos (Leader, Acceptor) | instances, slots, ballots | propose, accept, commit, responses | answers in any order; responses counted against the wrong slot |
| Interleaver | local log, one batch log per region | data, local order, remote order, ack | all four race, over several machines |
| Scheduler, TxnHolder | active txns, lock-only txns | forward, worker result, aborts | copies of one txn from several logs |
| RMA / DDR / OLD lock manager | lock table, txn entries | AcquireLocks, ReleaseLocks | copies in any order, hand-overs, counters |
| Remaster managers (not the default build) | blocked queues | verify, remaster, release | counters out of order |
| Worker, Broker | phases, redirects | dispatch, remote read | remote reads before the redirect |
| Storage, hash map, latch | segments, latch words | get, put, erase, rehash | concurrent threads |
| TPC-C | tables, order and history numbers | load, generate, execute | loader threads; generated and executed in different orders |

`PROJECT.json` lists every part with its sources (`components`) and what can go
wrong in them (`hazards`).

## Modules

### Locking

* **Transactions** – what the ordering and locking layers see of a transaction:
  keys with modes, the master metadata of each key, the new master of a remaster.
  `InvolvedReplicas` are the regions that produce a copy of it, `LocksAt` the locks
  `<<key, region>>` one copy asks for.
* **LockOrder** – abstract. What a deterministic lock manager promises: a
  transaction runs as soon as all of its copies have arrived and every conflicting
  transaction that arrived before it, at the region of the lock, is released.
* **LockState** – one lock of the RMA lock manager (class `LockState`) as a value:
  `AcquireReadLock`, `AcquireWriteLock`, `Release`.
* **RMALockManager** – `rma_lock_manager.cpp`, the default of the build. Variables
  are the class's fields; `arrived`, `ahead` and `released` record the calls. One
  action per public function: `AcquireLocks(t, h)`, `ReleaseLocks(t)`. The scheduler
  is the environment: it calls the first once per copy and the second once for every
  transaction returned as ready.
* **DDRLockManager** – `ddr_lock_manager.cpp`, the wait-for graph over queue tails,
  with the same environment and the same promise.
* **OldLockManager** – `old_lock_manager.cpp`, the lock manager of the other two
  remaster protocols, as operators on its table.

### Ordering

* **Sequencer** – `sequencer.cpp` on one machine: `ForwardTxn`, `PostponeTxn`
  (`sequencer_delay_ms`), `BatchPostponedTxn`, `FireSendCallback` (`SendBatches`
  followed by `StartOver`, as in the callback), `SendDelayedBatch`. Callbacks fire
  at any time after they are set up.
* **TotalOrder** – abstract. What a Paxos group promises: every member is told the
  same values, in the order of the slots from 0 on, each proposal at most once.
* **SimulatedMultiPaxos** – `src/paxos`: the fixed leader, acceptors, and the
  machines that forward proposals, over FIFO channels. `instances_` exist on the
  elected leader only. The leader reads the slot of a commit response from the
  wrong field and gets 0 (`leader.cpp:87`); the model does the same.
* **BatchLog** – `AsyncLog`, `BatchLog` and `LocalLog` as values with operators.
  A queue of ready batches is always emptied by the handler that filled it, so
  `NextBatches` returns all of them at once.
* **Interleaver** – `interleaver.cpp` on all machines of all regions, for the log of
  one home region (an interleaver's logs share no state). `SendBatch` stands for the
  home region's sequencers, `CommitOrder` for its Paxos group (as in TotalOrder).
  The four message handlers each end in `AdvanceLogs`. Messages travel in a bag:
  more orders than FIFO sockets allow, so what holds here holds for them.

### From the client to the sequencers and back

* **Deployment** – machines, partitions, default masters, and the FIFO channels
  between modules: `Sender`, the loop of `NetworkedModule`, sharding. `NonNumeric` are
  the keys that the simple sharder cannot parse.
* **TxnGenerator** – the synchronous and the constant-rate generator, and the
  console client with its commands. Time is one flag, the end of the duration.
* **Server**, **Forwarder**, **MultiHomeOrderer** – one operator per handler of the
  module, on every machine. `ForwardRequest`, `AnswerRequest` and `DropRequest`
  are the branches of the server's `OnCustomSocket`.
* **FrontEnd** – their composition. The part between sequencers and workers is one
  step: a region can execute a transaction once the sequencers of all its homes have
  it, and its partitions finish in any order, committed or aborted. A remaster
  changes the masters the forwarders of its region find.

### Execution of the logs

* **Slices** – the copies and slices of a transaction that the partitions receive.
* **RemasterManager** – `CheckCounters` and the simple and the per-key remaster
  manager, as operators on the blocked queues.
* **Scheduler** – the handlers of `scheduler.cpp` and the `TxnHolder`, as operators
  on the scheduler's state. With the default build, what the lock manager grants is
  given by LockOrder, which RMALockManager is proved to implement.
* **KeyValueExecution** – the procedures and `ApplyWrites`.
* **Execution** – all partitions of a region: schedulers, workers, the broker
  threads with their redirects, the storage. `scenario.protocol` chooses between
  the three remaster protocols of the build.

### Storage and TPC-C

* **Storage** – abstract. A map whose calls take effect at one moment each.
* **ConcurrentHashMap** – `concurrent_hash_map.h` and `rwlatch.h`: every step of
  the latch under its mutex, the wait queues of its two condition variables with
  spurious wake-ups, the creation of a segment, each bucket of a rehash.
* **TPCCTables**, **TPCCTransactions** – the tables as sets of storage keys with
  the columns that the properties read; the five procedures as the keys they read,
  write and delete and the values they compute. `Junk` is what a procedure that
  reads a stored empty value as a row may find there.
* **TPCC** – the loader threads, a client in each region with its id generator, and
  the execution of the generated transactions in any order.

### Proofs and instances

* **LockStateProofs**, **RMALockManagerProofs**, **RMARefinementProofs**,
  **ConcurrentHashMapProofs** – the proofs.
* **MC...** – instances for TLC.

Operators marked "Mutant" are bugs used to test the properties: with the definition
that follows replaced by the mutant, TLC finds the property violated.

## Runs

| Run | Instance | Checks |
|---|---|---|
| rma_lock_manager | 3 transactions, 2 keys, 2 regions, all contents incl. remasters | `TypeOK`, `MutualExclusion`, `QueuesConsistent`, `CountsExact`, `EntriesExact`, `NumLockedKeysExact`, `NoDeadlockInOneOrder`, `ImplementsLockOrder` |
| ddr_lock_manager | the same | `DispatchedStayReady`, `ImplementsLockOrder` |
| sequencer | 4 transactions, 2 partitions; batch size 1 or 2 without delays, no limit with delays | `TypeOK`, `NothingLost`, `PositionsMatchProposals`, `RegionsAgree`, `CallbackPending`, `EventuallySent` |
| paxos | 4 members (3 acceptors) and an outsider, 2 proposals | `CommittedByMajority`, `ImplementsTotalOrder`, `EveryProposalCommits` |
| interleaver | 2 regions of 2 partitions, or 3 regions of 1; replication factor 1, 2 or 3; round-robin or fixed partition | `EmittedInOrder`, `OrderReplicated`, `EverythingEmitted` |
| execution | 3 or 4 transactions, 4 keys on 2 partitions, logs of 2 or 3 regions; 12 workloads with the default protocol, 32 with the other two | `TypeOK`, `OnlyKnownChecksFail`, `Deterministic`, `Serializable`, `EventuallyClean` |
| frontend | 2 regions of 2 partitions, 15 configurations of generator, commands and options | `TypeOK`, `RoutedOnce`, `OneGlobalOrder`, `ResponsesCorrect`, `EventuallyAnswered` |
| storage | 3 threads, 3 keys, 2 segments of 1 bucket, at most 2 readers | `Exclusive`, `ImplementsStorage`, `EveryCallReturns` |
| tpcc | 2 regions, 1 or 2 partitions; up to 6 warehouses and 3 loader threads for loading, up to 4 transactions after it | `NoneAborts`, `SingleHome`, `MoneyConserved`, `OrdersConsistent`, `StockBounded` |

What they show, beyond the single modules: `Deterministic` says that the database
and the outcomes of a region are a function of the logs, whatever the interleaving
of logs and threads, so that regions agree without talking to each other; it rests
on the check of the masters in the worker, on the remote reads with their aborts and
on the redirects. `Serializable` is what remains for the protocols that make copies
wait for counters. `OneGlobalOrder` is the assumption under which
`NoDeadlockInOneOrder` excludes deadlocks of multi-home transactions.
`EventuallyClean` and `EventuallyAnswered` include that every table that holds
something of a transaction is emptied. `OnlyKnownChecksFail` says that with the
default protocol no CHECK of the scheduler and its parts fails; with the other two it
names the three that do, and the states in which they do (below).

Deadlock is not checked: all instances stop when their finitely many transactions,
batches or calls are done.

Three runs show where the code and what is written about it disagree (`findings`):

* **sequencer_drop** – with delayed replication *and* a batch size limit, `SendBatches`
  returns at the first delayed batch and the ones behind it are dropped. In the run,
  with a batch size of 2, two transactions fill the delayed batch and the third is lost.
* **rma_same_master** – a remaster to the region that is already the master waits for a
  second lock that does not exist.
* **stale_remaster** – a remaster whose master is outdated is marked as aborted by
  `ReadLocalStorage`, and committed by `Execute` all the same.

Seen while modelling; no run is devoted to them. Where the properties have to allow
for one, they allow for exactly that state:

* a region whose `replication_order` is shorter than `replication_factor - 1` waits
  for acks it never asked for (`interleaver.cpp:255`; the instances have full orders);
* the ack of a batch answers its order, not its data (`interleaver.cpp:195`);
* the holder of a counterless remaster is never collected (`txn_holder.h:44`;
  `Collected` in `EventuallyClean`);
* with the SIMPLE and PER_KEY protocols, a copy that arrives after its transaction was
  aborted and released by its worker fails the CHECK of `TxnHolder::txn()`
  (`scheduler.cpp:131`), three lines before the branch written for it (`LateCopy` in
  `OnlyKnownChecksFail`);
* with SIMPLE, a remaster that outdates two blocked copies of one transaction fails a
  CHECK against aborting twice (`scheduler.cpp:180` or `240`; `AbortedTwice`);
* with SIMPLE and PER_KEY, a key that is not stored yet is compared with the default
  master of a `Record`, region 0: if its metadata names another region, a CHECK fails
  (`remaster_manager.h:90`; `NewKeyElsewhere`);
* with PER_KEY, a copy that waits only for a key of another of its homes is in no queue
  that lets it through, and its transaction never finishes
  (`per_key_remaster_manager.cpp:29`; `Forgotten` in `EventuallyClean`);
* with SIMPLE and PER_KEY, two transactions over two partitions may wait for each
  other after a remaster; no scenario of the execution run does this;
* a transaction with a key that is not a number is dropped by the forwarder of the
  simple sharder: its pending response stays, and a console that waits for it waits for
  ever (`forwarder.cpp:72`); so does the pending response of a statistics request for
  an unknown module (`server.cpp:153`; both are `Unanswerable` in `EventuallyAnswered`);
* a dry run of the constant-rate generator with a duration never stops: the timer starts
  with a response (`txn_generator.cpp:285`; `Endless` in `EventuallyAnswered`);
* `DEL` never deletes a key that it finds (`key_value.cpp:36`); the model does the same;
* two generators of one client take the same TPC-C order numbers: `step_` is unused
  (`workload/tpcc.h`).

### Bounds

Three transactions are enough for a holder, a waiter and one that overtakes; two
keys in two regions for a multi-home transaction, a deadlock and a remaster with
both of its locks. In the lock manager runs the contents are all combinations of
keys, modes and masters, and the transaction ids are symmetric. `max_batches`
(Interleaver) and `MaxBatches` (MultiHomeOrderer) bound the batches of a sequencer
or an orderer: two are needed for reordering within one queue, two sequencers for
reordering between queues. Four members give the leader one member that is not an
acceptor; two proposals race in every stage.

In Execution the scenarios are transactions over both partitions that conflict, with
code that depends on what they read, around a remaster. The masters and counters
they carry are those before or after the remaster. For the counter protocols there are
also new keys, and transactions with two or three homes at one partition of which one
or both copies are blocked, outdated or overtaken. `Region0` is the region with number
0, the default of a stored record. Two partitions give a sender and a receiver of remote
reads; both are active when both have keys to write. In FrontEnd, `MaxTxns` bounds
what a generator sends within its duration, or in the endless dry run; two transactions
race through every pair of modules, from two servers. In ConcurrentHashMap, `MaxCalls` bounds the
calls of a thread: one call each for three threads, or two each for two of them;
one initial bucket makes the first insertion rehash, and a `MaxReaders` of two makes
the latch full. In TPCC, the sizes of the tables are constants; loading is checked
for every combination of 4 to 6 warehouses, 1 or 2 partitions and 1 to 3 threads. The
16-bit counters of a customer wrap around (`Int16`), but the run has far fewer payments
than that takes.

### Fairness

The lock managers and TPCC need none. In Sequencer every timed callback
that was set up eventually fires (the poller runs each callback that is due). In
SimulatedMultiPaxos and Interleaver every message that was sent is eventually
received: sockets do not lose messages and event loops do not stop. In Execution
and FrontEnd some step is taken as long as there is one; no behaviour of
these models is infinite, so this is the same as fairness to every message,
callback and thread. In FrontEnd this is `WF_vars(Next)`. In Execution TLC cannot
evaluate `ENABLED Next` in reasonable time, so the condition is written out as `HasWork`;
on the reachable states of the run it is true exactly where `Next` is enabled. In
ConcurrentHashMap every thread that is not waiting for a condition variable goes on, as
the operating system's scheduler has it; nothing is assumed of spurious wake-ups. Nothing
is assumed of clients, except that the time of a generator passes.

## Proofs

`RMALockManagerProofs` and `RMARefinementProofs` prove, for any sets of keys, regions
and transaction ids and any finite transaction contents that satisfy
`TransactionAssumption` (non-empty key sets; a remaster has one key):

* `TypeCorrectness`, `Exclusion` (`MutualExclusion`), `LockedKeysCounted`
  (`NumLockedKeysExact`), each as `Spec => []...`;
* `Refinement`: `Spec => ImplementsLockOrder`. Every call reports exactly the
  transactions LockOrder allows to run.

None of these is inductive. The inductive invariant `IInv` (theorem `Invariance`)
adds three facts. `QueuesConsistent` says of every lock that its members are split
between holders and queue, the queue is in arrival order, and the first waiter
cannot join the holders. `CountsExact` says that `num_waiting_for` plus the locks
held is the number of locks required. `EntriesExact` says that no transaction is
released before its last copy arrived; it is what excludes a late copy that
recreates an erased entry, and it follows from the count: a transaction is ready
only if it holds as many locks as all of its copies together ask for.
`LockStateProofs` holds the lemmas about a single lock: each of the three
operations keeps it `Consistent`, and who holds it afterwards.

`ConcurrentHashMapProofs` proves `LatchExclusive`: `Spec => []Exclusive`, for any
finite set of threads, any keys and hash function, and any numbers of segments,
buckets and readers (`TableAssumption`). The inductive invariant `Inv` adds `Calls`
to `Exclusive`: which kind of call can be at which point of the code, and the types
of the latch words. A step changes who is inside a segment in one of five ways
(a reader in or out, a writer entered, past the readers, or out); each is a lemma,
and every other step moves nobody through a latch.

Only model-checked: `NoDeadlockInOneOrder`, `ImplementsStorage`, the other modules,
and all liveness properties (outside TLAPS's reach).

## Not modelled

* Parsing of configurations, the hash sharder, metrics, reports, the start of
  processes and the tools are input, output or constants.
* The basic, cockroach and remastering workloads draw random keys and keep no state
  that a property could be about. Of the TPC-C workload, `ACCESS_COOP`, `SH_ONLY` and
  more than two homes are left out.
* `GetUnsafe` of the hash map takes no latch and is called by its test only.
* The socket options, the polling retries and the threads behind `Broker` and
  `Poller`; their effects are the channels and the callbacks of the models.
* The truncation of 64-bit batch ids in GlobalPaxos (`consensus.cpp:45`) needs more
  batches than TLC can count.
* Crashes: nothing is persisted and nothing restarts; the code has no recovery.
* One model of the whole pipeline: Sequencer, Interleaver and Execution share their
  interfaces (batches, logs, the promises of TotalOrder and LockOrder), but together
  they are beyond TLC.

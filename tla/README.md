# Verification of the Unified Cache Manager

TLA+ models of UCM (`src/ucm`), the TLC configurations that check them, and TLAPS
proofs about the parts on which everything else stands.  Paths below are relative
to `src/ucm` unless they start with `src/`; `integration/vllm` is shortened to `vllm`.

## 1. The system

UCM keeps the key/value blocks of an inference engine outside of the device.  The
engine's *connector* looks blocks up by their hash, loads the ones that are found and
dumps new ones.  A *pipeline* of stores serves it: a cache store (host memory, shared
by the processes of one machine) in front of a backend, usually files.  Around the
connector stand the patches that make an engine use it, sparse attention methods that
move blocks while a request decodes, and integrations with other engines.

```
 vLLM engine (patched) --schedule/forward/finish--> connector: scheduler role, one worker per rank
    |                                                  |  Lookup / Load / Dump / Wait
    | sparse attention, blending                       v
    +-- block tables, hooks per layer           pipeline: cache store -> [breaker] -> posix, ...
 MindIE, SGLang integrations ------------------------> the same stores (or Mooncake)
   cache store = task wrapper -> load queue -> node table -> copy streams -> device
                            \-> dump queue -/      |
                                                   v  Load / Dump / Wait / Lookup of the backend
```

| component | state | operations | hard behaviour |
|---|---|---|---|
| SPSC ring (`shared/infra/template/spsc_ring_queue.h`) | slots, `head_`, `tail_` | Push, TryPush, TryPop, ConsumerLoop | lock-free publication, full and empty, a second producer, stop |
| Node table (`store/cache/cc/trans_buffer.*`) | nodes, hash chains, free head, locks; in shared memory | Get, Exist, Alloc, Remove, MoveTo, Mark, Release | lock order, eviction against lookup, who owns a load, the reserve |
| Load and dump queue, task wrapper (`store/cache/cc/*_queue.*`, `store/detail/template/task_wrapper.h`) | queues, held nodes, copies in flight, failure set, latches | Submit, dispatch, transfer, dump, Wait with timeout and drain | four threads per process, asynchronous copies, partial failure, readers that wait for another process |
| Cache front end (`store/cache/cc/buffer_manager.h`) | none | Lookup, LookupOnPrefix | two sources asked at different times |
| Connector (`vllm/ucm_connector.py`, `rank_consistency.py`) | RequestMeta, transfers of each rank, marks of inconsistent blocks | matched tokens, build meta, load, save, finished, load-failure recovery | dumps beside later steps, preemption, ranks that disagree, failed loads |
| Hybrid connectors and layouts (`vllm/hla_connector.py`, `hma_connector.py`) | groups of caches with own block sizes, rows of layers, pointer tables | lookup per group, dispatch, row-wise loads, shares of ranks | one resume position for all groups, alignment, offsets |
| Engine's hybrid lookup (`vllm/patch/v02*/vllm_ascend`) | blocks held per group | find longest hit, allocate | groups that shorten each other's hit |
| Sparse attention (`sparse/esa`, `sparse/kvstar`, `sparse/gsa_on_device`, `sparse/blend`, patch `v0110`) | windows, representations, hashes, metadata shared by layers | allocate, begin/finished hooks, retrieval, asynchronous loads, blending | state of one step read in the next, shared metadata, preemption |
| MindIE, SGLang, Mooncake, pipeline (`integration/mindie`, `integration/sglang`, `store/mooncakestore`, `store/pipeline`) | see section 3 | get, put, exists, wait, shutdown, stack | ranks that decide alone, threads and an event loop, derived sizes |
| Metrics, start-up, cores, patches (`metrics_dispatcher.py`, `vllm/metrics.py`, `vllm/device.py`, `vllm/patch`) | buffers per consumer, files in /dev/shm, core sets, hooks on modules | drain, aggregate, agree on an id, split, apply | two consumers, stale files, failing tools, import order |
| Posix store, health breaker, thread pool (`store/posix/cc`, `store/pipeline/cc`, `shared/infra/thread`) | files, workers, window of probe results | write, commit, look up, collect, probe | commit against writers, stuck workers, late results |

What makes each correct: the ring is a FIFO that loses and invents nothing; the table
gives one node per key, never evicts a referenced node and has one owner per load; a
load that reports success has put the right bytes on the device and nothing is copied
after Wait returned; a successful dump reaches the backend before its node is reused;
every Wait returns; a lookup reports what can be loaded; no token is sampled from a
wrong context; what is stored under a key is what the key was derived from; ranks agree;
what an attention layer sees is the request's own.  `PROJECT.json` lists the hazards
behind these sentences, each at its line.

## 2. Plan and order of work

1. The lock-free and lock-based core: `SpscRingQueue` (abstract: `BoundedFifo`),
   `TransBuffer` (abstract: `CacheTable`), with proofs.
2. The store that composes them, `CacheStore`, and `CacheLookup`, with proofs of the latter.
3. The vLLM connector (`UcmConnector`) with the arithmetic it shares with start-up
   (`ConnectorMeta`) and the agreement of ranks (`RankConsistency`).
4. The machines around it, one module each, composed into one run by `MCServices`.
5. The proof that `TransBuffer` implements `CacheTable` for every size.
6. Proofs about the store that composes them (`CacheStore`), the connector's dispatch and what it
   confirms, the lookup of hybrid models, and the stores and the breaker around the connector.

What could come next is in section 7.

## 3. Modules and the code

**SpscRingQueue.**  One step per access to shared memory: a producer loads
`tail_` and compares, writes the slot, stores `head_`; the consumer looks at the stop
flag, finds an element or nothing, reads the slot, stores `tail_`, calls the function.  Acquire and release
on the two indices order slot accesses, so the steps are sequentially consistent.
`Producers` is a constant: the class is written for one; the number of real
callers is a question of its own (section 5).  Histories `sent` and `got`
record what happened.  `BoundedFifo` is the promise: accept at the end, hand out
from the front, at most `Capacity - 1` elements.

**NodeTable / CacheTable.**  A node is `[key, ref, st]`; a key is a (block,
shard) pair.  `Hit`, `Claim`, `Release`, `Mark` are the node-locked sections of
`trans_buffer.cc`.  `TableClients` declares who uses a table.  `CacheTable` makes Get one step
and lets each client hold one
Handle.  A Get that finds nothing takes an unreferenced node whose old key was
evicted before; eviction is an action of its own because `TransBuffer` unlinks
first and binds later.

**TransBuffer.**  Bucket locks, node locks, hash chains with `prev` and `next`,
the free head.  Program counters follow `Get`, `FindAt`, `Alloc`, `Remove`,
`MoveTo`, `ExistAt`: a thread that walks a chain holds the bucket and one node at
a time; `Alloc` holds its bucket, tries the node, and needs the bucket of the
node's old key, which it only *tries*.  Two strategies: shared memory (`FetchNode`
under a lock, reserve for loads) and process-local (`freeHead` read and written
without a lock: load and store are two steps).  `Bypass` is `bypassHitOnLoad_`.
Hashing is a constant function; keys that collide share a chain.

**CacheStore.**  A scenario, chosen in the initial state, says which task asks for
which shards, how many nodes the table has and what may fail.  Per process a caller, load
dispatcher, transfer thread, dump
thread and dumper; one node table for all processes.  `waiting`, `running`,
`dumping` are the ring queues; `holder` the shards copied and not synchronised;
`h2d` and `d2h` copies in flight; `bload`, `bdump` the backend's tasks.  The
content of a key is the key, so a node, the disk or the device that holds another
key's content is visible.  Error paths are actions: rejected submit, failed
backend, failed copy, failed synchronisation, full queue, timeout with drain.
Backend and copy streams are external: a backend load may fail leaving the node
overwritten in part, a dump may fail, copies land in any order.

**CacheLookup.**  Probes of the table one at a time, then one question to the
backend, translated back to indices; meanwhile blocks are dumped, persisted,
loaded, evicted and dropped by the backend's garbage collection.  Each shard of a block
has a node of its own, whose states abbreviate what `CacheStore` does with it; the lookup asks
for shard 0 only (`buffer_manager.h:95`).  The backend is what the posix store makes of
it: the shards collect in a `.tmp` file, which the worker of the last shard turns into the block's file.

**UcmConnector, ConnectorMeta, RankConsistency.**  The loop of the engine: `schedule`
(with `get_num_new_matched_tokens` and `update_state_after_alloc`), `build_connector_meta`,
then on every rank preemptions, load, forward, save and `get_finished`, at last
`update_from_output`, with dumps that go on while later steps run.  The direct, layerwise,
layerwise-with-predictor and context-parallel connectors are setups of one module.
`ConnectorMeta` is the arithmetic between tokens, blocks and hashes; `RankConsistency`
the accounts of the ranks and the scheduler's tracker of blocks that some rank lost.
A cell of device memory tells which block it is meant to hold, how many tokens of it were
written and how many of these are right: a block that was lost and is computed from as if it were there
spreads over what is computed, dumped and loaded again.  The engine's own cache offers such blocks too.
The scheduler's recovery from failed loads (patch `pc/v1/core/sched/scheduler.py`) is in
the model; the rest of the engine and the store are external.

**The machines around the connector.**  Each module has `XInit`, `XNext` and variables
of its own with one letter as a prefix; the header of each says what stands for what.

| module | code | state and actions |
|---|---|---|
| `HybridConnector` | `vllm/hla_connector.py`, `hma_connector.py` | per group a block size and table; lookup of one resume position for all groups, dispatch, loads by row ahead of the layers, dumps by shares of ranks, faults, preemption; memory token by token |
| `KvLayout` | the layouts of `ucm_connector.py` and both hybrid connectors | registered tensors to pointer tables and store sizes; a transfer of a block and the bytes it touches |
| `HybridHit` | `vllm/patch/v0202` to `v0230`, coordinator and manager | the loop that shortens a hit until all groups agree; the blocks each group takes over |
| `SparseEngine` | patch `v0110` scheduler and model runner, `sparse/esa`, `sparse/kvstar` | slots per step, block tables, windows, retrieval and asynchronous loads, preemption and return |
| `GsaOnDevice` | `sparse/gsa_on_device` | hashes beside the keys, which rows are sparse, shared metadata rewritten and restored, captured graphs |
| `Blend` | `vllm/blend_connector.py`, `sparse/blend` | chunk lookup and position correction, the batch that shrinks in one layer, what is dumped |
| `MindiePool` | `integration/mindie` | a batch walked by every rank, get, put, the thread that saves |
| `MooncakeStore` | `store/mooncakestore` | clients, the event loop and its thread, wait, cancel, shutdown |
| `SglangStore` | `integration/sglang` | batch_set, batch_exists, batch_get of all ranks |
| `StorePipeline` | `store/pipeline/connector.py` | registered stacks and the sizes derived for their layers |
| `PosixStore` | `store/posix/cc`, `shared/infra/thread/thread_pool.h` | tasks cut into shard I/Os, workers that open, write, commit by rename; inodes and names apart; timeouts, abandoned workers, death of a process, prefix lookup, collector |
| `HealthBreaker` | `store/pipeline/cc/health_breaker_store.cc`, `store/detail/health_check_executor.h` | checks in worker threads with a timeout, the window, opening and closing, stop |
| `MetricsFlow` | `metrics_dispatcher.py`, `observability.py`, `vllm/metrics.py` | two consumers drain one registry; merging, aggregation, export |
| `ConnectorStart` | `UCMConnector.__init__` and what it calls | choice of connector, unique id and its file, block sizes, stores; mock and lite connectors |
| `CpuAffinity` | `vllm/device.py`, `cpu_binding_affinity_patch.py` | cores found, split and bound, with tools that fail |
| `PatchHooks` | `vllm/patch` | hooks, imports in any order, implementations in force |

`MCHybrid`, `MCSparse` and `MCHosts` give them setups, records of the cases worth a
behaviour.  `MCServices` composes them: a behaviour deploys exactly one machine in one
setup, chosen in the initial state, and the others are off.  They do not share state
(each meets the store only through its own external actions), so their product would
show nothing more than the sum.

## 4. Runs

| run | bounds | shows |
|---|---|---|
| `spsc` | 3 slots, 5 pushes of 2 values | FIFO, no slot touched by both ends, the ring invariant, refinement of `BoundedFifo`, elements are consumed until stop |
| `spsc_two_producers` | 2 producers, 3 pushes | **violation**: a pushed element is lost |
| `trans_buffer_shared` | 3 threads, 2 nodes (1 reserved), 3 keys in 2 buckets; 112 thousand states | chains, reserve, no lock deadlock, refinement of `CacheTable` |
| `trans_buffer_local` | 2 threads, 3 nodes, 4 keys, bypass; 128 thousand states | refinement with the unlocked free head and chains of three |
| `store` | 2 processes, 6 scenarios; 159 thousand states.  Without faults: crossing loads of 2 shards with a dump of a third key on 2 nodes; 2 loads and 2 dumps on 1 node; dumps of 2 and 1 shards and a load on 2 nodes.  With faults: tasks of one shard on 1 node with failing backend and submits (twice); load and dump of 2 shards with failing backend and device and timeouts | right contents in cache, device and backend, no late copy, dumped nodes are reused only after the backend has them, failures reach all readers, Handles balance, every Wait returns, every successful dump is stored |
| `store_failed_load`, `store_holder_leak` | 1 process, 2 loads, 2 nodes | **violations**, section 5 |
| `cache_lookup` | 3 blocks of one shard without, 2 blocks with GC and errors; one block of 3 shards with and without; 677 thousand states | reported blocks can be loaded (no faults; of several shards those the backend had, whole, when they were hit), blocks that stay are found (always) |
| `connector` | 11 setups of one or two requests of three to six tokens on one or two ranks: a lost part of a block, two requests that meet a loss, a failed load of a shared block, of a resumed request and of both, a later hit on what a failed step dumped, preemption, layerwise, predictor, shared keys, context parallelism; 146 thousand states | no token from a wrong context (but for what the scan does not mend, below), the store holds what its keys say, hashes and blocks agree, ranks agree before a block is served again, held blocks are given back |
| `connector_stale_meta` | one setup | **violation**, section 5 |
| `services` | one machine per behaviour; 392 thousand states | the sixteen properties of section 3's table, one per machine |
| `patch_sparse` | vLLM 0.11.0 with ENABLE_SPARSE | **violation**, section 5 |

*Why the bounds are enough.*  Five pushes wrap a ring of three slots, with full
and empty in between.  Three threads are the least with an owner, a reader and an
evictor of one node; two buckets with a colliding pair give walks past other
nodes and an old bucket that differs from the new one; three nodes in one chain
unlink a head, a middle and a tail.  One node for four tasks forces eviction
between any two; two shards per task give a last one, a holder and a partial
failure.  Every scenario has as many nodes as a circle of tasks needs: with fewer,
tasks hold nodes and wait for more, and may block each other; the configuration
asks for 1024 nodes and no more than that is checked.  Three blocks
give every pattern of hit and miss around the first miss.  A block of
the connector's runs has two tokens and prompts have four or five, so there is a full hit, a
partial hit and a block left half full by a chunk; two requests of four tokens on four device
blocks force preemption.
Setups of the other machines are chosen the same way: sizes that divide and that do
not, one rank and several, one fault of each kind.
Named bounds: `MaxPush`, `MaxShards`, `WaitingDepth`, `RunningDepth`; the fields of a setup
bound requests, tokens, faults (`nfaults`), checks of the breaker and rounds.  Threads and
the keys of one bucket are interchangeable in `MCTransBuffer`, which is its symmetry; no
liveness is checked under it.

*Deadlock.*  Runs of the ring and the store have finitely many pushes or tasks and end, so
they say `CHECK_DEADLOCK FALSE`.  In `TransBuffer` every thread can always go on, and
deadlock is checked, besides `NoLockDeadlock`: while calls are under way one of *them* can go
on (`CanStep`, the guards of the lock steps), not just a thread that could start another call.  Connector and services end in explicit `Done` steps, so that a machine that
stops anywhere else is reported.

*Fairness.*  Weak fairness of every thread: each is an operating-system thread in
a loop that yields and never blocks on anything but what its guard shows.  The
backend answers and copies land because both have their own timeouts and report
errors; the waiter's timer fires; the caller waits for what it submitted
(`ucmstore_v1.h` asks for it).  Nothing is assumed of `Submit`, of faults, or of a
spin that finds its resource taken.  The engine loop of the connector is driven by
`step()` until no request is left, so its phases and the steps of each worker are fair,
and dumps settle since Wait of the store returns (`EveryWaitReturns` of `store`); what
is scheduled is free.

*What properties leave out.*  Where the code is known to go wrong, a property names the
case and excludes it, so that everything beside it is still checked: `StoredRightUnlessFailed`
excludes what a step with a failed load dumps and what is computed from it, and the setups of `connector` let no
request resume with a stale RequestMeta (section 5), which dumps wrong blocks without any fault; `OutputRight` what the scan for invalid
blocks does not mend: blocks behind `num_cached_tokens` of a resumed request, loaded by itself or shared, blocks left
to another request to compute again, tainted blocks of the store, and what was
computed from these (section 5; for each of the four, one of the setups fails without the
exception); `HybridRight` requests that loaded what a failed step, or such a request, dumped
(setups with faults serve three requests; `HybridContextRight` without `spoilt` fails in each); `SparseRight` prompts that fill their last block and the errors of section 5;
`GsaRight` requests the method did not prepare and the steps after GSA was off;
`BlendRight` steps whose tensors disagree ("odd") and requests that were not loaded;
`MindieRight` contents a failed save or a foreign offset lost; `SglangRight` pages the store
dropped; `ClearedIsStored` stores that remove blocks and a full tracker, which drops
marks of blocks that ranks lack (`rank_consistency.py:57-62`); `PipelineRight` shards that are no whole number of pages; `PatchesInForce` modules
with more than one late hook; `PosixRight` blocks of several shards with several writers, with an
abandoned worker or with the last shard listed before others (`FOneWriter`), and the memory an
abandoned worker touches.

## 5. Where code and documentation differ

Each is a run that must fail; `PROJECT.json` quotes the documentation.

* *Two submitters* (`spsc_two_producers`).  `Submit` pushes to a single-producer
  ring on the caller's thread, outside any lock, while the interface promises
  thread safety.
* *Failed load* (`store_failed_load`).  The shards after a failed one are dropped
  while the backend still loads into their nodes; the nodes are reused and a later
  load that reports success delivers another block's content.
* *Holder leak* (`store_holder_leak`).  When the last shard fails, the nodes of the
  earlier ones stay pinned; if they are all the next task has, its Wait never
  returns, timeout or not.

* *Stale RequestMeta* (`connector_stale_meta`).  A preempted request comes back when all
  its full blocks are in the engine's own cache: the lookup returns before it renews the
  RequestMeta (`ucm_connector.py:1333`), and the old one makes the request dump blocks
  under the keys of other positions.
* *Recovery without its constructor* (`patch_sparse`).  With ENABLE_SPARSE the sparse patch
  replaces the `Scheduler.__init__` that sets `failed_recving_kv_req_ids`; the recovery
  methods that read it stay in force.

Five more were seen with small variations of the runs and are limits of what the
passing runs claim.  *Recovery of a bystander*: where `update_connector_output` recovers from
failed loads it resets only the requests whose own load failed (`ucm_connector.py:1826-1848`); the
engine also computes again every request that shares a failed block, and the `token_processed`
of such a request stays ahead of it, so that later steps dump hashes and blocks of different
numbers, which the store refuses ("invalid dim", `Misfit`), or blocks not computed yet.  `DispatchAligned` without its condition `InStep` shows it in
the setup with a failed load of a shared block.  *Early return*: `NoCopyAfterReturn` fails for a load of two
shards when the backend rejects the second one ("submit" fault): the latch opens in
the dispatcher while the first shard is on its way to the device.  *Stale lookup*:
`FoundIsPresent` fails without its guard `~faulty`: a node whose load or dump failed
still counts as a hit.  *Part of a block*: a lookup asks the table for shard 0 of a block
only (`buffer_manager.h:95`).  A block whose shard 0 is buffered is reported while its other shards were
neither dumped nor stored yet, or were evicted, where `ucmstore_v1.h:70-80` promises "**true** if blocks[i] is
present"; `FoundIsPresent` without `early` shows it.  *Holes*: a dump skips a shard whose node is
in use (`dump_queue.cc:131`), and the backend's workers take shards in any order, so the last shard may commit
the block's file without the others, also over a whole file (`trans_queue.cc:129-131`).  The backend has the block,
and a later load of the missing shard reads what the file's hole holds, as a success; `FoundIsPresent` without
`torn` shows it.  Both need blocks of at least two shards, as the layerwise connectors make them;
for blocks of one shard `FoundIsPresent` has no such exception.  `LoadCorrect` and `CacheCoherent` hold under backend faults
for tasks of one shard (`FaultsStayLocal`); under timeouts and device errors a
dropped Handle may leave a copy or a backend load writing into a reused node.

While modelling, the following was read off the code or shown by a setup that the runs
leave out.  Each is a place where a property above is as narrow as it is.

* **Posix store.**  Two processes that dump the same block of two shards share its `.tmp`
  file: one commits between the other's shards, whose last shard then creates and commits a
  file with a hole; all dumps report success (`trans_queue.cc:130`, `space_layout.cc:114`).
  With several workers in one process the last shard may be done first, with the same effect.
  With three dumps of a one-shard block a rename may move a file another one has just created
  and not written; the next rename repairs it, a load in between fails.  The result of
  `CommitFile` is ignored: a dump whose rename fails reports success and stores nothing.  An abandoned worker (`thread_pool.h:261`) ends its I/O a second
  time and may touch memory after Wait.  The I/O has then counted twice, so Wait reports the failure
  while a later shard of the task is queued, and takes the task out of `failureSet_`: the worker that takes
  that shard no longer sees the failure, and if it is the last one, commits a file with a hole, which
  loads as a success (`trans_queue.cc:117-131`; a dump of three shards).  An abandoned prefix lookup
  keeps a pointer to the caller's blocks.  `OnLookupPrefixTimeout` uses one weak compare-exchange, which may fail
  without reason and leave the status OK (`space_manager.cc:152`).  A round of the collector
  that hits its limit is followed by another one without asking whether it is still due
  (`shard_gc.cc:99`).
* **Health breaker.**  The gauge is read and written outside the lock: concurrent checks may
  leave an old value (`health_breaker_store.cc:199`).
* **Connector.**  A step with a failed load still dumps, against its message "failed to load,
  skip caching." (`ucm_connector.py:1847`); a later request hits these blocks and
  samples from them (setup `TaintedHit`; of the hybrid connectors too, `hla_connector.py:1741-1773`).  The scan for invalid
  blocks covers `num_cached_tokens` only (patch `v0180` scheduler 35-98, `v0110` 179-277), and a preempted request keeps
  the number of its first admission: what it loads behind it when it resumes, and fails to
  load, is never found (setup `ResumeLoadFault`).  A request that shares a failed block with an earlier one "can still
  consider this block as computed" (`v0110` scheduler 241-246, 262-273): if the earlier one computes only a chunk of
  the block in the next step, is preempted or aborted, the other goes on over what failed to load
  (`ResumeSharedFault`).  Also: a negative
  `local_layer_id` is possible (about 261); direct mode with pipeline parallelism takes a
  block size of one stage (393-396).  Hybrid: the `load_tokens_threshold` of FAWA returns
  early for a resumed request (`hma_connector.py:871`); nothing checks that a window's
  `token_block_size` is at most the `hash_block_size`.
* **Sparse.**  A prompt that fills its last block makes the window wrong (`esa.py:396-420`,
  `multistep.py:329-338, 904-936`); a request that ends with loads in flight leaves them
  writing (`esa.py:515-521, 759-764`); results of waits are ignored (`esa.py:284-293`);
  KVStar may meet `blk_repre` None (556-564) and a missing key (724); blocks are freed
  although the following allocation fails; shared blocks are overwritten.
* **GSA on device.**  The prefix length is wrong for chunked and resumed requests; CUDA GQA
  takes `query[:num_reqs]` as the decodes (`gsa_on_device.py:804`); a prefill of one token
  counts as a decode with MLA (731, 1449-1455); NPU keeps an old `batch_size_for_hamming`
  (624-660, 843-878); prefixes that end inside a block shift keys (472-486, 607-619).
* **Blending.**  A hit beyond the first chunk (`blend_connector.py:248-263, 308-312`), a resumed
  request of one token (about 438), a new request that is masked out (`blend.py:115-118,
  191-198`), a new request without a full block, which the connector gives no metadata: looking it
  up is a KeyError (195); finished requests are not always forgotten (466).
* **MindIE.**  With scp above 1 a local index is taken for a global one
  (`prefix_cache_plugin.py:328-333, 406-412`); the result of get is ignored; a missing comma joins
  two names (`unifiedcache_mempool.py:212-215`); tensors are stored and loaded in different
  orders (228-242, 346-352).  **Mooncake**: a load whose wait timed out still runs (305-309),
  and shutdown may overlook a task that is being posted (184-192, 335-345); a lookup that has passed
  its check of the flag may ask a store that shutdown has closed, which then finds nothing (151-158).  **SGLang** and
  **pipeline**: a shrunk shard is rounded down (`pipeline/connector.py:231-235`); a builder may
  return with nothing stacked (224-229); pcstore ignores the shard index (185-237); SGLang keys
  lack the pipeline rank.
* **Metrics.**  `aggregate` overwrites counters of one step's outputs (`metrics.py:143-158`);
  histograms whose buckets differ in number are dropped; the logger ends without a last drain.
* **Patches.**  The second hook on a module that is already loaded is skipped
  (`utils.py:96-100`, against the docstring at 88); `sparse_ascend_patch.py:70-74` injects
  "reset_now" for `reset_row`.  **Cores**: NPUs are never asked for their cores
  (`ucm_connector.py:124-128`); a single core leaves the store none.  **Start-up**: the mock
  connector counts the engine's own blocks as external ones (2496-2515); the lite one has no
  `get_block_size`; `use_layerwise` is documented as true by default (`pipeline_store.md:157`)
  and is False (2664-2668).

## 6. Proofs

`SpscRingQueueProofs`, for one producer, every capacity above one and every set of
values.  `RingInv` is the inductive invariant: indices are the numbers of pushes
and pops modulo the capacity, at most `Capacity - 1` elements lie between them,
slots between tail and head hold them in order, and a program counter that is past
its check knows what the check found, since the other end can only have made more
room (or more elements) meanwhile.  `FifoOrder` and `NoSlotRace` follow from it but
are not inductive: neither says what the slots hold.  `RingRefinesFifo` maps the
queue to the elements between the counts and shows that the two index stores are
the steps of `BoundedFifo` and all others stutter.  Assumed: `Capacity > 1`, one
producer.

`CacheTableProofs`, `TableSafe`: for all keys, nodes and clients (finite), type
correctness, one node per key, reference counts equal to the number of Handles,
a held node keeps its key, one owner.  The conjuncts need one another: a node is
unreferenced only if no client holds it (exact counts), so claiming or evicting
it changes no held node (pinning), so the owner of a LOADING node is unique.

`TransBufferProofs`, for every number of threads, keys, nodes and buckets and both
strategies: `ReserveHolds`, `ChainsHold`, and `TableImplemented`, the refinement of
`CacheTable`.  `ChainsConsistent` is far from inductive: it says nothing of a bucket that is
locked, nor that a walk which reached the end of a chain has seen all of it.  The
inductive invariant `Inv` is `TypeOK`, what each program counter knows (`ClientInv`: locks
it holds, the node it looks at, what its checks found), one bound node per key (`KeyInv`) and
`ChainInv`: there is an order of the nodes of a bucket in which `next` is the next lower and
`prev` the next higher one, the head is the highest, a node half-way through `Remove` is
skipped, and a walk has passed only nodes above its own, none with its key.  With an order
instead of paths, unlinking and linking are updates of two or three nodes, which the update
lemmas at the start of the module state once (`PrevSet`, `NextSet`, `LinkSets`, ...); a new
head gets a place above all others.  TLC checked `Inv` on both tables before it was proved.
Every step is then a step of `CacheTable` or a stutter: the hit under the node's lock, the
claim at the end of `Alloc` (no other node has the key, because the walk saw the whole
bucket and the bucket has been locked since) and the unlinking.  Assumed
(`TableAssumption`, `NoKeyAssumption`): the nodes are `0 .. NNode - 1`, there is at least one,
the reserve is at most half of them, every key has a bucket, `Nil` is neither node, bucket
nor client, and `NoKey` is no key.

`LocksNeverDeadlock`, under the same assumptions: bucket mutexes and node locks are never waited for
in a circle.  Whoever holds a node lock also holds the bucket of that node, except at the try-lock
of the old bucket, which gives up instead of waiting (`HolderOwnsBucket`).  So a thread that holds a
bucket and waits for a node in it waits for a thread at the try-lock, which can step; and a
thread that waits for the candidate of `FetchNode` waits for one that is in a bucket
or can step.  That the nodes met in a bucket belong to it is `ChainInv` again.

No run checks `CacheTable` by itself.  `TableImplemented` and `TableSafe` together give the
promises of the table for the lock-level code; the composition is one implication and not a
theorem here, because the prover does not look into the theorems of an instantiated module.

`LookupProofs`, for every number of blocks and of shards: `FoundIsPresentHolds` and
`FindsWhatStaysHolds`.  The first needs that what was hit or reported, unless hit early, is sure
to stay (`CountsAreSure`: the backend has it, or it is the only shard of its block and on its way there), that
a file has all shards of its block unless it was torn (`FileInv`), and that the misses are in
order, since the index of the first miss the backend does not have cuts off what is
reported.  The second needs that a missed block that stays is in the backend from
the probe on (`LookupInv`): it was present and its shard 0 in no node, and what the backend has
it keeps unless it drops it.  Assumed is only that a lookup names a natural number of blocks, which have at least one
shard (`LayoutAssumption`).

`HitHolds`, in the same module: `HitRight` for any number and kind of groups and whatever each of
them still holds.  The groups shorten each other's hit, and a window that served a longer hit need
not serve a shorter one, so what makes the loop right is which answers are still good when it
stops (`HLoop`): a full group's first answer covers every shorter hit and is only cut; any other
group was asked in the last round, and its answer lies between the hit and the length the
round began with.  If the round shortened nothing, the two are equal; with two groups of which the first
is full, one round is enough because the second was asked last.  Every length that all groups can
serve stays below the hit (`HLongest`), since a manager's answer is the most it can give.  The allocation
is arithmetic on what is left out at the front of a window.  Assumed (`HitShape`): blocks
and ratios are positive, `lcm_block_size` is a multiple of every block, a window has at least two
entries, as the configurations of the engine have it.

`CacheStoreProofs`, for every scenario, number of processes, nodes and tasks, every depth of
the queues and **every fault**: `StructureHolds` and `HandlesCountedHolds`.  `HandlesCounted`
is not inductive: when a stage drops a Handle and lowers a count, the number of Handles falls
by one only if no other stage has the same one.  `Structure` says so.  `Loading` and `Dumping`
describe the places of one process: what the dispatcher, `running_`, the transfer thread and
`holder_` have are shards of loads of that process, each the shard of its index, and of one
task the earlier shards are further on (`Ahead`), so none is at two places; the same for the dump
thread, its queue and the dumper.  `Counts` says that each node's count is the number of
Handles on it.  The places are operators on one process's state, so a lemma about one
queue operation is stated once and says nothing of other processes.

`CacheContentProofs`: `ContentsHold`, `Spec => [](Tolerated => Contents)`, and from it
`FaultsStayLocalHolds`, `DiskCorrectHolds`, `NoCopyAfterReturnHolds` and `EvictionSafeHolds`.
`Tolerated` is the condition of `FaultsStayLocal`: no faults, or backend and submit faults with
tasks of one shard.  `Contents` says what the node of a shard holds at each place it may be in:
a pinned node keeps its key (`Bound`, from the counts of `Structure`); a node that is being
written has one writer and no reader (`Alone`); a gathered shard is on its way from the device or
has arrived, copies towards the device read READY nodes (`Filled`); READY nodes and the backend
are right (`Right`); a backend load that ended well has filled the node of the shard that waits
for it, and none runs for a shard nobody waits for (`Answered`, `Asked`).  The last one is what a
failed load of several shards breaks (section 5).  A task that failed or is done is at no place any
more (`Open`), which gives `NoCopyAfterReturn`; every shard of an unfinished load has arrived or is
on its way (`Coming`), which gives `LoadCorrect` when the latch opens.  Without faults nothing fails
(`Sound`), and a READY node whose key the backend lacks is held by the dump that will store it
(`Kept`), which gives `EvictionSafe`.  Assumed (`StoreAssumption`): loads and dumps are
different tasks, a task has a process and at most `MaxShards` shards, queues have at least one place,
`None` is nothing else.  `Faultless` includes that loads ask for keys that are on disk, as
the connector does after a lookup: a load of an absent key is a backend failure.

`ServiceProofs`, `BreakerHolds`, for every window, threshold, limit of workers and number
of threads: `BreakerRight`.  The window is the last `window` results in the order of
`RecordHealth` (`KWindow`), the counter is the number of failures among them (`KCount`), and
the breaker is open exactly when some earlier window had too many failures and none since was
full of successes (`KEnabled`): a statement about the whole history, which the code decides
from one counter and one flag.  The
worker limit is `KWorkers`; after the destructor no thread is inside (`KGone`).  Assumed
(`BreakerAssumption`): what `Start` accepts, a threshold between 1 and the window.

`ServiceProofs`, `MooncakeHolds`, for any clients, lists of keys, faults and evictions:
`MooncakeRight`.  The truth of what wait returns is that of the future, of the result handle
still in the loop's queue, and of the coroutine that is half-way through its blocks, so `OInv`
says of each that it tells the truth (`OTold`, `OHandles`, `ORunning`), that a call
not yet posted has left none of them (`OSilence`), without which a later call could spoil an earlier
excuse, and that a task a client is about to wait for is in the table unless the shutdown took it
(`OTabled`: numbers of tasks differ).  The loop stops for the shutdown only and between
coroutines (`OStops`), which is why the store is closed last.  Assumed (`MooncakeAssumption`):
no client is called 0, which stands for nobody, and calls name lists of keys.

`ServiceProofs`, `PosixHolds`, for any tasks, processes that share the directory, numbers of workers,
shards and lookup workers, crashes, timeouts, I/O errors and abandoned workers: `PosixRight`.
`FInv` is the inductive invariant.  `FQueues`: the latch of a task counts its I/Os that are queued or
under way as long as none of its workers was abandoned, and a task that is over has none left; a task
leaves the queue from the front.  From it follows that after Wait no worker has the task's memory.  For blocks of one
shard a load is right because the file it reads holds what it asks for or the read comes back empty
and fails; for blocks of several shards every committed file has to be whole (`FOneByOne`): a shard is
opened when those before it in the block have been written (`FPassed`, `FWritten`) to the `.tmp` file
that still has its name, so nothing is missing when the last one is renamed.  `FLoads` says what a
load that has not failed has read or still has in the queue.  `FDumps` says of dumps without faults that the last
shard of each block is queued, under way or committed, and that a file of one shard that is
not yet whole is being filled, even if another process has renamed it, so that all is whole
when the dumps are done.  `FSearch` says of a lookup that each position before the first miss was a hit
or has a worker that will come to it: a worker's positions are a round apart.  TLC checked `FInv` on
three families of setups, with up to 3.6 million states, and the proof corrected the property: the
case of the abandoned worker (section 5) was found where `FPassed` could not be shown.  Assumed
(`PosixAssumption`): blocks have a shard and lookups a worker, and tasks name shards of blocks.

`ServiceProofs`, `SglangHolds`, for any number of ranks, a latent cache or one shared out by heads,
either version 1 store, any page size, pool, keys, evictions and failed transfers: `SglangRight`.
The arithmetic comes first: a piece has the size of a store's tensor and a block that of a page
(`YSetupIs`); `_generate_task` writes the addresses of a page into one row (`YRowsAre`); the rows
that `UcmPcStoreV1` flattens are grouped as they were (`YGroupedIs`); a dump therefore stores under the
rank's key what the page holds, and a load of it fills that page and no other of the request
(`YAfterDumpIs`, `YAfterLoadIs`).  `YInv` is the inductive invariant.  `YNativeOK`: what is stored under a
key and a suffix is what *every* rank with that suffix computes, so it matters that the suffix
names the rank unless all ranks compute the same.  `YAnswers`: an answer to get is nothing or
all pages, and in the second case the pages hold what was asked for, so the least answer of all
ranks never lets a page in that some rank has not fetched.  `YBackedUp`: until something fails,
a key whose backup has ended is stored for every rank; with a latent cache the ranks that answer
without dumping rely on rank 0, whose answer is waited for too.  Assumed (`SglangAssumption`): there
is a rank, keys and values have halves of a page, and the keys of a request differ (each is the
hash of all tokens up to its page) and fit into the pool.

`ServiceProofs`, `PipelineHolds`, for every registered pipeline and all sizes: the stack is what the
registry lists, each layer with the sizes its builder derives (`ZInv`), and only four pipelines have
a store below another layer.  The rest is arithmetic: a compressed shard that is whole
pages is not rounded, and a block stays as many shards.  Assumed (`PipelineSetup`): positive sizes,
blocks of whole shards except where the compressing builder checks it, and a compressed shard
of at least a page (with none the builder would give the store shards of no bytes).

`UcmConnectorProofs`, `DispatchHolds`, for every setup, that is any requests, prompts, block
sizes, context-parallel width, speculative tokens, chunks, faults and preemptions:
`DispatchAligned`, the ranks get as many hashes as engine blocks.  The inductive invariant
`MetaInv` adds what a RequestMeta was made from (`Metas`: its hashes are those of the tokens
it counted, its hits are at most its hashes); that the engine blocks given to a request hold the
tokens planned for it and those that are loaded (`Planned`); that the connector has been told all
engine blocks of a running request (`Covered`), without which a slice of blocks would be shorter than
the slice of hashes; and, where recovery drops the RequestMeta, that what was dispatched is what
was computed (`Popped`).  That last part has a second disjunct, `Stale`, for a request that
came back with an old RequestMeta (section 5): its dumps are under wrong keys, but still aligned, because
its hashes come in whole blocks and at most one block is left to compute.  Here the bound on the
recomputed tokens is needed.  Assumed (`SetupAssumption`): sizes are positive, a prompt is not longer than
its maximum, chains are long enough, and the tokens recomputed after a full hit (one, or
two more than the speculative ones) fit into a block.  The first section of the module
is arithmetic of products, quotients and remainders, which the provers need in small steps, and the
existence of least and greatest numbers from the well-foundedness of the natural numbers.
The attempt to prove the property without `InStep` found the *recovery* case of section 5.

`UcmConnectorProofs`, `ClearedHolds`, for every setup: `ClearedIsStored`, when a block leaves the
tracker of inconsistent blocks, every rank has it in the store in every layer.  The scheduler clears a
block that all ranks confirm; a rank confirms at `finish_dump` what its account has dumped and not
failed; tasks are submitted layer by layer, deferred by the predictor, refused by the store, and land
or fail in any order.  The inductive invariant `ClearInv` follows one rank: each block its account
counts is lost (the account or a failed task not yet waited for says so) or *each* of its layers is
stored, flies in a pending task, or is still ahead of the hooks of this step (`AccountOf`, `Secure`).
`get_finished` ends the account of a request after its last task and outside of a
forward, so the last two cases are gone and what it confirms is stored (`Confirmed`).
Between the ranks, `ClearedIs` and `ToldIsStored` show that a cleared block was confirmed by each rank,
or by the one that stands for all where keys are shared (MLA).  Neither the misaligned dumps of
section 5 nor stale RequestMetas are excluded.  Proving it corrected the model twice: a dump whose
numbers of hashes and blocks differ is refused by the store and was accepted here, and the direct
connector leaves its account alone when it has no block.  Assumed besides the above: at least one
rank and one layer, and finitely many blocks in all prompts.

TLC checked each of these invariants on the instances of the runs before it was proved.

Only model-checked:

* liveness (`EveryPushConsumed`, `EveryWaitReturns`, `DumpDurable`, `HeldIsFreed`), which is out of the prover's reach;
* of the connector `OutputRight` and `StoredRightUnlessFailed`, which speak of the contents of every
  engine block under every interleaving of dumps with later steps and need the engine's allocator in
  the invariant;
* the machines of `MCServices` other than the breaker, the Mooncake, posix and SGLang stores, the
  hybrid lookup and the pipelines.  Layouts, patches, blending, metrics and the MindIE pool are written
  with folds over sequences and sets, as their code loops over lists: what a fold
  computes for every list is induction over data, which the provers do not do.  Cores are ordered
  by cardinality, start-up takes minima and multiples of its groups' blocks, with the same difficulty;
  both are computations on a setup, checked setup by setup.  Sparse, hybrid and blending models carry the
  exceptions of section 4, which are described by the setups that show them.

## 7. Not modelled

* The AIO engine of the posix store, the set-up of its directories and the ages of files; the
  health check of a store (what `HealthBreaker` calls).
* Cache store: creation and mapping of the shared memory, a process that dies holding a lock
  or a reference (`trans_buffer.cc:247` ignores EOWNERDEAD), the launch by task of SDMA direct, the
  stop of its threads with work left, a failed backend dump as seen by the caller (it is only
  logged, `dump_queue.cc:213`).
* The epilogue of the latch, the index pool, the internals of the hash set.
* Kernels, encoders, compression, device copies: numerical code and device libraries, which
  appear as arbitrary choices or external actions.  The older GSA (`sparse/gsa`), which nothing
  registers any more.
* Stores that wrap other clients (DS3FS, NFS, PC): no protocol of their own.  Logging,
  benchmarks, tools, sandbox.  Patch bodies that copy engine code and change nothing a module
  here needs.
* The memory model below sequential consistency; the ring's ordering argument is in section 3.

Worth doing next: the AIO engine as a second engine of `PosixStore`; an abstract backend that
`PosixStore` implements and `CacheStore` uses; the destruction of a store with work left; proofs
of `MindieRight` and of the connector's memory invariants.

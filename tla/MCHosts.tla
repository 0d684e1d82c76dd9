------------------------------- MODULE MCHosts -------------------------------
(***************************************************************************)
(* Small deployments of what stands around the connectors: the MindIE pool *)
(* and the SGLang and Mooncake stores, the pipeline of stores, the store   *)
(* of block files, the health breaker, metrics, start-up, core affinity    *)
(* and the patches of the engine.                                          *)
(***************************************************************************)
EXTENDS MindiePool, MooncakeStore, SglangStore, StorePipeline, PosixStore, HealthBreaker, MetricsFlow, ConnectorStart, CpuAffinity, PatchHooks

(* MindIE: prompts that share a prefix, on one to three ranks. *)
Prompt1 == <<1, 2, 3, 4, 5, 6, 7>>
Prompt2 == <<1, 2, 3, 4, 8, 9, 7>>
Prompt3 == <<5, 6, 7>>
MindieBase == [bs |-> 2, prompt |-> <<Prompt1, Prompt2, Prompt1>>, ranks |-> 2, tp |-> 2, dp |-> 1, dpOf |-> <<1, 1, 1>>, mla |-> FALSE, scp |-> FALSE,
               apc |-> FALSE, async |-> FALSE, pool |-> 12, fails |-> 1, skew |-> 0, ages |-> {}, longest |-> 3,
               layers |-> 2, kSize |-> 1, vSize |-> 1, bypassGet |-> FALSE, bypassPut |-> FALSE, bypassExists |-> FALSE]
MindieSets == {MindieBase, [MindieBase EXCEPT !.mla = TRUE], [MindieBase EXCEPT !.mla = TRUE, !.ranks = 3, !.tp = 1, !.async = TRUE],
          [MindieBase EXCEPT !.scp = TRUE, !.prompt = <<Prompt1, Prompt3, Prompt2>>],
          [MindieBase EXCEPT !.dp = 2, !.ranks = 1, !.tp = 1, !.dpOf = <<1, 1, 2>>, !.apc = TRUE],
          [MindieBase EXCEPT !.apc = TRUE, !.async = TRUE],
          [MindieBase EXCEPT !.prompt = <<Prompt3>>, !.skew = 4, !.ages = {2}, !.bypassPut = TRUE, !.bypassGet = TRUE, !.bypassExists = TRUE]}

----------------------------------------------------------------------------
(* Mooncake: two calls that share keys, one fault, a shutdown. *)
Key1 == <<1, 0>>
Key2 == <<1, 1>>
Key3 == <<2, 0>>
OCallOf(kind, keys) == [kind |-> kind, keys |-> keys]
MoonBase == [calls |-> <<OCallOf("load", <<Key1, Key2>>), OCallOf("dump", <<Key3, Key2>>)>>, held |-> {Key1, Key2}, faults |-> 1, shutdown |-> FALSE]
MooncakeSets == {MoonBase, [MoonBase EXCEPT !.shutdown = TRUE, !.faults = 0], [MoonBase EXCEPT !.held = {Key1}],
          [MoonBase EXCEPT !.shutdown = TRUE, !.faults = 0, !.calls = <<OCallOf("load", <<Key1, Key2>>), OCallOf("load", <<Key2>>)>>]}

----------------------------------------------------------------------------
(* SGLang: two prefixes, two ranks, one fault. *)
SglangBase == [ranks |-> 2, mla |-> FALSE, model |-> "m", pageBytes |-> 4, store |-> "pipeline", pool |-> 4,
               prefixes |-> {<<1, 2>>, <<1, 3>>}, ops |-> 5, faults |-> 1, layout |-> "page_first"]
SglangSets == {SglangBase, [SglangBase EXCEPT !.mla = TRUE], [SglangBase EXCEPT !.store = "pc", !.prefixes = {<<1, 2, 3>>, <<1>>}],
          [SglangBase EXCEPT !.layout = "layer_first"], [SglangBase EXCEPT !.store = "pc", !.mla = TRUE, !.prefixes = {<<1, 2, 3>>, <<1>>}]}

----------------------------------------------------------------------------
(* Every registered pipeline, and an unknown one. *)
PipeNames == {"Cache|Ds3fs", "Cache|Empty", "Cache|Posix", "Cache|Fake", "Cache|Compress|Posix", "Mooncake|Posix", "Mooncake", "Posix", "Empty", "Fake", "None"}
PipeSets == {[name |-> n, device |-> d, tensor |-> t, shard |-> 16384, block |-> b, ratio |-> r] :
              n \in PipeNames, d \in {-1, 0}, t \in {4096, 8192}, b \in {16384, 32768}, r \in {16, 32}}
  \union {[name |-> "Cache|Compress|Posix", device |-> 0, tensor |-> 4096, shard |-> 16384, block |-> 40000, ratio |-> 16]}

----------------------------------------------------------------------------
(* Metrics: two processes or one, two or three roles. *)
EMetric(type, buckets, vllm) == [type |-> type, buckets |-> buckets, vllm |-> vllm]
MetricsBase == [proc |-> [r \in {"scheduler", "0"} |-> r], buckets |-> 2, vllmBuckets |-> 2, consumers |-> {"multiproc", "vllm"}, patched |-> FALSE,
   metrics |-> [n \in {"loads", "rate"} |-> IF n = "loads" THEN EMetric("counter", 0, TRUE) ELSE EMetric("gauge", 0, TRUE)],
   left |-> [updates |-> 2, rounds |-> 2, steps |-> 1]]
EHists == [n \in {"time", "hits"} |-> IF n = "time" THEN EMetric("histogram", 2, TRUE) ELSE EMetric("counter", 0, FALSE)]
MetricsSets == {MetricsBase, [MetricsBase EXCEPT !.proc = [r \in {"scheduler", "0"} |-> "only"], !.metrics = EHists, !.patched = TRUE,
             !.left = [updates |-> 2, rounds |-> 1, steps |-> 2]],
          [MetricsBase EXCEPT !.proc = [r \in {"scheduler", "0", "1"} |-> r], !.consumers = {"vllm"}, !.metrics = EHists, !.left = [updates |-> 2, rounds |-> 0, steps |-> 2]],
          [MetricsBase EXCEPT !.metrics = EHists, !.vllmBuckets = 3,
             !.left = [updates |-> 1, rounds |-> 1, steps |-> 1]]}

----------------------------------------------------------------------------
(* Start-up: parallel engines, files left behind, groups of caches. *)
StartBase ==
  [dp |-> 1, tp |-> 2, multi |-> TRUE, spans |-> TRUE, share |-> TRUE, files |-> <<>>,
   groups |-> <<[spec |-> "FullAttentionSpec", bs |-> 16, window |-> FALSE, ratio |-> 1]>>, tensors |-> {{1}},
   platform |-> "cuda", lite |-> FALSE, lw |-> FALSE, lwHybrid |-> TRUE, pp |-> 1, cp |-> 1, ratio |-> <<>>,
   base |-> 16, prompts |-> {}, local |-> {0}, requests |-> {}]
StaleFile(age) == [id |-> <<"stale", 0>>, age |-> age]
AscendGroups(c4) ==
  <<[spec |-> "MLAAttentionSpec", bs |-> c4, window |-> FALSE, ratio |-> 4],
    [spec |-> "MLAAttentionSpec", bs |-> c4, window |-> FALSE, ratio |-> 128],
    [spec |-> "AscendSlidingWindowMLASpec", bs |-> 8, window |-> TRUE, ratio |-> 1]>>
HybridGroups ==
  <<[spec |-> "FullAttentionSpec", bs |-> 16, window |-> FALSE, ratio |-> 1],
    [spec |-> "MambaAlignSpec", bs |-> 48, window |-> FALSE, ratio |-> 1]>>
StartSets ==
  {StartBase,
   [StartBase EXCEPT !.files = (<<"core", 1>> :> StaleFile("young")) @@ (<<"api", 1>> :> StaleFile("old"))],
   [StartBase EXCEPT !.multi = FALSE, !.tp = 1,
                     !.files = (<<"core", 1>> :> StaleFile("old")) @@ (<<"api", 1>> :> StaleFile("young"))],
   [StartBase EXCEPT !.multi = FALSE, !.tp = 1, !.dp = 2, !.lw = TRUE],
   [StartBase EXCEPT !.dp = 2, !.spans = FALSE, !.tp = 1, !.files = (<<"core", 2>> :> StaleFile("young"))],
   [StartBase EXCEPT !.share = FALSE, !.lw = TRUE, !.pp = 2],
   [StartBase EXCEPT !.pp = 2],
   [StartBase EXCEPT !.cp = 2],
   [StartBase EXCEPT !.groups = AscendGroups(32), !.base = 32, !.platform = "npu", !.dp = 2, !.tp = 1],
   [StartBase EXCEPT !.groups = AscendGroups(16), !.base = 16, !.platform = "npu"],
   [StartBase EXCEPT !.groups = <<[spec |-> "MLAAttentionSpec", bs |-> 256, window |-> FALSE, ratio |-> 1],
                                  [spec |-> "SlidingWindowMLASpec", bs |-> 64, window |-> TRUE, ratio |-> 1]>>, !.base = 256],
   [StartBase EXCEPT !.groups = HybridGroups, !.tensors = {{1, 2}}, !.lw = TRUE, !.share = FALSE],
   [StartBase EXCEPT !.groups = HybridGroups, !.tensors = {{1, 2}}, !.lw = TRUE, !.lwHybrid = FALSE],
   [StartBase EXCEPT !.ratio = <<1, 2>>, !.prompts = {70, 96}, !.tp = 1],
   [StartBase EXCEPT !.lite = TRUE, !.prompts = {10, 40}, !.requests = {"r1", "r2"}]}

----------------------------------------------------------------------------
(* Cores: GPUs and NPUs whose tools answer or fail. *)
CpuBase ==
  [via |-> "cuda", ranks |-> 2, devices |-> 2, numa |-> <<0, 1>>, visible |-> <<>>, broken |-> {},
   node |-> [c \in 0..7 |-> c \div 4], socket |-> [n \in 0..1 |-> n], allowed |-> 0..7, pool |-> {},
   least |-> 5, irq |-> TRUE, a950 |-> FALSE, affinity |-> TRUE]
Alternating == [CpuBase EXCEPT !.node = [c \in 0..8 |-> c % 2], !.allowed = 0..8]
NpuBase == [CpuBase EXCEPT !.via = "npu", !.ranks = 3, !.devices = 3, !.numa = <<0, 1, 2>>,
              !.node = [c \in 0..10 |-> c \div 4], !.socket = [n \in 0..2 |-> n \div 2], !.allowed = 0..10]
AllocBase == [CpuBase EXCEPT !.via = "alloc", !.pool = 0..14]
CpuSets ==
  {CpuBase, Alternating, [CpuBase EXCEPT !.numa = <<-1, 1>>],
   [CpuBase EXCEPT !.broken = {"sysfs"}, !.devices = 1], [CpuBase EXCEPT !.broken = {"sysfs"}, !.devices = 0]}
  \union {[b EXCEPT !.broken = {"sysfs", "npu-smi"}, !.allowed = a] :
            b \in {CpuBase, NpuBase}, a \in {0..6, {1, 3, 4, 8}, {2}}}
  \union {[NpuBase EXCEPT !.broken = b, !.visible = v] :
            b \in {{}, {"board"}, {"sysfs"}, {"sysfs", "lspci"}, {"lscpu", "board"}}, v \in {<<>>, <<2, 0>>, <<1, 2, 0>>}}
  \union {[AllocBase EXCEPT !.irq = i, !.a950 = a, !.affinity = f, !.pool = p] :
            i \in BOOLEAN, a \in BOOLEAN, f \in BOOLEAN, p \in {0..14, {2 * k : k \in 0..11}, 0..7}}

----------------------------------------------------------------------------
(* Patches: engine versions, switches, and modules loaded before their hooks. *)
WAll == {"_update_requests_with_invalid_blocks", "Qwen3NextGatedDeltaNet", "sfa_v1 of a known version", "sample_tokens without finalize_kv_connector",
   "CpuAlloc.bind_threads", "CompressAttentionManager", "AscendHybridKVCacheCoordinator", "find_longest_cache_hit_per_group"}
PatchBase == [version |-> 1100, ascend |-> 0, sparse |-> FALSE, enabled |-> TRUE, early |-> {"vllm.logger"}, midway |-> {}, has |-> WAll, fails |-> 1,
  modules |-> {"vllm.logger", Sched, Output, Runner, "vllm.attention.layer"}]
NpuModules == {"vllm.logger", "vllm_ascend.cpu_binding", "vllm_ascend.core.single_type_kv_cache_manager", "vllm_ascend.patch.platform.patch_kv_cache_coordinator", "vllm_ascend.attention.sfa_v1",
   "vllm_ascend.distributed.kv_transfer"}
PatchSets == {PatchBase, [PatchBase EXCEPT !.sparse = TRUE], [PatchBase EXCEPT !.sparse = TRUE, !.enabled = FALSE],
  [PatchBase EXCEPT !.sparse = TRUE, !.ascend = 1100, !.modules = {NpuRun, Output, "vllm_ascend.worker.worker_v1", "vllm_ascend.worker.block_table"}],
  [PatchBase EXCEPT !.version = 1700, !.ascend = 1700, !.modules = {Sched, "vllm_ascend.distributed.kv_transfer.kv_pool.ucm_connector", "vllm_ascend.core.recompute_scheduler"}],
  [PatchBase EXCEPT !.version = 1800, !.ascend = 1800, !.modules = {Sched, "vllm.v1.core.kv_cache_manager", NpuRun, "vllm_ascend.patch.worker.patch_qwen3_next", "vllm_ascend.distributed.kv_transfer"},
    !.early = {"vllm.logger", "vllm_ascend.distributed.kv_transfer"}, !.has = WAll \ {"sample_tokens without finalize_kv_connector"}],
  [PatchBase EXCEPT !.version = 1901, !.ascend = 1901, !.modules = {Sched, "vllm_ascend.cpu_binding", "vllm.logger"}, !.early = {}, !.midway = {"vllm.logger"}]}
 \union {[PatchBase EXCEPT !.version = v, !.ascend = v, !.modules = NpuModules, !.early = {}, !.midway = {"vllm.logger"}, !.has = h, !.fails = 0] : v \in {2002, 2100, 2201, 2300}, h \in {WAll, WAll \ {"find_longest_cache_hit_per_group"}}}
SparseSwitchedOn == {[PatchBase EXCEPT !.sparse = TRUE]}

----------------------------------------------------------------------------
(* Block files: processes dump one block, write failures and crashes, two shards, workers   *)
(* that take too long, collection against loads and against a lookup.                       *)
FJobOf(kind, p, ios) == [kind |-> kind, proc |-> p, ios |-> ios]
FBase == [jobs |-> <<>>, blocks |-> {1, 2}, nShardPerBlock |-> 1, conc |-> 1, stored |-> <<>>, faults |-> {}, nfaults |-> 1,
          lookup |-> <<>>, lookupConcurrency |-> 2, threshold |-> 2, recycle |-> 2]
PosixSets == {
  [FBase EXCEPT !.jobs = <<FJobOf("dump", 1, <<<<1, 0>>>>), FJobOf("dump", 2, <<<<1, 0>>>>), FJobOf("dump", 3, <<<<1, 0>>>>),
     FJobOf("load", 1, <<<<1, 0>>>>)>>],
  [FBase EXCEPT !.jobs = <<FJobOf("dump", 1, <<<<1, 0>>>>), FJobOf("dump", 2, <<<<1, 0>>>>), FJobOf("load", 2, <<<<1, 0>>>>)>>,
     !.faults = {"io", "crash"}],
  [FBase EXCEPT !.jobs = <<FJobOf("dump", 1, <<<<1, 0>>, <<1, 1>>>>), FJobOf("load", 2, <<<<1, 1>>, <<1, 0>>>>)>>,
     !.nShardPerBlock = 2, !.faults = {"io", "crash"}],
  [FBase EXCEPT !.jobs = <<FJobOf("dump", 1, <<<<1, 0>>, <<2, 0>>, <<1, 1>>, <<2, 1>>>>), FJobOf("load", 1, <<<<1, 1>>, <<2, 0>>>>)>>,
     !.nShardPerBlock = 2, !.faults = {"timeout", "io", "crash"}, !.nfaults = 2],
  [FBase EXCEPT !.jobs = <<FJobOf("load", 1, <<<<1, 0>>, <<2, 0>>>>), FJobOf("load", 1, <<<<2, 0>>>>), FJobOf("dump", 1, <<<<2, 0>>>>)>>,
     !.conc = 2, !.stored = <<1, 2>>, !.faults = {"timeout", "stuck"}],
  [FBase EXCEPT !.jobs = <<FJobOf("load", 1, <<<<1, 0>>, <<2, 0>>>>), FJobOf("dump", 2, <<<<2, 0>>>>)>>, !.stored = <<1, 2>>, !.faults = {"gc"}],
  [FBase EXCEPT !.jobs = <<FJobOf("dump", 1, <<<<2, 0>>>>)>>, !.blocks = 1..3, !.stored = <<3, 1>>,
     !.lookup = <<1, 2, 3>>, !.faults = {"gc", "stuck"}]}

----------------------------------------------------------------------------
(* Breaker: the probe and a caller, with room for two hung checks or for one. *)
BreakerSets == {
  [window |-> 2, threshold |-> 2, limit |-> 2, checks |-> [t \in {"probe", "caller"} |-> IF t = "probe" THEN 3 ELSE 2]],
  [window |-> 2, threshold |-> 1, limit |-> 1, checks |-> [t \in {"probe", "caller"} |-> 2]]}
==============================================================================

------------------------------ MODULE PatchHooks ------------------------------
(***************************************************************************)
(* How UCM patches vLLM and vllm-ascend.  Importing vllm triggers          *)
(* apply_all_patches, which imports the patch files of the installed       *)
(* versions; each of their functions is a hook on an engine module.  A     *)
(* hook runs when its module is imported, or at once if the module is      *)
(* loaded already, and replaces or wraps attributes of that module.        *)
(*                                                                         *)
(* A hook is a module, the patch set it belongs to (by), the attributes it *)
(* gives a new implementation, whether it replaces or wraps them, and what *)
(* the engine must have for it to act (needs).  The implementation of an   *)
(* attribute is the sequence of patch sets it consists of; <<>> is the     *)
(* engine's own.                                                           *)
(***************************************************************************)
EXTENDS Naturals, Sequences, SequencesExt

CONSTANT PatchSetups

VARIABLES wcfg,    \* versions, switches, the modules of the process
          wtodo,   \* hooks still to be registered
          whooks,  \* _POST_IMPORT_HOOKS: module -> sequence of hooks
          wmods,   \* sys.modules
          wflag,   \* modules with _ucm_patched
          wlate,   \* modules -> hooks registered after they were loaded
          wimpl,   \* <<module, attribute>> -> implementation
          wfails,  \* imports that may still fail
          wpc
wvars == <<wcfg, wtodo, whooks, wmods, wflag, wlate, wimpl, wfails, wpc>>

Hook(mod, by, names) == [mod |-> mod, by |-> by, names |-> names, how |-> "replace", needs |-> {}]
Wrap(mod, by, names) == [Hook(mod, by, names) EXCEPT !.how = "wrap"]
\* A wrapper that marks what it wrapped, and wraps it once.
WrapOnce(mod, by, names) == [Hook(mod, by, names) EXCEPT !.how = "once"]
If(hook, needs) == [hook EXCEPT !.needs = needs]

Sched   == "vllm.v1.core.sched.scheduler"
Output  == "vllm.v1.core.sched.output"
Runner  == "vllm.v1.worker.gpu_model_runner"
NpuRun  == "vllm_ascend.worker.model_runner_v1"

----------------------------------------------------------------------------
(* The patch files. *)

LoggerPatch == <<WrapOnce("vllm.logger", "ucm", {"handlers"})>>

PcPatch0110Engine == <<
  Hook("vllm.attention.layer", "pc", {"wait_for_kv_layer_from_connector", "maybe_save_kv_layer_to_connector"}),
  Hook("vllm.distributed.kv_transfer.kv_connector.v1.base", "pc",
       {"KVConnectorBase_V1.get_block_ids_with_load_errors", "KVConnectorBase_V1.has_connector_metadata"}),
  Hook(Output, "pc", {"SchedulerOutput"}),
  Hook(Output, "pc", {"CachedRequestData"}),
  Hook("vllm.v1.outputs", "pc", {"KVConnectorOutput", "KVConnectorOutput.is_empty"}),
  Hook("vllm.v1.core.block_pool", "pc", {"BlockPool.cache_full_blocks"}),
  Hook("vllm.v1.core.single_type_kv_cache_manager", "pc", {"SingleTypeKVCacheManager.cache_blocks"})>>
PcPatch0110Scheduler == <<
  Hook("vllm.v1.worker.gpu_worker", "pc", {"Worker.execute_model"}),
  Hook(Runner, "pc", {"_update_states"}),
  Hook(Sched, "pc", {"__init__", "_update_requests_with_invalid_blocks", "_handle_invalid_blocks",
                     "_make_cached_request_data", "update_from_output", "_update_waiting_for_remote_kv"}),
  Hook("vllm.distributed.kv_transfer.kv_connector.utils", "pc", {"KVOutputAggregator.aggregate"}),
  Hook("vllm.v1.worker.kv_connector_model_runner_mixin", "pc", {"_get_kv_connector_output"})>>
PcPatch0110 == PcPatch0110Engine \o PcPatch0110Scheduler

SparsePatch0110Engine == <<
  Hook("vllm.attention.layer", "sparse", {"unified_attention", "unified_attention_with_output"}),
  Hook("vllm.model_executor.models.llama", "sparse", {"LlamaDecoderLayer.forward", "LlamaModel.forward"}),
  Hook("vllm.model_executor.models.qwen2", "sparse", {"Qwen2DecoderLayer.forward", "Qwen2Model.forward"}),
  Hook("vllm.v1.attention.backends.mla.common", "sparse", {"MLACommonImpl.forward"}),
  Hook("vllm.v1.core.kv_cache_coordinator", "sparse", {"get_num_blocks_to_allocate"}),
  Hook("vllm.v1.core.kv_cache_manager", "sparse", {"allocate_slots"}),
  Hook("vllm.v1.core.kv_cache_utils", "sparse", {"get_kv_cache_config_from_groups"}),
  Hook(Output, "sparse", {"SchedulerOutput"}),
  Hook("vllm.v1.worker.block_table", "sparse", {"BlockTable.append_row", "MultiGroupBlockTable.reset_row"}),
  Hook("vllm.v1.worker.gpu_worker", "sparse", {"init_worker_distributed_environment"})>>
SparsePatch0110Runner == <<
  Hook(Runner, "sparse",
       {"_update_states", "_prepare_inputs", "execute_model", "maybe_execute_ucm_sparse_build_sparse_meta",
        "maybe_execute_ucm_sparse_begin", "maybe_execute_ucm_sparse_finished", "_make_gsa_batch_descriptor",
        "ucm_sparse_request_finished_in_worker", "ucm_sparse_update_states", "_capture_cudagraphs",
        "_dummy_run", "initialize_kv_cache_tensors"}),
  Hook(Sched, "sparse", {"__init__", "schedule", "add_request", "_free_request"})>>
SparsePatch0110 == SparsePatch0110Engine \o SparsePatch0110Runner

PcAscend0110 == <<
  Hook("vllm_ascend.attention.utils", "pc", {"wait_for_kv_layer_from_connector", "maybe_save_kv_layer_to_connector"}),
  Hook(NpuRun, "pc", {"execute_model", "_update_states"}),
  Hook("vllm_ascend.worker.worker_v1", "pc", {"NPUWorker.execute_model"}),
  Hook("vllm_ascend.compilation.acl_graph", "pc", {"update_attn_params"})>>
\* The block tables get reset_now, a name nobody calls: reset_row stays the engine's.
SparseAscend0110 == <<
  Hook("vllm_ascend.attention.attention_v1", "sparse",
       {"AscendMetadata", "build", "forward", "unified_ascend_attention_with_output"}),
  Hook("vllm_ascend.attention.mla_v1", "sparse",
       {"AscendMLADecodeMetadata", "AscendMLAMetadata", "build", "PrefillMLAPreprocessResult", "_mla_preprocess", "forward"}),
  Hook("vllm_ascend.worker.block_table", "sparse", {"BlockTable.reset_now", "MultiGroupBlockTable.reset_now"}),
  Hook(NpuRun, "sparse",
       {"_update_states", "_prepare_inputs", "execute_model", "maybe_execute_ucm_sparse_begin",
        "maybe_execute_ucm_sparse_finished", "ucm_sparse_request_finished_in_worker", "ucm_sparse_update_states",
        "initialize_kv_cache_tensors_deepseek_mla", "initialize_kv_cache_tensors"}),
  Hook("vllm_ascend.worker.worker_v1", "sparse", {"_init_worker_distributed_environment"})>>

\* register_get_free_block_patches
FreeBlockPatch == <<
  Hook("vllm.v1.core.kv_cache_coordinator", "free", {"get_num_blocks_to_allocate"}),
  Hook("vllm.v1.core.single_type_kv_cache_manager", "free",
       {"_get_num_evictable_blocks", "get_num_blocks_to_allocate", "MambaManager.get_num_blocks_to_allocate"}),
  WrapOnce("vllm.v1.core.kv_cache_manager", "free", {"allocate_slots"})>>
\* 0.18.0 and 0.19.1 share these; 0.18.0 adds the token statistics.
PcPatch0191 == FreeBlockPatch \o <<
  Hook("vllm.config.vllm", "pc", {"VllmConfig.validate_mamba_block_size"}),
  WrapOnce("vllm.model_executor.models.config", "pc", {"MambaModelConfig.verify_and_update_config"}),
  Hook(Sched, "pc", {"_mamba_block_aligned_split"}),
  Hook(Runner, "pc", {"may_reinitialize_input_batch"}),
  WrapOnce("vllm.v1.worker.mamba_utils", "pc", {"preprocess_mamba"})>>
PcPatch0180 ==
  SubSeq(PcPatch0191, 1, 3) \o <<Hook("vllm.v1.metrics.stats", "pc", {"PromptTokenStats.update_from_output"})>>
    \o SubSeq(PcPatch0191, 4, 8)
LoadFailurePatch == <<If(Wrap(Sched, "recover", {"_update_requests_with_invalid_blocks"}), {"_update_requests_with_invalid_blocks"})>>

SchedulerMetrics == <<WrapOnce("vllm_ascend.core.recompute_scheduler", "metrics", {"RecomputeScheduler.make_stats"})>>
UcmConnectorPatch ==
  SchedulerMetrics \o <<Hook("vllm_ascend.distributed.kv_transfer.kv_pool.ucm_connector", "pc", {"UCMConnectorV1"})>>
RegistrationPatch == <<WrapOnce("vllm_ascend.distributed.kv_transfer", "alias", {"register_connector"})>>
Qwen3NextPatch ==
  <<If(WrapOnce("vllm_ascend.patch.worker.patch_qwen3_next", "gdn", {"maybe_save_kv_layer_to_connector", "_forward_core"}),
       {"Qwen3NextGatedDeltaNet"})>>
MambaConfigPatch == <<Hook("vllm_ascend.patch.platform.patch_mamba_config", "pc", {"verify_and_update_config"})>>
PcAscend0180 == Qwen3NextPatch \o UcmConnectorPatch \o <<
  If(Hook("vllm_ascend.attention.sfa_v1", "pc", {"AscendSFAImpl.forward", "AscendSFAImpl.update_graph_params"}), {"sfa_v1 of a known version"}),
  If(Hook(NpuRun, "pc", {"sample_tokens"}), {"sample_tokens without finalize_kv_connector"})>> \o MambaConfigPatch
CpuBindingPatch == <<If(WrapOnce("vllm_ascend.cpu_binding", "cpu", {"allocate", "print_plan", "bind_threads"}), {"CpuAlloc.bind_threads"})>>
PcAscend0191 == UcmConnectorPatch \o MambaConfigPatch
AllocationHook ==
  If(Hook("vllm_ascend.core.single_type_kv_cache_manager", "hit", {"allocate_new_computed_blocks"}), {"CompressAttentionManager"})
CoordinatorHook ==
  If(Hook("vllm_ascend.patch.platform.patch_kv_cache_coordinator", "hit", {"find_longest_cache_hit"}), {"AscendHybridKVCacheCoordinator"})
HybridCache0202 == SchedulerMetrics \o <<AllocationHook, CoordinatorHook>>
HybridCache0210 == <<AllocationHook, CoordinatorHook>>
\* The per-group lookup is patched where the engine has it.
HybridCache0221 == <<AllocationHook, CoordinatorHook,
  If([CoordinatorHook EXCEPT !.names = {"find_longest_cache_hit_per_group"}],
     {"AscendHybridKVCacheCoordinator", "find_longest_cache_hit_per_group"})>>
HybridCache0230 == <<AllocationHook, [HybridCache0221[2] EXCEPT !.how = "wrap"], [HybridCache0221[3] EXCEPT !.how = "wrap"]>>
SfaTransfer0230 == <<Hook("vllm_ascend.attention.sfa_v1", "sfa", {"AscendSFAImpl.forward"})>>

----------------------------------------------------------------------------
(* apply_all_patches *)

VllmPatches ==
  CASE wcfg.version = 1100 -> PcPatch0110 \o (IF wcfg.sparse THEN SparsePatch0110 ELSE <<>>)
    [] wcfg.version = 1800 -> PcPatch0180
    [] wcfg.version = 1901 -> PcPatch0191
    [] OTHER -> <<>>
RecoveryPatches == IF wcfg.version >= 1800 THEN LoadFailurePatch ELSE <<>>
AliasPatches == IF wcfg.ascend \in {1800, 1901, 2002, 2201, 2300} THEN RegistrationPatch ELSE <<>>
AscendPatches ==
  CASE wcfg.ascend = 1100 -> PcAscend0110 \o (IF wcfg.sparse THEN SparseAscend0110 ELSE <<>>)
    [] wcfg.ascend = 1700 -> UcmConnectorPatch
    [] wcfg.ascend = 1800 -> PcAscend0180
    [] wcfg.ascend = 1901 -> CpuBindingPatch \o PcAscend0191
    [] wcfg.ascend = 2002 -> HybridCache0202 \o CpuBindingPatch
    [] wcfg.ascend = 2100 -> HybridCache0210 \o CpuBindingPatch
    [] wcfg.ascend = 2201 -> HybridCache0221 \o CpuBindingPatch
    [] wcfg.ascend = 2300 -> HybridCache0230 \o CpuBindingPatch \o SfaTransfer0230
    [] OTHER -> <<>>
\* The logger is patched even if the patches are switched off.
AllPatches ==
  LoggerPatch \o (IF wcfg.enabled THEN AliasPatches \o VllmPatches \o RecoveryPatches \o AscendPatches ELSE <<>>)

----------------------------------------------------------------------------
HooksOf(m) == IF m \in DOMAIN whooks THEN whooks[m] ELSE <<>>
Impl(impls, m, a) == IF <<m, a>> \in DOMAIN impls THEN impls[<<m, a>>] ELSE <<>>
\* patch_or_inject and the wrappers: what a hook makes of an implementation.
Patched(chain, hook) ==
  CASE hook.how = "replace" -> <<hook.by>>
    [] hook.how = "wrap"    -> Append(chain, hook.by)
    [] hook.how = "once"    -> IF hook.by \in ToSet(chain) THEN chain ELSE Append(chain, hook.by)
RunHook(impls, hook) ==
  IF ~(hook.needs \subseteq wcfg.has) THEN impls
  ELSE LET mine == {<<hook.mod, a>> : a \in hook.names}
       IN  [k \in DOMAIN impls \union mine |->
              IF k \in mine THEN Patched(Impl(impls, k[1], k[2]), hook) ELSE impls[k]]

PatchInit ==
  /\ wcfg \in PatchSetups
  /\ wtodo = <<>> /\ whooks = <<>> /\ wmods = {} /\ wflag = {} /\ wlate = <<>> /\ wimpl = <<>>
  /\ wfails = wcfg.fails /\ wpc = "start"

\* import vllm: VllmPatchLoader.exec_module lets the package load, with the
\* modules it imports itself, and calls apply_all_patches.
ImportVllm ==
  /\ wpc = "start"
  /\ wmods' = wcfg.early
  /\ wtodo' = AllPatches
  /\ wpc' = "apply"
  /\ UNCHANGED <<wcfg, whooks, wflag, wlate, wimpl, wfails>>

\* Mutant: the hook waits for an import even if the module is loaded.
RunsNowNever(hook) == FALSE
\* when_imported: a hook on a loaded module runs at once, the first time.
RunsNow(hook) == hook.mod \in wmods /\ hook.mod \notin wflag
WhenImported ==
  LET hook == Head(wtodo) IN
  /\ wpc = "apply" /\ wtodo # <<>>
  /\ wtodo' = Tail(wtodo)
  /\ whooks' = [m \in DOMAIN whooks \union {hook.mod} |-> IF m = hook.mod THEN Append(HooksOf(m), hook) ELSE whooks[m]]
  /\ wimpl' = IF RunsNow(hook) THEN RunHook(wimpl, hook) ELSE wimpl
  /\ wflag' = IF RunsNow(hook) THEN wflag \union {hook.mod} ELSE wflag
  /\ wlate' = IF hook.mod \notin wmods THEN wlate
              ELSE [m \in DOMAIN wlate \union {hook.mod} |->
                      (IF m \in DOMAIN wlate THEN wlate[m] ELSE 0) + (IF m = hook.mod THEN 1 ELSE 0)]
  /\ UNCHANGED <<wcfg, wmods, wfails, wpc>>
PatchesApplied ==
  /\ wpc = "apply" /\ wtodo = <<>>
  /\ wpc' = "serve"
  /\ UNCHANGED <<wcfg, wtodo, whooks, wmods, wflag, wlate, wimpl, wfails>>

\* Patch files and the engine import modules, in any order: HookingFinder
\* gives a hooked module a loader that runs its hooks after it.
ImportModule(m) ==
  /\ wpc \in {"apply", "serve"} /\ m \notin wmods
  /\ wpc = "apply" => m \in wcfg.midway
  /\ wmods' = wmods \union {m}
  /\ wimpl' = FoldLeft(RunHook, wimpl, HooksOf(m))
  /\ UNCHANGED <<wcfg, wtodo, whooks, wflag, wlate, wfails, wpc>>
\* A hook that raises makes the import fail; the module is imported anew later.
ImportFails(m) ==
  /\ wpc = "serve" /\ m \notin wmods /\ HooksOf(m) # <<>> /\ wfails > 0
  /\ wfails' = wfails - 1
  /\ UNCHANGED <<wcfg, wtodo, whooks, wmods, wflag, wlate, wimpl, wpc>>
Serving == wpc = "serve" /\ wcfg.modules \subseteq wmods /\ UNCHANGED wvars

PatchNext ==
  \/ ImportVllm
  \/ WhenImported
  \/ PatchesApplied
  \/ \E m \in wcfg.modules : ImportModule(m)
  \/ \E m \in wcfg.modules : ImportFails(m)
  \/ Serving
PatchSpec == PatchInit /\ [][PatchNext]_wvars

----------------------------------------------------------------------------
\* The patches of attribute a, in the order in which they were meant to be applied.
Meant(m, a) ==
  FoldLeft(Patched, <<>>, SelectSeq(AllPatches, LAMBDA h : h.mod = m /\ a \in h.names /\ h.needs \subseteq wcfg.has))
\* A second hook on a module that was loaded before both is skipped.
AtMostOneLate(m) == m \in DOMAIN wlate => wlate[m] <= 1

(* PatchesInForce: once patches are applied, every attribute of a loaded    *)
(* module has exactly the implementation its patches give it, in their      *)
(* order, however imports, failed imports and registrations interleave,     *)
(* as long as at most one hook came after its module.                       *)
PatchesInForce ==
  wpc = "serve" =>
    \A m \in wmods : AtMostOneLate(m) =>
      \A i \in DOMAIN AllPatches : AllPatches[i].mod = m =>
        \A a \in AllPatches[i].names : Impl(wimpl, m, a) = Meant(m, a)

----------------------------------------------------------------------------
(* What the scheduler's implementations set and use. *)
SetsOf(by) == IF by = "pc" THEN {"failed_recving_kv_req_ids"} ELSE IF by = "sparse" THEN {"ucm_sparse"} ELSE {}
RecoveryMethods == {"_update_requests_with_invalid_blocks", "_handle_invalid_blocks", "_update_waiting_for_remote_kv"}
SparseMethods == {"schedule", "add_request", "_free_request"}
UsesOf(a, by) ==
  (IF by = "pc" /\ a \in RecoveryMethods THEN {"failed_recving_kv_req_ids"} ELSE {})
    \union (IF by = "sparse" /\ a \in SparseMethods THEN {"ucm_sparse"} ELSE {})
ToSetsOf(chain) == UNION {SetsOf(by) : by \in ToSet(chain)}

(* RecoveryReady: the attributes the patched methods of the scheduler read  *)
(* are set by the __init__ in force.  Violated with ENABLE_SPARSE: the      *)
(* sparse __init__ replaces the one that prepares load-failure recovery.    *)
RecoveryReady ==
  (wpc = "serve" /\ Sched \in wmods /\ wcfg.version = 1100) =>
    \A a \in RecoveryMethods \union SparseMethods : \A by \in ToSet(Impl(wimpl, Sched, a)) :
      UsesOf(a, by) \subseteq ToSetsOf(Impl(wimpl, Sched, "__init__"))
=============================================================================
